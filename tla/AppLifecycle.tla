----------------------------- MODULE AppLifecycle -----------------------------
(***************************************************************************)
(* The lifespan of the server: AppFactory starts the parts of the          *)
(* AppContext one after the other, serves, and takes them down again; a    *)
(* step of the start that raises goes straight to the shutdown.            *)
(*                                                                         *)
(* at names the step the lifespan is at.  A configured part may be         *)
(*   made   the attribute of the context is no longer None                 *)
(*   open   it holds a connection that nobody has closed or tried to close *)
(* (a close that raises is logged and never tried again).                  *)
(*                                                                         *)
(* Two things run beside the lifespan: the auto-tick loops, of which only  *)
(* those in SimulationManager.tasks are registered (SimulationManager      *)
(* shows how one comes to be an orphan), and the thread of the             *)
(* SystemMonitor, which sleeps Interval seconds between two samples while  *)
(* stop() waits for JoinTimeout seconds only.                              *)
(***************************************************************************)
EXTENDS Naturals

CONSTANTS
    Interval,    \* monitoring_interval
    JoinTimeout  \* the 5 in SystemMonitor.stop
ASSUME TimesAssumption == Interval \in Nat /\ JoinTimeout \in Nat

VARIABLES
    configured,  \* the parts the configuration asks for
    provider,    \* the LLM provider it names is one that is enabled
    rules,       \* its terrarium settings pass the schema of WorldRules
    autoStart,   \* terrarium.auto_start
    tables,      \* the database has its tables
    at,          \* the step of the lifespan
    made,        \* parts the context has
    open,        \* connections that are open
    consuming,   \* RabbitMQ delivers messages to the processor
    loops,       \* auto-tick tasks that are alive
    thread,      \* the monitor's thread
    stopEvent,   \* SystemMonitor._stop_event
    error,       \* what the start raised
    said         \* the log has "system monitor stopped"

configVars == <<configured, provider, rules, autoStart, tables>>
monitorVars == <<thread, stopEvent, said>>
partVars == <<made, open, consuming, loops>>
vars == <<configVars, at, partVars, monitorVars, error>>

Part == {"monitor", "rmq", "redis", "db", "llm", "terrarium"}
Starting == {"logger", "monitor", "websocket", "brokers", "db", "llm",
             "terrarium", "connect rmq", "consume", "connect redis",
             "auto start"}
Stopping == {"cancel loops", "gather loops", "close llm", "close redis",
             "close observers", "close rmq", "stop monitor", "join monitor"}

TypeOK ==
    /\ configured \subseteq Part
    /\ provider \in BOOLEAN /\ rules \in BOOLEAN
    /\ autoStart \in BOOLEAN /\ tables \in BOOLEAN
    /\ at \in Starting \cup {"serving"} \cup Stopping \cup {"down"}
    /\ made \subseteq configured \cup {"websocket"}
    /\ open \subseteq {"rmq", "redis", "db", "llm", "observers"}
    /\ consuming \in BOOLEAN
    /\ loops \subseteq {"registered", "orphan"}
    /\ thread \in {"none", "working", "asleep", "done"}
    /\ stopEvent \in BOOLEAN /\ said \in BOOLEAN
    /\ error \in {"none", "log", "provider", "rules", "connection",
                  "init_file", "simulation"}

Init ==
    /\ configured \in SUBSET Part
    /\ provider \in BOOLEAN /\ rules \in BOOLEAN
    /\ autoStart \in BOOLEAN /\ tables \in BOOLEAN
    /\ at = "logger"
    /\ made = {}
    /\ open = {}
    /\ consuming = FALSE
    /\ loops = {}
    /\ thread = "none"
    /\ stopEvent = FALSE
    /\ error = "none"
    /\ said = FALSE

-----------------------------------------------------------------------------
(* Start *)

Step(from, to) == at = from /\ at' = to

\* The context gets the part if it is configured.
Make(parts) == made' = made \cup (parts \cap configured)

\* An exception or a cancellation: the finally clause of the lifespan.
Raise(from, what) ==
    /\ Step(from, "cancel loops")
    /\ error' = what

InitLogger ==
    /\ \/ Step("logger", "monitor") /\ UNCHANGED error
       \/ Raise("logger", "log")
    /\ UNCHANGED <<configVars, partVars, monitorVars>>

\* _init_system_manager: the monitor starts its thread at once.
InitMonitor ==
    /\ Step("monitor", "websocket")
    /\ Make({"monitor"})
    /\ thread' = IF "monitor" \in configured THEN "working" ELSE thread
    /\ stopEvent' = FALSE
    /\ UNCHANGED <<configVars, open, consuming, loops, error, said>>

InitWebsocket ==
    /\ Step("websocket", "brokers")
    /\ made' = made \cup {"websocket"}
    /\ UNCHANGED <<configVars, open, consuming, loops, monitorVars, error>>

\* Mutant: the handler connects and consumes as soon as it is made.
InitBrokersConsuming ==
    /\ Step("brokers", "db")
    /\ Make({"rmq", "redis"})
    /\ consuming' = ("rmq" \in configured)
    /\ UNCHANGED <<configVars, open, loops, monitorVars, error>>

\* _init_rmq and _init_redis only make the handlers.
InitBrokers ==
    /\ Step("brokers", "db")
    /\ Make({"rmq", "redis"})
    /\ UNCHANGED <<configVars, open, consuming, loops, monitorVars, error>>

\* DBHandler connects in its constructor and asks for a table; either may
\* raise, and then the handler is not stored.
InitDb ==
    /\ \/ /\ "db" \in configured => tables
          /\ Step("db", "llm")
          /\ Make({"db"})
          /\ open' = open \cup ({"db"} \cap configured)
          /\ UNCHANGED error
       \/ /\ "db" \in configured
          /\ Raise("db", "connection")
          /\ open' \in {open, open \cup {"db"}}
          /\ UNCHANGED made
    /\ UNCHANGED <<configVars, consuming, loops, monitorVars>>

\* The first run on an empty database: run_init_schema looks for an SQL file
\* that is not in the repository.  Nobody has the open connection.
InitEmptyDb ==
    /\ "db" \in configured /\ ~tables
    /\ Raise("db", "init_file")
    /\ open' = open \cup {"db"}
    /\ UNCHANGED <<configVars, made, consuming, loops, monitorVars>>

\* LLMManager makes its provider, and that its HTTP client.
InitLlm ==
    /\ \/ /\ "llm" \in configured => provider
          /\ Step("llm", "terrarium")
          /\ Make({"llm"})
          /\ open' = open \cup ({"llm"} \cap configured)
          /\ UNCHANGED error
       \/ /\ "llm" \in configured /\ ~provider
          /\ Raise("llm", "provider")
          /\ UNCHANGED <<made, open>>
    /\ UNCHANGED <<configVars, consuming, loops, monitorVars>>

\* The managers, the simulation manager last.  The world manager reads the
\* rules of the world, whose schema is narrower than TerrariumConfig's, and
\* raises with no simulation manager made.
InitTerrarium ==
    /\ \/ /\ "terrarium" \in configured => rules
          /\ Step("terrarium", "connect rmq")
          /\ Make({"terrarium"})
          /\ UNCHANGED error
       \/ /\ "terrarium" \in configured /\ ~rules
          /\ Raise("terrarium", "rules")
          /\ UNCHANGED made
    /\ UNCHANGED <<configVars, open, consuming, loops, monitorVars>>

\* The connection, and then a channel on it: the second may raise with the
\* first open.
ConnectRmq ==
    /\ \/ /\ Step("connect rmq", "consume")
          /\ open' = open \cup ({"rmq"} \cap made)
          /\ UNCHANGED error
       \/ /\ "rmq" \in made
          /\ Raise("connect rmq", "connection")
          /\ open' \in {open, open \cup {"rmq"}}
    /\ UNCHANGED <<configVars, made, consuming, loops, monitorVars>>

\* consume_multi: one queue after the other, from the first on messages come.
ConsumeQueues ==
    /\ \/ /\ Step("consume", "connect redis")
          /\ consuming' = IF "rmq" \in made THEN TRUE ELSE consuming
          /\ UNCHANGED error
       \/ /\ "rmq" \in made
          /\ Raise("consume", "connection")
          /\ consuming' \in BOOLEAN
    /\ UNCHANGED <<configVars, made, open, loops, monitorVars>>

\* The client is stored before the ping that may raise.
ConnectRedis ==
    /\ open' = open \cup ({"redis"} \cap made)
    /\ \/ Step("connect redis", "auto start") /\ UNCHANGED error
       \/ "redis" \in made /\ Raise("connect redis", "connection")
    /\ UNCHANGED <<configVars, made, consuming, loops, monitorVars>>

\* ensure and start of the default simulation, if it is asked for.
AutoStart ==
    /\ LET wanted == autoStart /\ "terrarium" \in made IN
       \/ /\ Step("auto start", "serving")
          /\ loops' = IF wanted THEN {"registered"} ELSE {}
          /\ UNCHANGED error
       \/ /\ wanted
          /\ Raise("auto start", "simulation")
          /\ UNCHANGED loops
    /\ UNCHANGED <<configVars, made, open, consuming, monitorVars>>

-----------------------------------------------------------------------------
(* Serving: clients connect and go, start and stop simulations. *)

ClientsAct ==
    /\ at = "serving"
    /\ "terrarium" \in made
    /\ loops' \in SUBSET {"registered", "orphan"}
    /\ open' \in {open \cup {"observers"}, open \ {"observers"}}
    /\ UNCHANGED <<configVars, at, made, consuming, monitorVars, error>>

\* uvicorn ends the lifespan, with no request in flight any more.
BeginShutdown ==
    /\ Step("serving", "cancel loops")
    /\ UNCHANGED <<configVars, partVars, monitorVars, error>>

-----------------------------------------------------------------------------
(* Shutdown: each step for the parts the context has. *)

\* Mutant: the loops are cancelled and not waited for.
CancelLoopsOnly ==
    /\ Step("cancel loops", "close llm")
    /\ UNCHANGED <<configVars, partVars, monitorVars, error>>

\* simulation_manager.close cancels the registered tasks ...
CancelLoops ==
    /\ Step("cancel loops", "gather loops")
    /\ UNCHANGED <<configVars, partVars, monitorVars, error>>

\* ... and waits for them.
GatherLoops ==
    /\ Step("gather loops", "close llm")
    /\ loops' = loops \ {"registered"}
    /\ UNCHANGED <<configVars, made, open, consuming, monitorVars, error>>

Close(from, to, part) ==
    /\ Step(from, to)
    /\ open' = open \ {part}

\* Mutant: the close is not guarded, and what it raises ends the shutdown.
CloseLlmUnguarded ==
    /\ \E to \in {"close redis", "down"} : Close("close llm", to, "llm")
    /\ UNCHANGED <<configVars, made, consuming, loops, monitorVars, error>>

CloseLlm ==
    /\ Close("close llm", "close redis", "llm")
    /\ UNCHANGED <<configVars, made, consuming, loops, monitorVars, error>>

CloseRedis ==
    /\ Close("close redis", "close observers", "redis")
    /\ UNCHANGED <<configVars, made, consuming, loops, monitorVars, error>>

CloseObservers ==
    /\ Close("close observers", "close rmq", "observers")
    /\ UNCHANGED <<configVars, made, consuming, loops, monitorVars, error>>

CloseRmq ==
    /\ Close("close rmq", "stop monitor", "rmq")
    /\ consuming' = FALSE
    /\ UNCHANGED <<configVars, made, loops, monitorVars, error>>

\* SystemMonitor.stop does nothing when there is no thread.
StopMonitor ==
    /\ IF thread \in {"working", "asleep"}
       THEN /\ Step("stop monitor", "join monitor")
            /\ stopEvent' = TRUE
       ELSE /\ Step("stop monitor", "down")
            /\ UNCHANGED stopEvent
    /\ UNCHANGED <<configVars, partVars, thread, said, error>>

\* join returns with the thread, or without it once its time is over.
JoinMonitor ==
    /\ \/ thread = "done"
       \/ thread = "asleep" /\ Interval > JoinTimeout
    /\ Step("join monitor", "down")
    /\ said' = TRUE
    /\ UNCHANGED <<configVars, partVars, thread, stopEvent, error>>

-----------------------------------------------------------------------------
(* What runs beside the lifespan *)

\* The loop samples and sleeps; only when it wakes does it look at the event.
MonitorSleeps ==
    /\ thread = "working" /\ at # "down"
    /\ thread' = "asleep"
    /\ UNCHANGED <<configVars, at, partVars, stopEvent, said, error>>

MonitorWakes ==
    /\ thread = "asleep" /\ at # "down"
    /\ thread' = IF stopEvent THEN "done" ELSE "working"
    /\ UNCHANGED <<configVars, at, partVars, stopEvent, said, error>>

Startup ==
    \/ InitLogger \/ InitMonitor \/ InitWebsocket \/ InitBrokers
    \/ InitDb \/ InitEmptyDb \/ InitLlm \/ InitTerrarium
    \/ ConnectRmq \/ ConsumeQueues \/ ConnectRedis \/ AutoStart

Shutdown ==
    \/ CancelLoops \/ GatherLoops
    \/ CloseLlm \/ CloseRedis \/ CloseObservers \/ CloseRmq
    \/ StopMonitor \/ JoinMonitor

Next ==
    \/ Startup \/ ClientsAct \/ BeginShutdown \/ Shutdown
    \/ MonitorSleeps \/ MonitorWakes

Spec == Init /\ [][Next]_vars

-----------------------------------------------------------------------------
(* Safety *)

\* Whatever step of the start has raised, the shutdown closes everything that
\* step and those before it had opened, the broken half-made connection
\* included; only the database connection is nobody's to close.
EverythingIsReleased ==
    at = "down" => open \subseteq {"db"} /\ ~consuming /\ "registered" \notin loops

\* A server that answers requests has every part its configuration asks for.
ServingMeansComplete ==
    at = "serving" =>
        /\ configured \subseteq made
        /\ {"rmq", "redis", "db", "llm"} \cap configured \subseteq open
        /\ "rmq" \in configured => consuming

\* A registered auto-tick never finds the LLM client it was started with
\* closed: the shutdown ends the loops first.
LoopsEndBeforeTheirLlm ==
    "registered" \in loops /\ "llm" \in made => "llm" \in open

\* RabbitMQ messages reach the processor only when the managers a handler may
\* use are made, although they may come before the start is complete.
DeliveriesFindManagers ==
    consuming => {"llm", "terrarium"} \cap configured \subseteq made
=============================================================================
