-------------------------- MODULE AppLifecycleProofs --------------------------
(***************************************************************************)
(* For every configuration: the lifespan takes down what it has put up.    *)
(* The invariant says, for each step the lifespan may be at, what the      *)
(* steps before it have made, opened or closed; a start that raises meets  *)
(* it because the shutdown's part does not ask how far the start came.     *)
(***************************************************************************)
EXTENDS AppLifecycle, TLAPS

AfterRmq       == {"stop monitor", "join monitor", "down"}
AfterObservers == AfterRmq \cup {"close rmq"}
AfterRedis     == AfterObservers \cup {"close observers"}
AfterLlm       == AfterRedis \cup {"close redis"}
AfterLoops     == AfterLlm \cup {"close llm"}

\* What the shutdown has done before each of its steps.
TakenDown ==
    /\ at \in AfterLoops => "registered" \notin loops
    /\ at \in AfterLlm => "llm" \notin open
    /\ at \in AfterRedis => "redis" \notin open
    /\ at \in AfterObservers => "observers" \notin open
    /\ at \in AfterRmq => "rmq" \notin open /\ ~consuming

FromServing  == {"serving"}
FromRedis    == FromServing \cup {"auto start"}
FromConsume  == FromRedis \cup {"connect redis"}
FromRmq      == FromConsume \cup {"consume"}
FromTerrarium == FromRmq \cup {"connect rmq"}
FromLlm      == FromTerrarium \cup {"terrarium"}
FromDb       == FromLlm \cup {"llm"}
FromBrokers  == FromDb \cup {"db"}
FromMonitor  == FromBrokers \cup {"brokers", "websocket"}

\* What the start has made and opened before each of its steps.
PutUp ==
    /\ at \in FromMonitor => {"monitor"} \cap configured \subseteq made
    /\ at \in FromBrokers => {"rmq", "redis"} \cap configured \subseteq made
    /\ at \in FromDb => {"db"} \cap configured \subseteq made \cap open
    /\ at \in FromLlm => {"llm"} \cap configured \subseteq made \cap open
    /\ at \in FromTerrarium => {"terrarium"} \cap configured \subseteq made
    /\ at \in FromRmq => {"rmq"} \cap configured \subseteq open
    /\ at \in FromConsume => ("rmq" \in configured => consuming)
    /\ at \in FromRedis => {"redis"} \cap configured \subseteq open
    /\ at \in Starting \ (FromConsume \cup {"consume"}) => ~consuming

\* What holds throughout: the LLM client is open until the shutdown closes
\* it, loops come only from serving, deliveries only after the managers.
Throughout ==
    /\ at \in Starting => loops = {}
    /\ at \notin AfterLlm => ("llm" \in made => "llm" \in open)
    /\ consuming => {"llm", "terrarium"} \cap configured \subseteq made

LifeInv == TypeOK /\ TakenDown /\ PutUp /\ Throughout

USE DEF AfterRmq, AfterObservers, AfterRedis, AfterLlm, AfterLoops,
        FromServing, FromRedis, FromConsume, FromRmq, FromTerrarium, FromLlm,
        FromDb, FromBrokers, FromMonitor

-----------------------------------------------------------------------------

LEMMA LifeInit == Init => LifeInv
  BY DEF Init, LifeInv, TypeOK, TakenDown, PutUp, Throughout, Starting, Part

\* Every step keeps the types.
LEMMA TypeKept == TypeOK /\ Next => TypeOK'
  <1> SUFFICES ASSUME TypeOK, Next PROVE TypeOK'
    OBVIOUS
  <1> USE DEF TypeOK, Starting, Stopping, Part,
              Step, Make, Raise, Close, configVars, monitorVars, partVars
  <1>1. CASE InitLogger
    <2>1. at' \in Starting \cup {"serving"} \cup Stopping \cup {"down"}
      BY <1>1 DEF InitLogger
    <2>2. /\ made' \subseteq configured' \cup {"websocket"}
          /\ open' \subseteq {"rmq", "redis", "db", "llm", "observers"}
      BY <1>1 DEF InitLogger
    <2>3. /\ consuming' \in BOOLEAN
          /\ loops' \subseteq {"registered", "orphan"}
          /\ thread' \in {"none", "working", "asleep", "done"}
          /\ stopEvent' \in BOOLEAN /\ said' \in BOOLEAN
      BY <1>1 DEF InitLogger
    <2>4. /\ error' \in {"none", "log", "provider", "rules", "connection",
                         "init_file", "simulation"}
          /\ UNCHANGED configVars
      BY <1>1 DEF InitLogger
    <2> QED
      BY <2>1, <2>2, <2>3, <2>4
  <1>2. CASE InitMonitor
    BY <1>2 DEF InitMonitor
  <1>3. CASE InitWebsocket
    BY <1>3 DEF InitWebsocket
  <1>4. CASE InitBrokers
    BY <1>4 DEF InitBrokers
  <1>5. CASE InitDb
    <2>1. at' \in Starting \cup {"serving"} \cup Stopping \cup {"down"}
      BY <1>5 DEF InitDb
    <2>2. /\ made' \subseteq configured' \cup {"websocket"}
          /\ open' \subseteq {"rmq", "redis", "db", "llm", "observers"}
      BY <1>5 DEF InitDb
    <2>3. /\ consuming' \in BOOLEAN
          /\ loops' \subseteq {"registered", "orphan"}
          /\ thread' \in {"none", "working", "asleep", "done"}
          /\ stopEvent' \in BOOLEAN /\ said' \in BOOLEAN
      BY <1>5 DEF InitDb
    <2>4. /\ error' \in {"none", "log", "provider", "rules", "connection",
                         "init_file", "simulation"}
          /\ UNCHANGED configVars
      BY <1>5 DEF InitDb
    <2> QED
      BY <2>1, <2>2, <2>3, <2>4
  <1>6. CASE InitEmptyDb
    BY <1>6 DEF InitEmptyDb
  <1>7. CASE InitLlm
    <2>1. at' \in Starting \cup {"serving"} \cup Stopping \cup {"down"}
      BY <1>7 DEF InitLlm
    <2>2. /\ made' \subseteq configured' \cup {"websocket"}
          /\ open' \subseteq {"rmq", "redis", "db", "llm", "observers"}
      BY <1>7 DEF InitLlm
    <2>3. /\ consuming' \in BOOLEAN
          /\ loops' \subseteq {"registered", "orphan"}
          /\ thread' \in {"none", "working", "asleep", "done"}
          /\ stopEvent' \in BOOLEAN /\ said' \in BOOLEAN
      BY <1>7 DEF InitLlm
    <2>4. /\ error' \in {"none", "log", "provider", "rules", "connection",
                         "init_file", "simulation"}
          /\ UNCHANGED configVars
      BY <1>7 DEF InitLlm
    <2> QED
      BY <2>1, <2>2, <2>3, <2>4
  <1>8. CASE InitTerrarium
    <2>1. at' \in Starting \cup {"serving"} \cup Stopping \cup {"down"}
      BY <1>8 DEF InitTerrarium
    <2>2. /\ made' \subseteq configured' \cup {"websocket"}
          /\ open' \subseteq {"rmq", "redis", "db", "llm", "observers"}
      BY <1>8 DEF InitTerrarium
    <2>3. /\ consuming' \in BOOLEAN
          /\ loops' \subseteq {"registered", "orphan"}
          /\ thread' \in {"none", "working", "asleep", "done"}
          /\ stopEvent' \in BOOLEAN /\ said' \in BOOLEAN
      BY <1>8 DEF InitTerrarium
    <2>4. /\ error' \in {"none", "log", "provider", "rules", "connection",
                         "init_file", "simulation"}
          /\ UNCHANGED configVars
      BY <1>8 DEF InitTerrarium
    <2> QED
      BY <2>1, <2>2, <2>3, <2>4
  <1>9. CASE ConnectRmq
    <2>1. at' \in Starting \cup {"serving"} \cup Stopping \cup {"down"}
      BY <1>9 DEF ConnectRmq
    <2>2. /\ made' \subseteq configured' \cup {"websocket"}
          /\ open' \subseteq {"rmq", "redis", "db", "llm", "observers"}
      BY <1>9 DEF ConnectRmq
    <2>3. /\ consuming' \in BOOLEAN
          /\ loops' \subseteq {"registered", "orphan"}
          /\ thread' \in {"none", "working", "asleep", "done"}
          /\ stopEvent' \in BOOLEAN /\ said' \in BOOLEAN
      BY <1>9 DEF ConnectRmq
    <2>4. /\ error' \in {"none", "log", "provider", "rules", "connection",
                         "init_file", "simulation"}
          /\ UNCHANGED configVars
      BY <1>9 DEF ConnectRmq
    <2> QED
      BY <2>1, <2>2, <2>3, <2>4
  <1>10. CASE ConsumeQueues
    <2>1. at' \in Starting \cup {"serving"} \cup Stopping \cup {"down"}
      BY <1>10 DEF ConsumeQueues
    <2>2. /\ made' \subseteq configured' \cup {"websocket"}
          /\ open' \subseteq {"rmq", "redis", "db", "llm", "observers"}
      BY <1>10 DEF ConsumeQueues
    <2>3. /\ consuming' \in BOOLEAN
          /\ loops' \subseteq {"registered", "orphan"}
          /\ thread' \in {"none", "working", "asleep", "done"}
          /\ stopEvent' \in BOOLEAN /\ said' \in BOOLEAN
      BY <1>10 DEF ConsumeQueues
    <2>4. /\ error' \in {"none", "log", "provider", "rules", "connection",
                         "init_file", "simulation"}
          /\ UNCHANGED configVars
      BY <1>10 DEF ConsumeQueues
    <2> QED
      BY <2>1, <2>2, <2>3, <2>4
  <1>11. CASE ConnectRedis
    <2>1. at' \in Starting \cup {"serving"} \cup Stopping \cup {"down"}
      BY <1>11 DEF ConnectRedis
    <2>2. /\ made' \subseteq configured' \cup {"websocket"}
          /\ open' \subseteq {"rmq", "redis", "db", "llm", "observers"}
      BY <1>11 DEF ConnectRedis
    <2>3. /\ consuming' \in BOOLEAN
          /\ loops' \subseteq {"registered", "orphan"}
          /\ thread' \in {"none", "working", "asleep", "done"}
          /\ stopEvent' \in BOOLEAN /\ said' \in BOOLEAN
      BY <1>11 DEF ConnectRedis
    <2>4. /\ error' \in {"none", "log", "provider", "rules", "connection",
                         "init_file", "simulation"}
          /\ UNCHANGED configVars
      BY <1>11 DEF ConnectRedis
    <2> QED
      BY <2>1, <2>2, <2>3, <2>4
  <1>12. CASE AutoStart
    <2>1. at' \in Starting \cup {"serving"} \cup Stopping \cup {"down"}
      BY <1>12 DEF AutoStart
    <2>2. /\ made' \subseteq configured' \cup {"websocket"}
          /\ open' \subseteq {"rmq", "redis", "db", "llm", "observers"}
      BY <1>12 DEF AutoStart
    <2>3. /\ consuming' \in BOOLEAN
          /\ loops' \subseteq {"registered", "orphan"}
          /\ thread' \in {"none", "working", "asleep", "done"}
          /\ stopEvent' \in BOOLEAN /\ said' \in BOOLEAN
      BY <1>12 DEF AutoStart
    <2>4. /\ error' \in {"none", "log", "provider", "rules", "connection",
                         "init_file", "simulation"}
          /\ UNCHANGED configVars
      BY <1>12 DEF AutoStart
    <2> QED
      BY <2>1, <2>2, <2>3, <2>4
  <1>13. CASE ClientsAct
    <2>1. at' \in Starting \cup {"serving"} \cup Stopping \cup {"down"}
      BY <1>13 DEF ClientsAct
    <2>2. /\ made' \subseteq configured' \cup {"websocket"}
          /\ open' \subseteq {"rmq", "redis", "db", "llm", "observers"}
          /\ consuming' \in BOOLEAN
          /\ loops' \subseteq {"registered", "orphan"}
      BY <1>13 DEF ClientsAct
    <2>3. /\ thread' \in {"none", "working", "asleep", "done"}
          /\ stopEvent' \in BOOLEAN /\ said' \in BOOLEAN
          /\ UNCHANGED <<configVars, error>>
      BY <1>13 DEF ClientsAct
    <2> QED
      BY <2>1, <2>2, <2>3
  <1>14. CASE BeginShutdown
    <2>1. at' \in Starting \cup {"serving"} \cup Stopping \cup {"down"}
      BY <1>14 DEF BeginShutdown
    <2>2. /\ made' \subseteq configured' \cup {"websocket"}
          /\ open' \subseteq {"rmq", "redis", "db", "llm", "observers"}
          /\ consuming' \in BOOLEAN
          /\ loops' \subseteq {"registered", "orphan"}
      BY <1>14 DEF BeginShutdown
    <2>3. /\ thread' \in {"none", "working", "asleep", "done"}
          /\ stopEvent' \in BOOLEAN /\ said' \in BOOLEAN
          /\ UNCHANGED <<configVars, error>>
      BY <1>14 DEF BeginShutdown
    <2> QED
      BY <2>1, <2>2, <2>3
  <1>15. CASE CancelLoops
    <2>1. at' \in Starting \cup {"serving"} \cup Stopping \cup {"down"}
      BY <1>15 DEF CancelLoops
    <2>2. /\ made' \subseteq configured' \cup {"websocket"}
          /\ open' \subseteq {"rmq", "redis", "db", "llm", "observers"}
          /\ consuming' \in BOOLEAN
          /\ loops' \subseteq {"registered", "orphan"}
      BY <1>15 DEF CancelLoops
    <2>3. /\ thread' \in {"none", "working", "asleep", "done"}
          /\ stopEvent' \in BOOLEAN /\ said' \in BOOLEAN
          /\ UNCHANGED <<configVars, error>>
      BY <1>15 DEF CancelLoops
    <2> QED
      BY <2>1, <2>2, <2>3
  <1>16. CASE GatherLoops
    <2>1. at' \in Starting \cup {"serving"} \cup Stopping \cup {"down"}
      BY <1>16 DEF GatherLoops
    <2>2. /\ made' \subseteq configured' \cup {"websocket"}
          /\ open' \subseteq {"rmq", "redis", "db", "llm", "observers"}
          /\ consuming' \in BOOLEAN
          /\ loops' \subseteq {"registered", "orphan"}
      BY <1>16 DEF GatherLoops
    <2>3. /\ thread' \in {"none", "working", "asleep", "done"}
          /\ stopEvent' \in BOOLEAN /\ said' \in BOOLEAN
          /\ UNCHANGED <<configVars, error>>
      BY <1>16 DEF GatherLoops
    <2> QED
      BY <2>1, <2>2, <2>3
  <1>17. CASE CloseLlm
    <2>1. at' \in Starting \cup {"serving"} \cup Stopping \cup {"down"}
      BY <1>17 DEF CloseLlm
    <2>2. /\ made' \subseteq configured' \cup {"websocket"}
          /\ open' \subseteq {"rmq", "redis", "db", "llm", "observers"}
          /\ consuming' \in BOOLEAN
          /\ loops' \subseteq {"registered", "orphan"}
      BY <1>17 DEF CloseLlm
    <2>3. /\ thread' \in {"none", "working", "asleep", "done"}
          /\ stopEvent' \in BOOLEAN /\ said' \in BOOLEAN
          /\ UNCHANGED <<configVars, error>>
      BY <1>17 DEF CloseLlm
    <2> QED
      BY <2>1, <2>2, <2>3
  <1>18. CASE CloseRedis
    <2>1. at' \in Starting \cup {"serving"} \cup Stopping \cup {"down"}
      BY <1>18 DEF CloseRedis
    <2>2. /\ made' \subseteq configured' \cup {"websocket"}
          /\ open' \subseteq {"rmq", "redis", "db", "llm", "observers"}
          /\ consuming' \in BOOLEAN
          /\ loops' \subseteq {"registered", "orphan"}
      BY <1>18 DEF CloseRedis
    <2>3. /\ thread' \in {"none", "working", "asleep", "done"}
          /\ stopEvent' \in BOOLEAN /\ said' \in BOOLEAN
          /\ UNCHANGED <<configVars, error>>
      BY <1>18 DEF CloseRedis
    <2> QED
      BY <2>1, <2>2, <2>3
  <1>19. CASE CloseObservers
    <2>1. at' \in Starting \cup {"serving"} \cup Stopping \cup {"down"}
      BY <1>19 DEF CloseObservers
    <2>2. /\ made' \subseteq configured' \cup {"websocket"}
          /\ open' \subseteq {"rmq", "redis", "db", "llm", "observers"}
          /\ consuming' \in BOOLEAN
          /\ loops' \subseteq {"registered", "orphan"}
      BY <1>19 DEF CloseObservers
    <2>3. /\ thread' \in {"none", "working", "asleep", "done"}
          /\ stopEvent' \in BOOLEAN /\ said' \in BOOLEAN
          /\ UNCHANGED <<configVars, error>>
      BY <1>19 DEF CloseObservers
    <2> QED
      BY <2>1, <2>2, <2>3
  <1>20. CASE CloseRmq
    <2>1. at' \in Starting \cup {"serving"} \cup Stopping \cup {"down"}
      BY <1>20 DEF CloseRmq
    <2>2. /\ made' \subseteq configured' \cup {"websocket"}
          /\ open' \subseteq {"rmq", "redis", "db", "llm", "observers"}
          /\ consuming' \in BOOLEAN
          /\ loops' \subseteq {"registered", "orphan"}
      BY <1>20 DEF CloseRmq
    <2>3. /\ thread' \in {"none", "working", "asleep", "done"}
          /\ stopEvent' \in BOOLEAN /\ said' \in BOOLEAN
          /\ UNCHANGED <<configVars, error>>
      BY <1>20 DEF CloseRmq
    <2> QED
      BY <2>1, <2>2, <2>3
  <1>21. CASE StopMonitor
    <2>1. at' \in Starting \cup {"serving"} \cup Stopping \cup {"down"}
      BY <1>21 DEF StopMonitor
    <2>2. /\ made' \subseteq configured' \cup {"websocket"}
          /\ open' \subseteq {"rmq", "redis", "db", "llm", "observers"}
          /\ consuming' \in BOOLEAN
          /\ loops' \subseteq {"registered", "orphan"}
      BY <1>21 DEF StopMonitor
    <2>3. /\ thread' \in {"none", "working", "asleep", "done"}
          /\ stopEvent' \in BOOLEAN /\ said' \in BOOLEAN
          /\ UNCHANGED <<configVars, error>>
      BY <1>21 DEF StopMonitor
    <2> QED
      BY <2>1, <2>2, <2>3
  <1>22. CASE JoinMonitor
    <2>1. at' \in Starting \cup {"serving"} \cup Stopping \cup {"down"}
      BY <1>22 DEF JoinMonitor
    <2>2. /\ made' \subseteq configured' \cup {"websocket"}
          /\ open' \subseteq {"rmq", "redis", "db", "llm", "observers"}
          /\ consuming' \in BOOLEAN
          /\ loops' \subseteq {"registered", "orphan"}
      BY <1>22 DEF JoinMonitor
    <2>3. /\ thread' \in {"none", "working", "asleep", "done"}
          /\ stopEvent' \in BOOLEAN /\ said' \in BOOLEAN
          /\ UNCHANGED <<configVars, error>>
      BY <1>22 DEF JoinMonitor
    <2> QED
      BY <2>1, <2>2, <2>3
  <1>23. CASE MonitorSleeps
    <2>1. at' \in Starting \cup {"serving"} \cup Stopping \cup {"down"}
      BY <1>23 DEF MonitorSleeps
    <2>2. /\ made' \subseteq configured' \cup {"websocket"}
          /\ open' \subseteq {"rmq", "redis", "db", "llm", "observers"}
      BY <1>23 DEF MonitorSleeps
    <2>3. /\ consuming' \in BOOLEAN
          /\ loops' \subseteq {"registered", "orphan"}
          /\ thread' \in {"none", "working", "asleep", "done"}
          /\ stopEvent' \in BOOLEAN /\ said' \in BOOLEAN
      BY <1>23 DEF MonitorSleeps
    <2>4. /\ error' \in {"none", "log", "provider", "rules", "connection",
                         "init_file", "simulation"}
          /\ UNCHANGED configVars
      BY <1>23 DEF MonitorSleeps
    <2> QED
      BY <2>1, <2>2, <2>3, <2>4
  <1>24. CASE MonitorWakes
    <2>1. at' \in Starting \cup {"serving"} \cup Stopping \cup {"down"}
      BY <1>24 DEF MonitorWakes
    <2>2. /\ made' \subseteq configured' \cup {"websocket"}
          /\ open' \subseteq {"rmq", "redis", "db", "llm", "observers"}
      BY <1>24 DEF MonitorWakes
    <2>3. /\ consuming' \in BOOLEAN
          /\ loops' \subseteq {"registered", "orphan"}
          /\ thread' \in {"none", "working", "asleep", "done"}
          /\ stopEvent' \in BOOLEAN /\ said' \in BOOLEAN
      BY <1>24 DEF MonitorWakes
    <2>4. /\ error' \in {"none", "log", "provider", "rules", "connection",
                         "init_file", "simulation"}
          /\ UNCHANGED configVars
      BY <1>24 DEF MonitorWakes
    <2> QED
      BY <2>1, <2>2, <2>3, <2>4
  <1> QED
    BY <1>1, <1>2, <1>3, <1>4, <1>5, <1>6, <1>7, <1>8, <1>9, <1>10, <1>11, <1>12,
       <1>13, <1>14, <1>15, <1>16, <1>17, <1>18, <1>19, <1>20, <1>21, <1>22, <1>23, <1>24
       DEF Next, Startup, Shutdown

\* Nothing is opened again once the shutdown has closed it.
LEMMA TakenDownKept == TypeOK /\ TakenDown /\ Next => TakenDown'
  <1> SUFFICES ASSUME TypeOK /\ TakenDown, Next PROVE TakenDown'
    OBVIOUS
  <1> USE DEF TypeOK, TakenDown, Part,
              Step, Make, Raise, Close, configVars, monitorVars, partVars
  <1>1. CASE InitLogger
    BY <1>1 DEF InitLogger
  <1>2. CASE InitMonitor
    BY <1>2 DEF InitMonitor
  <1>3. CASE InitWebsocket
    BY <1>3 DEF InitWebsocket
  <1>4. CASE InitBrokers
    BY <1>4 DEF InitBrokers
  <1>5. CASE InitDb
    BY <1>5 DEF InitDb
  <1>6. CASE InitEmptyDb
    BY <1>6 DEF InitEmptyDb
  <1>7. CASE InitLlm
    BY <1>7 DEF InitLlm
  <1>8. CASE InitTerrarium
    BY <1>8 DEF InitTerrarium
  <1>9. CASE ConnectRmq
    BY <1>9 DEF ConnectRmq
  <1>10. CASE ConsumeQueues
    BY <1>10 DEF ConsumeQueues
  <1>11. CASE ConnectRedis
    BY <1>11 DEF ConnectRedis
  <1>12. CASE AutoStart
    BY <1>12 DEF AutoStart
  <1>13. CASE ClientsAct
    BY <1>13 DEF ClientsAct
  <1>14. CASE BeginShutdown
    BY <1>14 DEF BeginShutdown
  <1>15. CASE CancelLoops
    BY <1>15 DEF CancelLoops
  <1>16. CASE GatherLoops
    BY <1>16 DEF GatherLoops
  <1>17. CASE CloseLlm
    BY <1>17 DEF CloseLlm
  <1>18. CASE CloseRedis
    BY <1>18 DEF CloseRedis
  <1>19. CASE CloseObservers
    BY <1>19 DEF CloseObservers
  <1>20. CASE CloseRmq
    BY <1>20 DEF CloseRmq
  <1>21. CASE StopMonitor
    BY <1>21 DEF StopMonitor
  <1>22. CASE JoinMonitor
    BY <1>22 DEF JoinMonitor
  <1>23. CASE MonitorSleeps
    BY <1>23 DEF MonitorSleeps
  <1>24. CASE MonitorWakes
    BY <1>24 DEF MonitorWakes
  <1> QED
    BY <1>1, <1>2, <1>3, <1>4, <1>5, <1>6, <1>7, <1>8, <1>9, <1>10, <1>11, <1>12,
       <1>13, <1>14, <1>15, <1>16, <1>17, <1>18, <1>19, <1>20, <1>21, <1>22, <1>23, <1>24
       DEF Next, Startup, Shutdown

\* Each step of the start leaves what the next one counts on.
LEMMA PutUpKept == TypeOK /\ PutUp /\ Next => PutUp'
  <1> SUFFICES ASSUME TypeOK /\ PutUp, Next PROVE PutUp'
    OBVIOUS
  <1> USE DEF PutUp, Starting,
              Step, Make, Raise, Close, configVars, monitorVars, partVars
  <1>1. CASE InitLogger
    BY <1>1 DEF InitLogger
  <1>2. CASE InitMonitor
    BY <1>2 DEF InitMonitor
  <1>3. CASE InitWebsocket
    BY <1>3 DEF InitWebsocket
  <1>4. CASE InitBrokers
    BY <1>4 DEF InitBrokers
  <1>5. CASE InitDb
    BY <1>5 DEF InitDb
  <1>6. CASE InitEmptyDb
    BY <1>6 DEF InitEmptyDb
  <1>7. CASE InitLlm
    BY <1>7 DEF InitLlm
  <1>8. CASE InitTerrarium
    BY <1>8 DEF InitTerrarium
  <1>9. CASE ConnectRmq
    BY <1>9 DEF ConnectRmq
  <1>10. CASE ConsumeQueues
    BY <1>10 DEF ConsumeQueues
  <1>11. CASE ConnectRedis
    BY <1>11 DEF ConnectRedis
  <1>12. CASE AutoStart
    BY <1>12 DEF AutoStart
  <1>13. CASE ClientsAct
    BY <1>13 DEF ClientsAct
  <1>14. CASE BeginShutdown
    BY <1>14 DEF BeginShutdown
  <1>15. CASE CancelLoops
    BY <1>15 DEF CancelLoops
  <1>16. CASE GatherLoops
    BY <1>16 DEF GatherLoops
  <1>17. CASE CloseLlm
    BY <1>17 DEF CloseLlm
  <1>18. CASE CloseRedis
    BY <1>18 DEF CloseRedis
  <1>19. CASE CloseObservers
    BY <1>19 DEF CloseObservers
  <1>20. CASE CloseRmq
    BY <1>20 DEF CloseRmq
  <1>21. CASE StopMonitor
    BY <1>21 DEF StopMonitor
  <1>22. CASE JoinMonitor
    BY <1>22 DEF JoinMonitor
  <1>23. CASE MonitorSleeps
    BY <1>23 DEF MonitorSleeps
  <1>24. CASE MonitorWakes
    BY <1>24 DEF MonitorWakes
  <1> QED
    BY <1>1, <1>2, <1>3, <1>4, <1>5, <1>6, <1>7, <1>8, <1>9, <1>10, <1>11, <1>12,
       <1>13, <1>14, <1>15, <1>16, <1>17, <1>18, <1>19, <1>20, <1>21, <1>22, <1>23, <1>24
       DEF Next, Startup, Shutdown

\* The LLM stays open, loops and deliveries come late enough.
LEMMA ThroughoutKept == LifeInv /\ Next => Throughout'
  <1> SUFFICES ASSUME LifeInv, Next PROVE Throughout'
    OBVIOUS
  <1> USE DEF LifeInv, Throughout, PutUp, Starting,
              Step, Make, Raise, Close, configVars, monitorVars, partVars
  <1>1. CASE InitLogger
    BY <1>1 DEF InitLogger
  <1>2. CASE InitMonitor
    BY <1>2 DEF InitMonitor
  <1>3. CASE InitWebsocket
    BY <1>3 DEF InitWebsocket
  <1>4. CASE InitBrokers
    BY <1>4 DEF InitBrokers
  <1>5. CASE InitDb
    BY <1>5 DEF InitDb
  <1>6. CASE InitEmptyDb
    BY <1>6 DEF InitEmptyDb
  <1>7. CASE InitLlm
    BY <1>7 DEF InitLlm
  <1>8. CASE InitTerrarium
    BY <1>8 DEF InitTerrarium
  <1>9. CASE ConnectRmq
    BY <1>9 DEF ConnectRmq
  <1>10. CASE ConsumeQueues
    BY <1>10 DEF ConsumeQueues
  <1>11. CASE ConnectRedis
    BY <1>11 DEF ConnectRedis
  <1>12. CASE AutoStart
    BY <1>12 DEF AutoStart
  <1>13. CASE ClientsAct
    BY <1>13 DEF ClientsAct
  <1>14. CASE BeginShutdown
    BY <1>14 DEF BeginShutdown
  <1>15. CASE CancelLoops
    BY <1>15 DEF CancelLoops
  <1>16. CASE GatherLoops
    BY <1>16 DEF GatherLoops
  <1>17. CASE CloseLlm
    BY <1>17 DEF CloseLlm
  <1>18. CASE CloseRedis
    BY <1>18 DEF CloseRedis
  <1>19. CASE CloseObservers
    BY <1>19 DEF CloseObservers
  <1>20. CASE CloseRmq
    BY <1>20 DEF CloseRmq
  <1>21. CASE StopMonitor
    BY <1>21 DEF StopMonitor
  <1>22. CASE JoinMonitor
    BY <1>22 DEF JoinMonitor
  <1>23. CASE MonitorSleeps
    BY <1>23 DEF MonitorSleeps
  <1>24. CASE MonitorWakes
    BY <1>24 DEF MonitorWakes
  <1> QED
    BY <1>1, <1>2, <1>3, <1>4, <1>5, <1>6, <1>7, <1>8, <1>9, <1>10, <1>11, <1>12,
       <1>13, <1>14, <1>15, <1>16, <1>17, <1>18, <1>19, <1>20, <1>21, <1>22, <1>23, <1>24
       DEF Next, Startup, Shutdown

\* The invariant behind the theorems holds in every run.
THEOREM LifeInvariant == Spec => []LifeInv
  <1>1. LifeInv /\ [Next]_vars => LifeInv'
    <2> SUFFICES ASSUME LifeInv, [Next]_vars PROVE LifeInv'
      OBVIOUS
    <2>1. CASE Next
      BY <2>1, TypeKept, TakenDownKept, PutUpKept, ThroughoutKept DEF LifeInv
    <2>2. CASE UNCHANGED vars
      <3> USE <2>2 DEF vars, configVars, partVars, monitorVars, LifeInv
      <3>0. /\ configured' = configured /\ provider' = provider
            /\ rules' = rules /\ autoStart' = autoStart
            /\ tables' = tables
            /\ at' = at /\ made' = made /\ open' = open
            /\ consuming' = consuming /\ loops' = loops /\ thread' = thread
            /\ stopEvent' = stopEvent /\ error' = error /\ said' = said
        OBVIOUS
      <3>1. TypeOK'
        <4>1. /\ provider' \in BOOLEAN /\ rules' \in BOOLEAN
              /\ autoStart' \in BOOLEAN
              /\ tables' \in BOOLEAN /\ consuming' \in BOOLEAN
              /\ stopEvent' \in BOOLEAN /\ said' \in BOOLEAN
          BY <3>0, Zenon DEF TypeOK
        <4>2. /\ configured' \subseteq Part
              /\ at' \in Starting \cup {"serving"} \cup Stopping \cup {"down"}
              /\ thread' \in {"none", "working", "asleep", "done"}
          BY ONLY LifeInv, <3>0 DEF LifeInv, TypeOK
        <4>3. /\ made' \subseteq configured' \cup {"websocket"}
              /\ open' \subseteq {"rmq", "redis", "db", "llm", "observers"}
              /\ loops' \subseteq {"registered", "orphan"}
              /\ error' \in {"none", "log", "provider", "rules", "connection",
                             "init_file", "simulation"}
          BY ONLY LifeInv, <3>0 DEF LifeInv, TypeOK
        <4> QED
          BY <4>1, <4>2, <4>3 DEF TypeOK
      <3>2. TakenDown'
        BY DEF TakenDown
      <3>3. PutUp'
        BY DEF PutUp
      <3>4. Throughout'
        BY DEF Throughout
      <3> QED
        BY <3>1, <3>2, <3>3, <3>4
    <2> QED
      BY <2>1, <2>2
  <1> QED
    BY LifeInit, <1>1, PTL DEF Spec

\* Every variable of the lifespan is in its range: AppContext has configured
\* parts only, only those that can connect are open, and error names a cause.
THEOREM TypeCorrect == Spec => []TypeOK
  BY LifeInvariant, PTL DEF LifeInv

\* AppFactory._shutdown closes what any start, complete or not, has opened.
THEOREM StartedIsReleased == Spec => []EverythingIsReleased
  <1>1. LifeInv => EverythingIsReleased
    BY DEF LifeInv, TypeOK, TakenDown, EverythingIsReleased
  <1> QED
    BY LifeInvariant, <1>1, PTL

\* AppFactory._startup serves nothing before every configured part is there.
THEOREM ServersAreComplete == Spec => []ServingMeansComplete
  <1>1. LifeInv => ServingMeansComplete
    BY DEF LifeInv, TypeOK, PutUp, ServingMeansComplete, Part
  <1> QED
    BY LifeInvariant, <1>1, PTL

\* The order of AppFactory._shutdown: loops, then the LLM they ask.
THEOREM LoopsFindTheirLlm == Spec => []LoopsEndBeforeTheirLlm
  <1>1. LifeInv => LoopsEndBeforeTheirLlm
    BY DEF LifeInv, TakenDown, Throughout, LoopsEndBeforeTheirLlm
  <1> QED
    BY LifeInvariant, <1>1, PTL

\* The order of AppFactory._startup: managers, then the queues' consumers.
THEOREM MessagesFindManagers == Spec => []DeliveriesFindManagers
  <1>1. LifeInv => DeliveriesFindManagers
    BY DEF LifeInv, Throughout, DeliveriesFindManagers
  <1> QED
    BY LifeInvariant, <1>1, PTL
=============================================================================
