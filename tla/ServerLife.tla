----------------------------- MODULE ServerLife -----------------------------
(***************************************************************************)
(* The two threads of the server (src/Server/main.cpp) and the timers of   *)
(* src/Server/Server.cpp: Terminal, which reads the operator's commands,   *)
(* and StartServer, which polls the io_context while the server runs.      *)
(*                                                                         *)
(* A wait of an asio timer is pending until it expires or until the timer  *)
(* is armed again, which aborts it; either way its handler is then run by  *)
(* poll(), in the order of completion.  The handlers of the samosbor and   *)
(* of the autosave do not look at the error code.                          *)
(*                                                                         *)
(* The world and the save file are what start, load and save tell apart:   *)
(* a map or nothing.  The module begins when StartServer has published the *)
(* Server and armed its two ticks (line 32).                               *)
(***************************************************************************)
EXTENDS Naturals, Sequences, FiniteSets

CONSTANTS
  Commands,    \* what the operator types: a subset of AllCommands
  MaxGames,    \* Bound: games generated or loaded
  MaxAutosaves \* Bound: times 'autosave start' is typed

AllCommands == {"loadconf", "gen", "start", "stop", "reset", "exit", "save", "load",
                "autosave start", "autosave stop"}

ASSUME BoundAssumption ==
  /\ Commands \subseteq AllCommands
  /\ MaxGames \in Nat /\ MaxAutosaves \in Nat

Ticks == {"timer1", "timer2"}         \* mapUpdate, checkPlayersSamosbor
Chain == {"timer3", "samosborIntervalTimer", "samosborDuringTimer"}
Timers == Ticks \cup Chain \cup {"autosave_timer"}
Worlds == {"nothing", "map"}
Files == Worlds \cup {"missing"}

VARIABLES
  configLoaded, isGenerated, isReseted, samosborGoing, \* Game
  world,          \* gamedata.floors
  file,           \* the save file
  autosaveGoing,
  serverRunning, serverActive, isExit,                 \* the atomics of main.cpp
  terminal,       \* where Terminal is: "prompt", or inside of a command
  server,         \* where StartServer is
  stopped,        \* the io_context has been stopped
  pending,        \* timers that have a pending wait
  fresh,          \* those armed since the queue of completed waits was last empty
  ready,          \* completed waits in the io_context: [timer, ec]
  games, autosaves \* counters of the bounds

gameVars == <<configLoaded, isGenerated, isReseted, world>>
flagVars == <<serverRunning, serverActive, isExit>>
timerVars == <<pending, fresh, ready>>
countVars == <<games, autosaves>>
vars == <<gameVars, samosborGoing, file, autosaveGoing, flagVars, terminal, server, stopped,
          timerVars, countVars>>

-----------------------------------------------------------------------------
(* Timers *)

\* Handlers take less time than the shortest timer: no timer is over again before
\* everything that was completed when it was armed has run.
Younger(armed) == IF ready' = <<>> THEN {} ELSE fresh \cup armed

\* expires_after() and async_wait(): the pending wait is aborted, a new one begins
Arm(t, rest) ==
  /\ pending' = pending \cup {t}
  /\ ready' = IF t \in pending THEN Append(rest, [timer |-> t, ec |-> TRUE]) ELSE rest
  /\ fresh' = Younger({t})

NoWait(rest) == pending' = pending /\ ready' = rest /\ fresh' = Younger({})

\* Inside poll() the reactor completes the waits that are over
Expire(t) ==
  /\ server = "poll" /\ ~stopped
  /\ t \in pending \ fresh
  /\ pending' = pending \ {t}
  /\ ready' = Append(ready, [timer |-> t, ec |-> FALSE])
  /\ UNCHANGED <<fresh, gameVars, samosborGoing, file, autosaveGoing, flagVars, terminal, server,
                 stopped, countVars>>

-----------------------------------------------------------------------------
(* Handlers, run by poll() *)

\* Server::waitSamosbor announces the samosbor
Mut_StartsWithoutWait(rest) ==
  /\ IF isGenerated THEN Arm("samosborDuringTimer", rest) ELSE NoWait(rest)
  /\ samosborGoing' = isGenerated
  /\ UNCHANGED file
waitSamosbor(rest) ==
  /\ IF isGenerated THEN Arm("samosborIntervalTimer", rest) ELSE NoWait(rest)
  /\ UNCHANGED <<samosborGoing, file>>

Mut_ArmsWrongTimer(rest) ==
  /\ samosborGoing' = TRUE
  /\ Arm("timer3", rest)
  /\ UNCHANGED file
startSamosbor(rest) ==
  /\ samosborGoing' = TRUE
  /\ Arm("samosborDuringTimer", rest)
  /\ UNCHANGED file

\* stopSamosbor(force); a forced stop does not arm the timer of the next one
Mut_ForceArmsToo(force, rest) ==
  /\ samosborGoing' = FALSE
  /\ Arm("timer3", rest)
Mut_SkipsRest(force, rest) ==
  /\ samosborGoing' = FALSE
  /\ IF force THEN NoWait(rest) ELSE Arm("samosborIntervalTimer", rest)
stopSamosbor(force, rest) ==
  /\ samosborGoing' = FALSE
  /\ IF force THEN NoWait(rest) ELSE Arm("timer3", rest)

autosave(rest) ==
  IF autosaveGoing
  THEN /\ file' = IF isGenerated THEN world ELSE file
       /\ Arm("autosave_timer", rest)
       /\ UNCHANGED samosborGoing
  ELSE /\ NoWait(rest)
       /\ UNCHANGED <<samosborGoing, file>>

\* The two ticks are the only handlers that end when they are aborted
Tick(t, ec, rest) ==
  /\ IF ec THEN NoWait(rest) ELSE Arm(t, rest)
  /\ UNCHANGED <<samosborGoing, file>>

Run(t) ==
  LET rest == Tail(ready) IN
  /\ server = "poll" /\ ~stopped
  /\ ready # <<>> /\ Head(ready).timer = t
  /\ CASE t = "timer3" -> waitSamosbor(rest)
       [] t = "samosborIntervalTimer" -> startSamosbor(rest)
       [] t = "samosborDuringTimer" -> stopSamosbor(FALSE, rest) /\ UNCHANGED file
       [] t = "autosave_timer" -> autosave(rest)
       [] t \in Ticks -> Tick(t, Head(ready).ec, rest)
  /\ UNCHANGED <<gameVars, autosaveGoing, flagVars, terminal, server, stopped, countVars>>

-----------------------------------------------------------------------------
(* StartServer *)

serverIdle == <<gameVars, file, autosaveGoing, serverRunning, isExit, terminal, countVars>>

\* while (!isExit)
Outer ==
  /\ server = "outer"
  /\ server' = IF isExit THEN "final" ELSE "idle"
  /\ UNCHANGED <<serverIdle, samosborGoing, serverActive, stopped, timerVars>>

\* while (!serverRunning) { if (isExit) break; ... } and async_accept()
Idle ==
  /\ server = "idle"
  /\ serverRunning \/ isExit
  /\ server' = "loop"
  /\ UNCHANGED <<serverIdle, samosborGoing, serverActive, stopped, timerVars>>

Loop ==
  /\ server = "loop"
  /\ IF serverRunning THEN serverActive' = TRUE /\ server' = "poll"
     ELSE server' = "stopping" /\ UNCHANGED serverActive
  /\ UNCHANGED <<serverIdle, samosborGoing, stopped, timerVars>>

\* poll() returns when the io_context is stopped or nothing is left to run
PollReturns ==
  /\ server = "poll"
  /\ stopped \/ ready = <<>>
  /\ server' = "loop"
  /\ UNCHANGED <<serverIdle, samosborGoing, serverActive, stopped, timerVars>>

\* io_context.stop() if the server was active; stopSamosbor(true)
Stopping ==
  /\ server \in {"stopping", "final"}
  /\ stopped' = (stopped \/ serverActive)
  /\ stopSamosbor(TRUE, ready)
  /\ server' = IF server = "stopping" THEN "outer" ELSE "ended"
  /\ UNCHANGED <<serverIdle, serverActive>>

Server == Outer \/ Idle \/ Loop \/ PollReturns \/ Stopping

-----------------------------------------------------------------------------
(* Terminal *)

Types(command) == terminal = "prompt" /\ command \in Commands

\* The file of the configuration is found and read
LoadConfig ==
  /\ Types("loadconf")
  /\ configLoaded' = TRUE
  /\ UNCHANGED <<isGenerated, isReseted, world, samosborGoing, file, autosaveGoing, flagVars,
                 terminal, server, stopped, timerVars, countVars>>

\* Game::GenerateGame empties the world before it looks whether it may
Mut_TakesMissingFile == "missing"
EmptiedWorld == "nothing"

GenerateGame ==
  /\ Types("gen")
  /\ IF configLoaded /\ ~isGenerated
     THEN /\ games < MaxGames /\ games' = games + 1
          /\ world' = "map" /\ isGenerated' = TRUE /\ isReseted' = FALSE
          /\ terminal' = "arm"
     ELSE /\ world' = EmptiedWorld
          /\ UNCHANGED <<isGenerated, isReseted, terminal, games>>
  /\ UNCHANGED <<configLoaded, samosborGoing, file, autosaveGoing, flagVars, server, stopped,
                 timerVars, autosaves>>

\* Game::LoadGame needs a configuration and a reset; it does not clear isReseted,
\* and the name of no file leaves an empty world behind
Load ==
  /\ Types("load")
  /\ configLoaded /\ isReseted
  /\ \/ /\ world' = EmptiedWorld
        /\ UNCHANGED <<isGenerated, terminal, games>>
     \/ /\ file # "missing"
        /\ games < MaxGames /\ games' = games + 1
        /\ world' = file /\ isGenerated' = TRUE
        /\ terminal' = "arm"
  /\ UNCHANGED <<configLoaded, isReseted, samosborGoing, file, autosaveGoing, flagVars, server,
                 stopped, timerVars, autosaves>>

\* The end of GenerateGame and LoadGame: srv->stopSamosbor(false), on this thread
Mut_NoNewChain ==
  /\ terminal = "arm" /\ terminal' = "prompt"
  /\ UNCHANGED <<gameVars, samosborGoing, timerVars, file, autosaveGoing, flagVars, server, stopped, countVars>>
ArmSamosbor ==
  /\ terminal = "arm" /\ terminal' = "prompt"
  /\ stopSamosbor(FALSE, ready)
  /\ UNCHANGED <<gameVars, file, autosaveGoing, flagVars, server, stopped, countVars>>

StartCommand ==
  /\ Types("start")
  /\ isGenerated
  /\ serverRunning' = TRUE /\ isReseted' = FALSE
  /\ UNCHANGED <<configLoaded, isGenerated, world, samosborGoing, file, autosaveGoing,
                 serverActive, isExit, terminal, server, stopped, timerVars, countVars>>

StopCommand ==
  /\ Types("stop")
  /\ serverRunning' = FALSE
  /\ UNCHANGED <<gameVars, samosborGoing, file, autosaveGoing, serverActive, isExit, terminal,
                 server, stopped, timerVars, countVars>>

\* reset: first the flags, then the world
ResetCommand ==
  /\ Types("reset")
  /\ serverRunning' = FALSE /\ isReseted' = TRUE
  /\ terminal' = "reset"
  /\ UNCHANGED <<configLoaded, isGenerated, world, samosborGoing, file, autosaveGoing,
                 serverActive, isExit, server, stopped, timerVars, countVars>>

ResetGame ==
  /\ terminal = "reset" /\ terminal' = "prompt"
  /\ world' = "nothing" /\ isGenerated' = FALSE
  /\ UNCHANGED <<configLoaded, isReseted, samosborGoing, file, autosaveGoing, flagVars, server,
                 stopped, timerVars, countVars>>

SaveGame ==
  /\ Types("save")
  /\ file' = world
  /\ UNCHANGED <<gameVars, samosborGoing, autosaveGoing, flagVars, terminal, server, stopped,
                 timerVars, countVars>>

AutosaveStart ==
  /\ Types("autosave start")
  /\ autosaves < MaxAutosaves /\ autosaves' = autosaves + 1
  /\ autosaveGoing' = TRUE
  /\ Arm("autosave_timer", ready)
  /\ UNCHANGED <<gameVars, samosborGoing, file, flagVars, terminal, server, stopped, games>>

AutosaveStop ==
  /\ Types("autosave stop")
  /\ autosaveGoing' = FALSE
  /\ UNCHANGED <<gameVars, samosborGoing, file, flagVars, terminal, server, stopped, timerVars,
                 countVars>>

\* exit: the flags, then join()
Mut_ExitKeepsRunning ==
  /\ Types("exit") /\ terminal' = "join" /\ isExit' = TRUE
  /\ UNCHANGED <<serverRunning, gameVars, samosborGoing, file, autosaveGoing, serverActive, server, stopped, timerVars, countVars>>
ExitCommand ==
  /\ Types("exit")
  /\ serverRunning' = FALSE /\ isExit' = TRUE
  /\ terminal' = "join"
  /\ UNCHANGED <<gameVars, samosborGoing, file, autosaveGoing, serverActive, server, stopped,
                 timerVars, countVars>>

Join ==
  /\ terminal = "join" /\ server = "ended"
  /\ terminal' = "done"
  /\ UNCHANGED <<gameVars, samosborGoing, file, autosaveGoing, flagVars, server, stopped,
                 timerVars, countVars>>

Terminal ==
  \/ LoadConfig \/ GenerateGame \/ Load \/ ArmSamosbor \/ StartCommand \/ StopCommand
  \/ ResetCommand \/ ResetGame \/ SaveGame \/ AutosaveStart \/ AutosaveStop
  \/ ExitCommand \/ Join

-----------------------------------------------------------------------------

Init ==
  /\ configLoaded = FALSE /\ isGenerated = FALSE /\ isReseted = TRUE /\ samosborGoing = FALSE
  /\ world = "nothing" /\ file \in Files
  /\ autosaveGoing = FALSE
  /\ serverRunning = FALSE /\ serverActive = FALSE /\ isExit = FALSE
  /\ terminal = "prompt" /\ server = "outer"
  /\ stopped = FALSE
  /\ pending = Ticks /\ fresh = {} /\ ready = <<>>
  /\ games = 0 /\ autosaves = 0

Next == Terminal \/ Server \/ \E t \in Timers : Expire(t) \/ Run(t)

Spec == Init /\ [][Next]_vars

\* The server thread is scheduled, and a command that was begun is carried out.
\* Every wait is over one day, and the reactor of the next poll() collects it;
\* and a poll() whose queue drains again and again returns, because nothing new
\* is over so soon: whence strong fairness. Nothing makes the operator type.
FairSpec ==
  /\ Spec
  /\ WF_vars(Server) /\ SF_vars(PollReturns)
  /\ WF_vars(\E t \in Timers : Run(t))
  /\ \A t \in Timers : SF_vars(Expire(t))
  /\ WF_vars(ArmSamosbor \/ ResetGame \/ Join)

-----------------------------------------------------------------------------
(* What is always true *)

Completions == [timer : Timers, ec : BOOLEAN]

TypeOK ==
  /\ {configLoaded, isGenerated, isReseted, samosborGoing, autosaveGoing} \subseteq BOOLEAN
  /\ {serverRunning, serverActive, isExit, stopped} \subseteq BOOLEAN
  /\ world \in Worlds /\ file \in Files
  /\ terminal \in {"prompt", "arm", "reset", "join", "done"}
  /\ server \in {"outer", "idle", "loop", "poll", "stopping", "final", "ended"}
  /\ pending \subseteq Timers /\ fresh \subseteq pending
  /\ ready \in Seq(Completions)
  /\ games \in 0..MaxGames /\ autosaves \in 0..MaxAutosaves

\* Timer t has a wait, pending or completed
Outstanding(t) == t \in pending \/ \E i \in DOMAIN ready : ready[i].timer = t

\* While a samosbor goes on, the wait that ends it is outstanding: no order of
\* commands, aborted waits and several chains of timers loses it, short of
\* stopping the io_context, which ends the samosbor in the same breath.
SamosborWillEnd == samosborGoing => Outstanding("samosborDuringTimer") /\ ~stopped

\* Where the completed waits of the samosbor stand in a queue
OfChain(queue) == {i \in DOMAIN queue : queue[i].timer \in Chain}

\* Every wait of the samosbor descends from one game made: the chains do not
\* multiply by aborting each other.
ChainsFromGames == Cardinality(Chain \cap pending) + Cardinality(OfChain(ready)) <= games

-----------------------------------------------------------------------------
(* What a step may never do *)

\* A samosbor starts when the announced time is over and not before.
\* (src/Client/Parser.h:980: it starts in so many seconds.)
StartsAsAnnounced ==
  [][~samosborGoing /\ samosborGoing' =>
       Head(ready) = [timer |-> "samosborIntervalTimer", ec |-> FALSE]]_vars

\* What players see of one chain: calm, announced, going, and round again.
phase ==
  IF stopped THEN "over"
  ELSE IF samosborGoing THEN "going"
  ELSE IF Outstanding("samosborIntervalTimer") THEN "announced"
  ELSE "calm"

Cycle == INSTANCE SamosborCycle WITH phase <- phase
CycleSpec == Cycle!Spec

-----------------------------------------------------------------------------
(* What must happen *)

\* As long as the server runs a game, samosbors keep coming.
SamosborsKeepComing == <>[](serverRunning /\ ~stopped) => []<>samosborGoing

\* The operator's exit ends both threads (main.cpp:133-143), provided that 'autosave
\* start' is typed once at most (MaxAutosaves <= 1). Two waits of the autosave's
\* timer abort each other for ever (Server.cpp:29-39), inside of a poll() that does
\* not return.
ExitEnds == isExit ~> terminal = "done"

\* A server that runs serves: its map updates keep coming.
ServesWhileRunning == <>[]serverRunning => []<><<Run("timer1")>>_vars

-----------------------------------------------------------------------------
(* What the program says, and what the code does *)

\* src/Server/main.cpp:100: the server starts only with a game that is
\* generated or loaded.
RunsWithWorld == server = "poll" /\ serverRunning => world = "map"
=============================================================================
