-------------------------- MODULE ServerLifeProofs --------------------------
(***************************************************************************)
(* Proofs about ServerLife, for any number of games and autosaves: the     *)
(* state is well-formed, and no samosbor goes on without the wait that     *)
(* ends it, however many chains of timers abort each other's waits.        *)
(***************************************************************************)
EXTENDS ServerLife, TLAPS, SequenceTheorems, FiniteSetTheorems, FunctionTheorems

\* A completed wait of timer t is in queue q
InQueue(t, q) == \E i \in DOMAIN q : q[i].timer = t

-----------------------------------------------------------------------------
(* Queues *)

LEMMA AppendInQueue ==
  ASSUME NEW q \in Seq(Completions), NEW c \in Completions
  PROVE  /\ Append(q, c) \in Seq(Completions)
         /\ InQueue(c.timer, Append(q, c))
         /\ \A t \in Timers : InQueue(t, q) => InQueue(t, Append(q, c))
<1>1. /\ Append(q, c) \in Seq(Completions)
      /\ Len(Append(q, c)) = Len(q) + 1
      /\ \A i \in 1..Len(q) : Append(q, c)[i] = q[i]
      /\ Append(q, c)[Len(q) + 1] = c
  BY AppendProperties
<1>2. Len(q) \in Nat /\ DOMAIN q = 1..Len(q) /\ DOMAIN Append(q, c) = 1..(Len(q) + 1)
  BY <1>1, LenProperties
<1>3. InQueue(c.timer, Append(q, c))
  <2>1. Len(q) + 1 \in DOMAIN Append(q, c)
    BY <1>2
  <2> QED BY <2>1, <1>1 DEF InQueue
<1>4. ASSUME NEW t \in Timers, InQueue(t, q) PROVE InQueue(t, Append(q, c))
  <2>1. PICK i \in DOMAIN q : q[i].timer = t
    BY <1>4 DEF InQueue
  <2>2. i \in DOMAIN Append(q, c) /\ Append(q, c)[i] = q[i]
    BY <1>1, <1>2
  <2> QED BY <2>1, <2>2 DEF InQueue
<1> QED BY <1>1, <1>3, <1>4

LEMMA TailInQueue ==
  ASSUME NEW q \in Seq(Completions), q # <<>>
  PROVE  /\ Head(q) \in Completions
         /\ Tail(q) \in Seq(Completions)
         /\ \A t \in Timers : InQueue(t, q) /\ Head(q).timer # t => InQueue(t, Tail(q))
<1>1. /\ Head(q) \in Completions /\ Head(q) = q[1]
      /\ Tail(q) \in Seq(Completions)
      /\ Len(Tail(q)) = Len(q) - 1
      /\ \A i \in 1..Len(Tail(q)) : Tail(q)[i] = q[i + 1]
  BY HeadTailProperties
<1>2. Len(q) \in Nat /\ DOMAIN q = 1..Len(q) /\ DOMAIN Tail(q) = 1..Len(Tail(q))
  BY <1>1, LenProperties
<1>3. ASSUME NEW t \in Timers, InQueue(t, q), Head(q).timer # t PROVE InQueue(t, Tail(q))
  <2>1. PICK i \in DOMAIN q : q[i].timer = t
    BY <1>3 DEF InQueue
  <2>2. i # 1
    BY <2>1, <1>1, <1>3
  <2>3. i - 1 \in DOMAIN Tail(q) /\ Tail(q)[i - 1] = q[i]
    BY <2>2, <1>1, <1>2
  <2> QED BY <2>1, <2>3 DEF InQueue
<1> QED BY <1>1, <1>3

\* What TypeOK says of the timers
TimersOK ==
  /\ pending \subseteq Timers /\ fresh \subseteq pending
  /\ ready \in Seq(Completions)

\* Timer t has a wait, with rest as the queue of completed waits
Waits(t, rest) == t \in pending \/ InQueue(t, rest)

\* Arming a timer keeps every wait, and the armed timer has one.
LEMMA ArmKeeps ==
  ASSUME NEW a \in Timers, NEW rest \in Seq(Completions), TimersOK, Arm(a, rest)
  PROVE  /\ TimersOK'
         /\ Outstanding(a)'
         /\ \A t \in Timers : Waits(t, rest) => Outstanding(t)'
<1> DEFINE aborted == [timer |-> a, ec |-> TRUE]
<1>1. aborted \in Completions
  BY DEF Completions
<1>2. /\ Append(rest, aborted) \in Seq(Completions)
      /\ \A t \in Timers : InQueue(t, rest) => InQueue(t, Append(rest, aborted))
  BY <1>1, AppendInQueue
<1>3. /\ ready' \in Seq(Completions)
      /\ \A t \in Timers : InQueue(t, rest) => InQueue(t, ready')
  BY <1>2 DEF Arm
<1>4. TimersOK'
  BY <1>3 DEF TimersOK, Arm, Younger
<1>5. Outstanding(a)'
  BY DEF Arm, Outstanding
<1>6. ASSUME NEW t \in Timers, Waits(t, rest) PROVE Outstanding(t)'
  <2>1. CASE t \in pending
    BY <2>1 DEF Arm, Outstanding
  <2>2. CASE InQueue(t, rest)
    BY <2>2, <1>3 DEF Outstanding, InQueue
  <2> QED BY <1>6, <2>1, <2>2 DEF Waits
<1> QED BY <1>4, <1>5, <1>6

\* So does a handler that arms nothing.
LEMMA NoWaitKeeps ==
  ASSUME NEW rest \in Seq(Completions), TimersOK, NoWait(rest)
  PROVE  /\ TimersOK'
         /\ \A t \in Timers : Waits(t, rest) => Outstanding(t)'
<1>1. TimersOK'
  BY DEF TimersOK, NoWait, Younger
<1>2. ASSUME NEW t \in Timers, Waits(t, rest) PROVE Outstanding(t)'
  BY <1>2 DEF NoWait, Waits, Outstanding, InQueue
<1> QED BY <1>1, <1>2

-----------------------------------------------------------------------------
(* The invariant *)

IInv == TypeOK /\ SamosborWillEnd

\* A step that leaves the timers alone keeps what they owe.
LEMMA OtherSteps ==
  ASSUME SamosborWillEnd, samosborGoing' => samosborGoing, UNCHANGED <<timerVars, stopped>>
  PROVE  SamosborWillEnd'
BY DEF SamosborWillEnd, Outstanding, timerVars

\* The variables no timer changes are in their types.
RestOK ==
  /\ {configLoaded, isGenerated, isReseted, samosborGoing, autosaveGoing} \subseteq BOOLEAN
  /\ {serverRunning, serverActive, isExit, stopped} \subseteq BOOLEAN
  /\ world \in Worlds /\ file \in Files
  /\ terminal \in {"prompt", "arm", "reset", "join", "done"}
  /\ server \in {"outer", "idle", "loop", "poll", "stopping", "final", "ended"}
  /\ games \in 0..MaxGames /\ autosaves \in 0..MaxAutosaves

LEMMA TypeOKParts ==
  /\ TypeOK <=> RestOK /\ TimersOK
  /\ TypeOK' <=> RestOK' /\ TimersOK'
BY DEF TypeOK, RestOK, TimersOK

LEMMA InitIInv == Init => IInv
<1> SUFFICES ASSUME Init PROVE IInv
  OBVIOUS
<1>1. RestOK
  <2>1. 0 \in 0..MaxGames /\ 0 \in 0..MaxAutosaves
    BY BoundAssumption
  <2>2. {FALSE, TRUE} \subseteq BOOLEAN
    OBVIOUS
  <2> QED BY <2>1, <2>2, Zenon DEF Init, RestOK, Worlds, Files
<1>2. TimersOK
  BY DEF Init, TimersOK, Timers
<1>3. SamosborWillEnd
  BY DEF Init, SamosborWillEnd
<1> QED BY <1>1, <1>2, <1>3, TypeOKParts DEF IInv

LEMMA ExpireIInv ==
  ASSUME IInv, NEW t \in Timers, Expire(t)
  PROVE  IInv'
<1> DEFINE over == [timer |-> t, ec |-> FALSE]
<1>1. over \in Completions /\ over.timer = t
  BY DEF Completions
<1>2. ready \in Seq(Completions) /\ RestOK /\ TimersOK
  BY TypeOKParts DEF IInv, TimersOK
<1>3. /\ ready' \in Seq(Completions)
      /\ InQueue(t, ready')
      /\ \A u \in Timers : InQueue(u, ready) => InQueue(u, ready')
  <2>1. ready' = Append(ready, over)
    BY DEF Expire
  <2> HIDE DEF over
  <2> QED BY <1>1, <1>2, <2>1, AppendInQueue
<1>4. RestOK'
  BY <1>2 DEF RestOK, Expire, gameVars, flagVars, countVars
<1>5. TimersOK'
  BY <1>2, <1>3 DEF TimersOK, Expire
<1>6. SamosborWillEnd'
  <2> SUFFICES ASSUME samosborGoing'
               PROVE  Outstanding("samosborDuringTimer")' /\ ~stopped'
    BY DEF SamosborWillEnd
  <2>1. Outstanding("samosborDuringTimer") /\ ~stopped'
    BY DEF IInv, SamosborWillEnd, Expire
  <2>2. "samosborDuringTimer" \in Timers
    BY DEF Timers, Chain
  <2>3. CASE "samosborDuringTimer" \in pending
    BY <2>3, <1>3 DEF Expire, Outstanding, InQueue
  <2>4. CASE InQueue("samosborDuringTimer", ready)
    <3>1. InQueue("samosborDuringTimer", ready')
      BY <2>4, <2>2, <1>3
    <3> QED BY <2>1, <3>1 DEF Outstanding, InQueue
  <2> QED BY <2>1, <2>3, <2>4 DEF Outstanding, InQueue
<1> QED BY <1>4, <1>5, <1>6, TypeOKParts DEF IInv

\* The handler that runs is not the wait that ends the samosbor, or it ends it.
LEMMA RunIInv ==
  ASSUME IInv, NEW t \in Timers, Run(t)
  PROVE  IInv'
<1> DEFINE rest == Tail(ready)
<1>1. RestOK /\ TimersOK /\ ready \in Seq(Completions) /\ ready # <<>> /\ Head(ready).timer = t
  BY TypeOKParts DEF IInv, TimersOK, Run
<1>2. /\ rest \in Seq(Completions)
      /\ \A u \in Timers : Outstanding(u) /\ u # t => Waits(u, rest)
  <2>1. /\ rest \in Seq(Completions)
        /\ \A u \in Timers : InQueue(u, ready) /\ Head(ready).timer # u => InQueue(u, rest)
    BY <1>1, TailInQueue
  <2> QED BY <2>1, <1>1 DEF Outstanding, Waits, InQueue
<1>3. ~stopped /\ stopped' = stopped
  BY DEF Run
<1>4. {"timer1", "timer2", "timer3", "samosborIntervalTimer", "samosborDuringTimer",
       "autosave_timer"} = Timers
  BY DEF Timers, Ticks, Chain
<1> DEFINE Kept == /\ TimersOK'
                   /\ \A u \in Timers : Outstanding(u) /\ u # t => Outstanding(u)'
<1> HIDE DEF rest
<1>5. ASSUME NEW a \in Timers, Arm(a, rest) PROVE Kept /\ Outstanding(a)'
  BY <1>1, <1>2, <1>5, ArmKeeps
<1>6. ASSUME NoWait(rest) PROVE Kept
  BY <1>1, <1>2, <1>6, NoWaitKeeps
<1> HIDE DEF Kept
<1>7. ASSUME Kept, samosborGoing' = samosborGoing, t # "samosborDuringTimer"
      PROVE  SamosborWillEnd'
  BY <1>7, <1>3, <1>4 DEF Kept, IInv, SamosborWillEnd
<1> DEFINE Done == /\ Kept /\ SamosborWillEnd'
                   /\ samosborGoing' \in BOOLEAN /\ file' \in Files
<1>8. samosborGoing \in BOOLEAN /\ file \in Files /\ world \in Files
  BY <1>1 DEF RestOK, Files
<1>9. ASSUME t = "timer3" PROVE Done
  <2>1. waitSamosbor(rest)
    BY <1>9 DEF Run, rest, Ticks
  <2>2. Kept
    BY <2>1, <1>4, <1>5, <1>6 DEF waitSamosbor
  <2> QED BY <2>1, <2>2, <1>7, <1>8, <1>9 DEF waitSamosbor
<1>10. ASSUME t = "samosborIntervalTimer" PROVE Done
  <2>1. startSamosbor(rest)
    BY <1>10 DEF Run, rest, Ticks
  <2>2. Kept /\ Outstanding("samosborDuringTimer")'
    BY <2>1, <1>4, <1>5 DEF startSamosbor
  <2>3. SamosborWillEnd'
    BY <2>2, <1>3 DEF SamosborWillEnd
  <2> QED BY <2>1, <2>2, <2>3, <1>8 DEF startSamosbor
<1>11. ASSUME t = "samosborDuringTimer" PROVE Done
  <2>1. stopSamosbor(FALSE, rest) /\ UNCHANGED file
    BY <1>11 DEF Run, rest, Ticks
  <2>2. Kept
    BY <2>1, <1>4, <1>5 DEF stopSamosbor
  <2> QED BY <2>1, <2>2, <1>8 DEF stopSamosbor, SamosborWillEnd
<1>12. ASSUME t = "autosave_timer" PROVE Done
  <2>1. autosave(rest)
    BY <1>12 DEF Run, rest, Ticks
  <2>2. Kept
    BY <2>1, <1>4, <1>5, <1>6 DEF autosave
  <2>3. samosborGoing' = samosborGoing /\ file' \in Files
    BY <2>1, <1>8 DEF autosave
  <2> QED BY <2>2, <2>3, <1>7, <1>8, <1>12
<1>13. ASSUME t \in Ticks PROVE Done
  <2>1. Tick(t, Head(ready).ec, rest)
    BY <1>13 DEF Run, rest, Ticks
  <2>2. Kept
    BY <2>1, <1>5, <1>6 DEF Tick
  <2>3. samosborGoing' = samosborGoing /\ file' \in Files
    BY <2>1, <1>8 DEF Tick
  <2>4. t # "samosborDuringTimer"
    BY <1>13 DEF Ticks
  <2> QED BY <2>2, <2>3, <2>4, <1>7, <1>8
<1>14. Done
  BY <1>4, <1>9, <1>10, <1>11, <1>12, <1>13 DEF Ticks
<1>15. RestOK'
  BY <1>1, <1>14 DEF RestOK, Run, gameVars, flagVars, countVars
<1> QED BY <1>14, <1>15, TypeOKParts DEF IInv, Kept

LEMMA ServerIInv ==
  ASSUME IInv, Server
  PROVE  IInv'
<1>1. RestOK /\ TimersOK /\ SamosborWillEnd
  BY TypeOKParts DEF IInv
<1>2. CASE Outer \/ Idle \/ Loop \/ PollReturns
  <2>1. UNCHANGED <<serverIdle, samosborGoing, stopped, timerVars>>
    BY <1>2 DEF Outer, Idle, Loop, PollReturns
  <2>2. SamosborWillEnd'
    BY <1>1, <2>1, OtherSteps
  <2>3. TimersOK'
    BY <1>1, <2>1 DEF TimersOK, timerVars
  <2>4. /\ server' \in {"outer", "idle", "loop", "poll", "stopping", "final", "ended"}
        /\ serverActive' \in BOOLEAN
    BY <1>1, <1>2 DEF RestOK, Outer, Idle, Loop, PollReturns
  <2>5. RestOK'
    BY <1>1, <2>1, <2>4 DEF RestOK, serverIdle, gameVars, countVars
  <2> QED BY <2>2, <2>3, <2>5, TypeOKParts DEF IInv
<1>3. CASE Stopping
  <2>1. samosborGoing' = FALSE /\ NoWait(ready)
    BY <1>3 DEF Stopping, stopSamosbor
  <2>2. SamosborWillEnd'
    BY <2>1 DEF SamosborWillEnd
  <2>3. TimersOK'
    BY <1>1, <2>1, NoWaitKeeps DEF TimersOK
  <2>4. /\ server' \in {"outer", "idle", "loop", "poll", "stopping", "final", "ended"}
        /\ stopped' \in BOOLEAN
    BY <1>1, <1>3 DEF RestOK, Stopping
  <2>5. RestOK'
    BY <1>1, <1>3, <2>1, <2>4 DEF RestOK, Stopping, serverIdle, gameVars, countVars
  <2> QED BY <2>2, <2>3, <2>5, TypeOKParts DEF IInv
<1> QED BY <1>2, <1>3 DEF Server

\* The commands that touch no timer
Elsewhere ==
  \/ LoadConfig \/ GenerateGame \/ Load \/ StartCommand \/ StopCommand \/ ResetCommand
  \/ ResetGame \/ SaveGame \/ AutosaveStop \/ ExitCommand \/ Join

LEMMA TerminalIInv ==
  ASSUME IInv, Terminal
  PROVE  IInv'
<1>1. RestOK /\ TimersOK /\ SamosborWillEnd /\ ready \in Seq(Completions)
  BY TypeOKParts DEF IInv, TimersOK
<1>2. CASE Elsewhere
  <2>1. UNCHANGED <<samosborGoing, stopped, timerVars>>
    BY <1>2 DEF Elsewhere, LoadConfig, GenerateGame, Load, StartCommand, StopCommand,
                ResetCommand, ResetGame, SaveGame, AutosaveStop, ExitCommand, Join
  <2>2. SamosborWillEnd'
    BY <1>1, <2>1, OtherSteps
  <2>3. TimersOK'
    BY <1>1, <2>1 DEF TimersOK, timerVars
  <2>4. RestOK'
    <3>1. CASE GenerateGame
      <4>1. games' \in 0..MaxGames
        BY <1>1, <3>1, BoundAssumption DEF RestOK, GenerateGame
      <4> QED BY <1>1, <3>1, <4>1 DEF RestOK, GenerateGame, EmptiedWorld, Worlds, flagVars
    <3>2. CASE Load
      <4>1. games' \in 0..MaxGames
        BY <1>1, <3>2, BoundAssumption DEF RestOK, Load
      <4> QED BY <1>1, <3>2, <4>1 DEF RestOK, Load, EmptiedWorld, Worlds, Files, flagVars
    <3>3. CASE LoadConfig \/ StartCommand \/ StopCommand \/ ResetCommand
      BY <1>1, <3>3
      DEF RestOK, LoadConfig, StartCommand, StopCommand, ResetCommand, gameVars, flagVars,
          countVars
    <3>4. CASE ResetGame \/ SaveGame \/ AutosaveStop \/ ExitCommand \/ Join
      BY <1>1, <3>4
      DEF RestOK, ResetGame, SaveGame, AutosaveStop, ExitCommand, Join, gameVars, flagVars,
          countVars, Worlds, Files
    <3> QED BY <1>2, <3>1, <3>2, <3>3, <3>4 DEF Elsewhere
  <2> QED BY <2>2, <2>3, <2>4, TypeOKParts DEF IInv
<1>3. CASE ArmSamosbor
  <2>1. samosborGoing' = FALSE /\ Arm("timer3", ready)
    BY <1>3 DEF ArmSamosbor, stopSamosbor
  <2>2. TimersOK'
    BY <1>1, <2>1, ArmKeeps DEF Timers, Chain
  <2>3. RestOK'
    BY <1>1, <1>3, <2>1 DEF RestOK, ArmSamosbor, gameVars, flagVars, countVars
  <2> QED BY <2>1, <2>2, <2>3, TypeOKParts DEF IInv, SamosborWillEnd
<1>4. CASE AutosaveStart
  <2>1. Arm("autosave_timer", ready) /\ "autosave_timer" \in Timers
    BY <1>4 DEF AutosaveStart, Timers
  <2>2. /\ TimersOK'
        /\ \A u \in Timers : Waits(u, ready) => Outstanding(u)'
    BY <1>1, <2>1, ArmKeeps
  <2>3. Outstanding("samosborDuringTimer") => Outstanding("samosborDuringTimer")'
    BY <2>2 DEF Outstanding, Waits, InQueue, Timers, Chain
  <2>4. SamosborWillEnd'
    BY <1>1, <1>4, <2>3 DEF SamosborWillEnd, AutosaveStart
  <2>5. RestOK'
    <3>1. autosaves' \in 0..MaxAutosaves
      <4>1. autosaves \in 0..MaxAutosaves
        BY <1>1 DEF RestOK
      <4>2. autosaves < MaxAutosaves /\ autosaves' = autosaves + 1
        BY <1>4, Zenon DEF AutosaveStart
      <4> QED BY <4>1, <4>2, BoundAssumption
    <3> QED BY <1>1, <1>4, <3>1 DEF RestOK, AutosaveStart, gameVars, flagVars
  <2> QED BY <2>2, <2>4, <2>5, TypeOKParts DEF IInv
<1> QED BY <1>2, <1>3, <1>4 DEF Terminal, Elsewhere

LEMMA NextIInv == IInv /\ [Next]_vars => IInv'
<1> SUFFICES ASSUME IInv, [Next]_vars PROVE IInv'
  OBVIOUS
<1>1. CASE Terminal
  BY <1>1, TerminalIInv
<1>2. CASE Server
  BY <1>2, ServerIInv
<1>3. CASE \E t \in Timers : Expire(t) \/ Run(t)
  BY <1>3, ExpireIInv, RunIInv
<1>4. CASE UNCHANGED vars
  BY <1>4 DEF IInv, TypeOK, SamosborWillEnd, Outstanding, vars, gameVars, flagVars, timerVars,
             countVars
<1> QED BY <1>1, <1>2, <1>3, <1>4 DEF Next

-----------------------------------------------------------------------------

\* The state of the two threads and of the timers is well-formed, for any
\* bounds on games and autosaves.
THEOREM LifeTypeCorrect == Spec => []TypeOK
<1>1. IInv => TypeOK
  BY DEF IInv
<1> QED BY InitIInv, NextIInv, <1>1, PTL DEF Spec

\* However many games were made, and so however many chains of timers abort
\* each other's waits (src/Server/Server.cpp:170-225), a samosbor that goes on
\* has a wait that will end it.
THEOREM EverySamosborWillEnd == Spec => []SamosborWillEnd
<1>1. IInv => SamosborWillEnd
  BY DEF IInv
<1> QED BY InitIInv, NextIInv, <1>1, PTL DEF Spec

-----------------------------------------------------------------------------
(* Counting the waits of the samosbor *)

LEMMA ChainFinite ==
  ASSUME NEW q \in Seq(Completions), NEW S
  PROVE  /\ IsFiniteSet(OfChain(q)) /\ Cardinality(OfChain(q)) \in Nat
         /\ IsFiniteSet(Chain \cap S) /\ Cardinality(Chain \cap S) \in Nat
<1>1. DOMAIN q = 1..Len(q) /\ Len(q) \in Nat
  BY LenProperties
<1>2. IsFiniteSet(1..Len(q))
  BY <1>1, FS_Interval
<1>3. IsFiniteSet(OfChain(q))
  BY <1>1, <1>2, FS_Subset DEF OfChain
<1>4. IsFiniteSet(Chain)
  <2>1. IsFiniteSet({})
    BY FS_EmptySet
  <2>2. IsFiniteSet({} \cup {"timer3"})
    BY <2>1, FS_AddElement
  <2>3. IsFiniteSet(({} \cup {"timer3"}) \cup {"samosborIntervalTimer"})
    BY <2>2, FS_AddElement
  <2>4. IsFiniteSet((({} \cup {"timer3"}) \cup {"samosborIntervalTimer"}) \cup {"samosborDuringTimer"})
    BY <2>3, FS_AddElement
  <2>5. Chain = (({} \cup {"timer3"}) \cup {"samosborIntervalTimer"}) \cup {"samosborDuringTimer"}
    BY DEF Chain
  <2> QED BY <2>4, <2>5
<1>5. IsFiniteSet(Chain \cap S)
  BY <1>4, FS_Subset
<1> QED BY <1>3, <1>5, FS_CardinalityType

\* One more completed wait is one more of the samosbor, or none.
LEMMA AppendCounts ==
  ASSUME NEW q \in Seq(Completions), NEW c \in Completions
  PROVE  Cardinality(OfChain(Append(q, c))) =
           IF c.timer \in Chain THEN Cardinality(OfChain(q)) + 1 ELSE Cardinality(OfChain(q))
<1> DEFINE n == Len(q) + 1
<1>1. /\ \A i \in 1..Len(q) : Append(q, c)[i] = q[i]
      /\ Append(q, c)[n] = c
      /\ DOMAIN Append(q, c) = DOMAIN q \cup {n} /\ DOMAIN q = 1..Len(q) /\ n \notin DOMAIN q
  <2>1. /\ Append(q, c) \in Seq(Completions)
        /\ Len(Append(q, c)) = n
        /\ \A i \in 1..Len(q) : Append(q, c)[i] = q[i]
        /\ Append(q, c)[n] = c
    BY AppendProperties
  <2>2. Len(q) \in Nat /\ DOMAIN q = 1..Len(q) /\ DOMAIN Append(q, c) = 1..n
    BY <2>1, LenProperties
  <2> QED BY <2>1, <2>2
<1> HIDE DEF n
<1>2. IsFiniteSet(OfChain(q)) /\ n \notin OfChain(q)
  BY <1>1, ChainFinite DEF OfChain
<1>3. CASE c.timer \in Chain
  <2>1. OfChain(Append(q, c)) = OfChain(q) \cup {n}
    BY <1>1, <1>3 DEF OfChain
  <2>2. Cardinality(OfChain(q) \cup {n}) = Cardinality(OfChain(q)) + 1
    BY <1>2, FS_AddElement
  <2> QED BY <1>3, <2>1, <2>2
<1>4. CASE c.timer \notin Chain
  <2>1. OfChain(Append(q, c)) = OfChain(q)
    BY <1>1, <1>4 DEF OfChain
  <2> QED BY <1>4, <2>1
<1> QED BY <1>3, <1>4

\* The others keep their places, one further to the front.
LEMMA TailCounts ==
  ASSUME NEW q \in Seq(Completions), q # <<>>
  PROVE  Cardinality(OfChain(Tail(q))) =
           IF Head(q).timer \in Chain THEN Cardinality(OfChain(q)) - 1 ELSE Cardinality(OfChain(q))
<1>1. /\ Head(q) = q[1] /\ Tail(q) \in Seq(Completions)
      /\ Len(Tail(q)) = Len(q) - 1 /\ Len(q) \in Nat \ {0}
      /\ \A i \in 1..(Len(q) - 1) : Tail(q)[i] = q[i + 1]
      /\ DOMAIN q = 1..Len(q) /\ DOMAIN Tail(q) = 1..(Len(q) - 1)
  <2>1. /\ Head(q) = q[1] /\ Tail(q) \in Seq(Completions)
        /\ Len(Tail(q)) = Len(q) - 1
        /\ \A i \in 1..Len(Tail(q)) : Tail(q)[i] = q[i + 1]
    BY HeadTailProperties
  <2>2. Len(q) \in Nat /\ DOMAIN q = 1..Len(q) /\ DOMAIN Tail(q) = 1..Len(Tail(q)) /\ Len(q) # 0
    BY <2>1, LenProperties, EmptySeq
  <2> QED BY <2>1, <2>2
<1> DEFINE S == OfChain(Tail(q))
           T == OfChain(q) \ {1}
           f == [i \in S |-> i + 1]
<1>2. f \in [S -> T] /\ \A j \in T : j - 1 \in S /\ f[j - 1] = j
  BY <1>1 DEF OfChain
<1>3. \A i, j \in S : f[i] = f[j] => i = j
  BY <1>1 DEF OfChain
<1>4. f \in Bijection(S, T)
  <2> HIDE DEF f, S, T
  <2>1. f \in Injection(S, T)
    BY <1>2, <1>3 DEF Injection, IsInjective
  <2>2. f \in Surjection(S, T)
    BY <1>2 DEF Surjection
  <2> QED BY <2>1, <2>2 DEF Bijection
<1>5. Cardinality(T) = Cardinality(S)
  <2>1. ExistsBijection(S, T) /\ IsFiniteSet(S)
    BY <1>1, <1>4, ChainFinite DEF ExistsBijection
  <2> HIDE DEF f, S, T
  <2> QED BY <2>1, FS_Bijection
<1>6. Cardinality(T) = IF 1 \in OfChain(q) THEN Cardinality(OfChain(q)) - 1 ELSE Cardinality(OfChain(q))
  BY ChainFinite, FS_RemoveElement
<1>7. 1 \in OfChain(q) <=> Head(q).timer \in Chain
  BY <1>1 DEF OfChain
<1> QED BY <1>5, <1>6, <1>7

\* The waits of the samosbor, with P as the pending ones and q as the completed
Waiting(P, q) == Cardinality(Chain \cap P) + Cardinality(OfChain(q))

LEMMA WaitingType ==
  ASSUME NEW P, NEW q \in Seq(Completions)
  PROVE  Waiting(P, q) \in Nat
<1>1. Cardinality(OfChain(q)) \in Nat /\ Cardinality(Chain \cap P) \in Nat
  BY ChainFinite
<1> QED BY <1>1 DEF Waiting

\* Arming a timer of the samosbor makes one wait more, also when it aborts one:
\* the aborted wait is still to be run. Arming another timer makes none.
LEMMA ArmCounts ==
  ASSUME NEW a \in Timers, NEW rest \in Seq(Completions), TimersOK, Arm(a, rest)
  PROVE  Waiting(pending', ready') =
           IF a \in Chain THEN Waiting(pending, rest) + 1 ELSE Waiting(pending, rest)
<1> DEFINE aborted == [timer |-> a, ec |-> TRUE]
<1>1. /\ aborted \in Completions /\ aborted.timer = a
      /\ pending' = pending \cup {a}
      /\ ready' = IF a \in pending THEN Append(rest, aborted) ELSE rest
  BY DEF Completions, Arm
<1>2. /\ Cardinality(Chain \cap pending) \in Nat /\ Cardinality(OfChain(rest)) \in Nat
      /\ IsFiniteSet(Chain \cap pending)
  BY ChainFinite
<1> HIDE DEF aborted
<1>3. CASE a \in pending
  <2>1. Chain \cap pending' = Chain \cap pending /\ ready' = Append(rest, aborted)
    BY <1>1, <1>3
  <2>2. Cardinality(OfChain(Append(rest, aborted))) =
          IF a \in Chain THEN Cardinality(OfChain(rest)) + 1 ELSE Cardinality(OfChain(rest))
    BY <1>1, AppendCounts
  <2>3. Waiting(pending', ready') = Cardinality(Chain \cap pending) + Cardinality(OfChain(Append(rest, aborted)))
    BY <2>1 DEF Waiting
  <2> QED BY <1>2, <2>2, <2>3 DEF Waiting
<1>4. CASE a \notin pending /\ a \in Chain
  <2>1. Chain \cap pending' = (Chain \cap pending) \cup {a} /\ ready' = rest
    BY <1>1, <1>4
  <2>2. Cardinality((Chain \cap pending) \cup {a}) = Cardinality(Chain \cap pending) + 1
    BY <1>2, <1>4, FS_AddElement
  <2>3. Waiting(pending', ready') = Cardinality((Chain \cap pending) \cup {a}) + Cardinality(OfChain(rest))
    BY <2>1 DEF Waiting
  <2> QED BY <1>2, <1>4, <2>2, <2>3 DEF Waiting
<1>5. CASE a \notin pending /\ a \notin Chain
  <2>1. Chain \cap pending' = Chain \cap pending /\ ready' = rest
    BY <1>1, <1>5
  <2> QED BY <1>5, <2>1 DEF Waiting
<1> QED BY <1>3, <1>4, <1>5

\* ChainsFromGames is not inductive by itself: between the making of a game and
\* ArmSamosbor a game is still without its wait.
ChainInv == Waiting(pending, ready) + (IF terminal = "arm" THEN 1 ELSE 0) <= games

LEMMA ExpireChain ==
  ASSUME IInv, ChainInv, NEW t \in Timers, Expire(t)
  PROVE  ChainInv'
<1> DEFINE over == [timer |-> t, ec |-> FALSE]
<1>1. /\ over \in Completions /\ over.timer = t /\ ready \in Seq(Completions)
      /\ t \in pending /\ pending' = pending \ {t} /\ ready' = Append(ready, over)
      /\ terminal' = terminal /\ games' = games
  BY DEF Completions, Expire, IInv, TypeOK, countVars
<1>2. /\ Cardinality(Chain \cap pending) \in Nat /\ Cardinality(OfChain(ready)) \in Nat
      /\ IsFiniteSet(Chain \cap pending)
  BY <1>1, ChainFinite
<1> HIDE DEF over
<1>3. Cardinality(OfChain(ready')) =
        IF t \in Chain THEN Cardinality(OfChain(ready)) + 1 ELSE Cardinality(OfChain(ready))
  BY <1>1, AppendCounts
<1>4. Cardinality(Chain \cap pending') =
        IF t \in Chain THEN Cardinality(Chain \cap pending) - 1 ELSE Cardinality(Chain \cap pending)
  <2>1. Chain \cap pending' = (Chain \cap pending) \ {t} /\ (t \in Chain <=> t \in Chain \cap pending)
    BY <1>1
  <2>2. Cardinality((Chain \cap pending) \ {t}) =
          IF t \in Chain \cap pending THEN Cardinality(Chain \cap pending) - 1
          ELSE Cardinality(Chain \cap pending)
    BY <1>2, FS_RemoveElement
  <2> QED BY <2>1, <2>2
<1>5. Waiting(pending', ready') = Waiting(pending, ready)
  BY <1>2, <1>3, <1>4 DEF Waiting
<1> QED BY <1>1, <1>5 DEF ChainInv

\* What Run(t) arms, if anything: a timer of the samosbor after one of the samosbor
LEMMA RunArms ==
  ASSUME NEW t \in Timers, Run(t)
  PROVE  \/ NoWait(Tail(ready))
         \/ \E a \in Timers : (a \in Chain <=> t \in Chain) /\ Arm(a, Tail(ready))
<1>1. /\ t \in {"timer1", "timer2", "timer3", "samosborIntervalTimer", "samosborDuringTimer",
               "autosave_timer"}
      /\ Ticks \subseteq Timers /\ Chain \subseteq Timers /\ "autosave_timer" \in Timers
      /\ Chain = {"timer3", "samosborIntervalTimer", "samosborDuringTimer"}
      /\ Ticks = {"timer1", "timer2"}
  BY DEF Timers, Ticks, Chain
<1>2. CASE t = "timer3"
  BY <1>1, <1>2 DEF Run, waitSamosbor
<1>3. CASE t = "samosborIntervalTimer"
  BY <1>1, <1>3 DEF Run, startSamosbor
<1>4. CASE t = "samosborDuringTimer"
  BY <1>1, <1>4 DEF Run, stopSamosbor
<1>5. CASE t = "autosave_timer"
  <2>1. autosave(Tail(ready))
    BY <1>1, <1>5 DEF Run
  <2> QED BY <1>1, <1>5, <2>1 DEF autosave
<1>6. CASE t \in Ticks
  <2>1. Tick(t, Head(ready).ec, Tail(ready))
    BY <1>1, <1>6 DEF Run
  <2> QED BY <1>1, <1>6, <2>1 DEF Tick
<1> QED BY <1>1, <1>2, <1>3, <1>4, <1>5, <1>6

LEMMA RunChain ==
  ASSUME IInv, ChainInv, NEW t \in Timers, Run(t)
  PROVE  ChainInv'
<1> DEFINE rest == Tail(ready)
<1>1. /\ TimersOK /\ ready \in Seq(Completions) /\ ready # <<>> /\ Head(ready).timer = t
      /\ terminal' = terminal /\ games' = games /\ games \in Nat
  BY BoundAssumption DEF Run, IInv, TypeOK, TimersOK, countVars
<1>2. rest \in Seq(Completions)
  BY <1>1, TailInQueue
<1>3. Waiting(pending, rest) =
        IF t \in Chain THEN Waiting(pending, ready) - 1 ELSE Waiting(pending, ready)
  <2>1. /\ Cardinality(Chain \cap pending) \in Nat /\ Cardinality(OfChain(ready)) \in Nat
    BY <1>1, ChainFinite
  <2>2. Cardinality(OfChain(rest)) =
          IF t \in Chain THEN Cardinality(OfChain(ready)) - 1 ELSE Cardinality(OfChain(ready))
    BY <1>1, TailCounts
  <2> QED BY <2>1, <2>2 DEF Waiting
<1>4. Waiting(pending, ready) \in Nat
  BY <1>1, WaitingType
<1>5. NoWait(rest) \/ \E a \in Timers : (a \in Chain <=> t \in Chain) /\ Arm(a, rest)
  BY RunArms
<1> HIDE DEF rest
<1>6. Waiting(pending', ready') <= Waiting(pending, ready)
  <2>1. CASE NoWait(rest)
    BY <1>3, <1>4, <2>1 DEF NoWait
  <2>2. ASSUME NEW a \in Timers, a \in Chain <=> t \in Chain, Arm(a, rest)
        PROVE  Waiting(pending', ready') <= Waiting(pending, ready)
    <3>1. Waiting(pending', ready') =
            IF t \in Chain THEN Waiting(pending, rest) + 1 ELSE Waiting(pending, rest)
      BY <1>1, <1>2, <2>2, ArmCounts
    <3> QED BY <1>3, <1>4, <3>1
  <2> QED BY <1>5, <2>1, <2>2
<1>7. Waiting(pending', ready') \in Nat
  <2>1. ready' \in Seq(Completions)
    BY RunIInv DEF IInv, TypeOK
  <2> QED BY <2>1, WaitingType
<1> QED BY <1>1, <1>4, <1>6, <1>7 DEF ChainInv

LEMMA TerminalChain ==
  ASSUME IInv, ChainInv, Terminal
  PROVE  ChainInv'
<1>1. /\ TimersOK /\ ready \in Seq(Completions) /\ games \in Nat
      /\ Waiting(pending, ready) \in Nat
  BY BoundAssumption, WaitingType DEF IInv, TypeOK, TimersOK
<1>2. CASE GenerateGame \/ Load
  BY <1>1, <1>2 DEF GenerateGame, Load, Types, ChainInv, timerVars
<1>3. CASE ArmSamosbor
  <2>1. Arm("timer3", ready) /\ terminal = "arm" /\ terminal' = "prompt" /\ games' = games
    BY <1>3 DEF ArmSamosbor, stopSamosbor, countVars
  <2>2. Waiting(pending', ready') = Waiting(pending, ready) + 1
    BY <1>1, <2>1, ArmCounts DEF Timers, Chain
  <2> QED BY <1>1, <2>1, <2>2 DEF ChainInv
<1>4. CASE AutosaveStart
  <2>1. Arm("autosave_timer", ready) /\ terminal' = terminal /\ games' = games
    BY <1>4 DEF AutosaveStart
  <2>2. Waiting(pending', ready') = Waiting(pending, ready)
    BY <1>1, <2>1, ArmCounts DEF Timers, Chain
  <2> QED BY <2>1, <2>2 DEF ChainInv
<1>5. CASE \/ LoadConfig \/ StartCommand \/ StopCommand \/ ResetCommand \/ ResetGame \/ SaveGame
           \/ AutosaveStop \/ ExitCommand \/ Join
  <2>1. UNCHANGED <<pending, ready, games>> /\ terminal' \in {terminal, "reset", "prompt", "join", "done"}
    BY <1>5 DEF LoadConfig, StartCommand, StopCommand, ResetCommand, ResetGame, SaveGame,
                AutosaveStop, ExitCommand, Join, timerVars, countVars
  <2> QED BY <1>1, <2>1 DEF ChainInv
<1> QED BY <1>2, <1>3, <1>4, <1>5 DEF Terminal

LEMMA NextChain == IInv /\ ChainInv /\ [Next]_vars => ChainInv'
<1> SUFFICES ASSUME IInv, ChainInv, [Next]_vars PROVE ChainInv'
  OBVIOUS
<1>1. CASE Terminal
  BY <1>1, TerminalChain
<1>2. CASE Server \/ UNCHANGED vars
  <2>1. UNCHANGED <<pending, ready, games, terminal>>
    BY <1>2 DEF Server, Outer, Idle, Loop, PollReturns, Stopping, stopSamosbor, NoWait, serverIdle,
                timerVars, countVars, vars
  <2> QED BY <2>1 DEF ChainInv
<1>3. ASSUME NEW t \in Timers, Expire(t) \/ Run(t) PROVE ChainInv'
  BY <1>3, ExpireChain, RunChain
<1> QED BY <1>1, <1>2, <1>3 DEF Next

LEMMA InitChain == Init => ChainInv
<1> SUFFICES ASSUME Init PROVE ChainInv
  OBVIOUS
<1>1. Chain \cap pending = {} /\ OfChain(ready) = {}
  BY DEF Init, Chain, Ticks, OfChain
<1>2. Cardinality(Chain \cap pending) = 0 /\ Cardinality(OfChain(ready)) = 0
  BY <1>1, FS_EmptySet
<1> QED BY <1>2 DEF Init, ChainInv, Waiting

\* Whatever is aborted by whom, there are never more waits of the samosbor than
\* games were made.
THEOREM ChainsComeFromGames == Spec => []ChainsFromGames
<1>1. IInv /\ ChainInv => ChainsFromGames
  <2> SUFFICES ASSUME IInv, ChainInv PROVE ChainsFromGames
    OBVIOUS
  <2>1. games \in Nat /\ Waiting(pending, ready) \in Nat
    BY BoundAssumption, WaitingType DEF IInv, TypeOK
  <2>2. Waiting(pending, ready) <= games
    BY <2>1 DEF ChainInv
  <2> QED BY <2>2 DEF ChainsFromGames, Waiting
<1> QED BY InitIInv, NextIInv, InitChain, NextChain, <1>1, PTL DEF Spec

-----------------------------------------------------------------------------
(* One game, one chain *)

LEMMA AppendExact ==
  ASSUME NEW q \in Seq(Completions), NEW c \in Completions
  PROVE  \A i \in DOMAIN Append(q, c) : 
           Append(q, c)[i] = c \/ (i \in DOMAIN q /\ Append(q, c)[i] = q[i])
<1>1. /\ Append(q, c) \in Seq(Completions) /\ Len(Append(q, c)) = Len(q) + 1
      /\ \A i \in 1..Len(q) : Append(q, c)[i] = q[i]
      /\ Append(q, c)[Len(q) + 1] = c
  BY AppendProperties
<1>2. Len(q) \in Nat /\ DOMAIN q = 1..Len(q) /\ DOMAIN Append(q, c) = 1..(Len(q) + 1)
  BY <1>1, LenProperties
<1> QED BY <1>1, <1>2

LEMMA TailExact ==
  ASSUME NEW q \in Seq(Completions), q # <<>>
  PROVE  /\ 1 \in DOMAIN q /\ Head(q) = q[1]
         /\ \A i \in DOMAIN Tail(q) : i + 1 \in DOMAIN q /\ Tail(q)[i] = q[i + 1]
<1>1. /\ Head(q) = q[1] /\ Tail(q) \in Seq(Completions) /\ Len(Tail(q)) = Len(q) - 1
      /\ \A i \in 1..Len(Tail(q)) : Tail(q)[i] = q[i + 1]
  BY HeadTailProperties
<1>2. Len(q) \in Nat \ {0} /\ DOMAIN q = 1..Len(q) /\ DOMAIN Tail(q) = 1..Len(Tail(q))
  BY <1>1, LenProperties, EmptySeq
<1> QED BY <1>1, <1>2

\* Arming a timer gives a wait to no other timer.
LEMMA ArmExact ==
  ASSUME NEW a \in Timers, NEW rest \in Seq(Completions), TimersOK, Arm(a, rest), NEW t \in Timers
  PROVE  Outstanding(t)' <=> t = a \/ Waits(t, rest)
<1> DEFINE aborted == [timer |-> a, ec |-> TRUE]
<1>1. Outstanding(a)' /\ (Waits(t, rest) => Outstanding(t)')
  BY ArmKeeps
<1>2. ASSUME Outstanding(t)', t # a PROVE Waits(t, rest)
  <2>1. CASE t \in pending'
    BY <1>2, <2>1 DEF Arm, Waits
  <2>2. CASE InQueue(t, ready')
    <3>1. CASE ready' = rest
      BY <2>2, <3>1 DEF Waits
    <3>2. CASE ready' = Append(rest, aborted)
      <4>1. aborted \in Completions /\ aborted.timer = a
        BY DEF Completions
      <4> HIDE DEF aborted
      <4>2. \A i \in DOMAIN ready' : ready'[i] = aborted \/ (i \in DOMAIN rest /\ ready'[i] = rest[i])
        BY <3>2, <4>1, AppendExact
      <4> QED BY <1>2, <2>2, <4>1, <4>2 DEF InQueue, Waits
    <3> QED BY <3>1, <3>2 DEF Arm
  <2> QED BY <1>2, <2>1, <2>2 DEF Outstanding, InQueue
<1> QED BY <1>1, <1>2

LEMMA NoWaitExact ==
  ASSUME NEW rest, NoWait(rest), NEW t
  PROVE  Outstanding(t)' <=> Waits(t, rest)
BY DEF NoWait, Outstanding, Waits, InQueue

\* No wait of the samosbor in queue q was aborted
NoneAborted(q) == \A i \in DOMAIN q : q[i].timer \in Chain => ~q[i].ec

\* A samosbor goes on only while io_context.run was reached (serverActive), so that
\* a forced stop that ends it stops the io_context as well.
Active == (server = "poll" => serverActive) /\ (samosborGoing => serverActive)

OneInv == IInv /\ ChainInv /\ NoneAborted(ready) /\ Active

\* With one game, the wait of the samosbor that is run, or still to be begun, is
\* the only one.
LEMMA Alone ==
  ASSUME OneInv, MaxGames <= 1
  PROVE  /\ terminal = "arm" => \A t \in Chain : ~Outstanding(t)
         /\ ready # <<>> /\ Head(ready).timer \in Chain =>
              \A t \in Chain : ~Waits(t, Tail(ready))
<1>1. /\ ready \in Seq(Completions) /\ games \in 0..MaxGames /\ MaxGames \in Nat
      /\ Waiting(pending, ready) + (IF terminal = "arm" THEN 1 ELSE 0) <= games
  BY BoundAssumption DEF OneInv, IInv, TypeOK, ChainInv
<1>2. /\ Cardinality(Chain \cap pending) \in Nat /\ IsFiniteSet(Chain \cap pending)
      /\ Cardinality(OfChain(ready)) \in Nat /\ IsFiniteSet(OfChain(ready))
  BY <1>1, ChainFinite
<1>3. ASSUME terminal = "arm", NEW t \in Chain PROVE ~Outstanding(t)
  <2>1. Cardinality(Chain \cap pending) = 0 /\ Cardinality(OfChain(ready)) = 0
    BY <1>1, <1>2, <1>3 DEF Waiting
  <2>2. Chain \cap pending = {} /\ OfChain(ready) = {}
    BY <1>2, <2>1, FS_EmptySet
  <2> QED BY <2>2 DEF Outstanding, OfChain
<1>4. ASSUME ready # <<>>, Head(ready).timer \in Chain, NEW t \in Chain
      PROVE  ~Waits(t, Tail(ready))
  <2>1. /\ Tail(ready) \in Seq(Completions)
        /\ Cardinality(OfChain(Tail(ready))) = Cardinality(OfChain(ready)) - 1
    BY <1>1, <1>4, TailInQueue, TailCounts
  <2>2. Cardinality(OfChain(Tail(ready))) \in Nat /\ IsFiniteSet(OfChain(Tail(ready)))
    BY <2>1, ChainFinite
  <2>3. Cardinality(Chain \cap pending) = 0 /\ Cardinality(OfChain(Tail(ready))) = 0
    BY <1>1, <1>2, <2>1, <2>2 DEF Waiting
  <2>4. Chain \cap pending = {} /\ OfChain(Tail(ready)) = {}
    BY <1>2, <2>2, <2>3, FS_EmptySet
  <2> QED BY <2>4 DEF Waits, InQueue, OfChain
<1> QED BY <1>3, <1>4

\* Hence no wait of the samosbor is ever aborted.
LEMMA ArmAbortsNone ==
  ASSUME NEW a \in Timers, NEW rest \in Seq(Completions), TimersOK, Arm(a, rest),
         NoneAborted(rest), a \in Chain => ~Waits(a, rest)
  PROVE  NoneAborted(ready')
<1> DEFINE aborted == [timer |-> a, ec |-> TRUE]
<1>1. CASE ready' = rest
  BY <1>1
<1>2. CASE ready' = Append(rest, aborted) /\ a \in pending
  <2>1. aborted \in Completions /\ aborted.timer \notin Chain
    BY <1>2 DEF Completions, Waits
  <2> HIDE DEF aborted
  <2>2. \A i \in DOMAIN ready' : ready'[i] = aborted \/ (i \in DOMAIN rest /\ ready'[i] = rest[i])
    BY <1>2, <2>1, AppendExact
  <2> QED BY <2>1, <2>2 DEF NoneAborted
<1> QED BY <1>1, <1>2 DEF Arm

LEMMA RunOne ==
  ASSUME OneInv, MaxGames <= 1, NEW t \in Timers, Run(t)
  PROVE  NoneAborted(ready') /\ Active'
<1> DEFINE rest == Tail(ready)
<1>1. /\ TimersOK /\ ready \in Seq(Completions) /\ ready # <<>> /\ Head(ready).timer = t
      /\ server = "poll" /\ UNCHANGED <<server, serverActive>>
  BY DEF OneInv, IInv, TypeOK, TimersOK, Run, flagVars
<1>2. rest \in Seq(Completions)
  BY <1>1, TailInQueue
<1>3. NoneAborted(rest)
  BY <1>1, TailExact DEF OneInv, NoneAborted
<1>4. t \in Chain => \A u \in Chain : ~Waits(u, rest)
  BY <1>1, Alone
<1>5. NoWait(rest) \/ \E a \in Timers : (a \in Chain <=> t \in Chain) /\ Arm(a, rest)
  BY RunArms
<1> HIDE DEF rest
<1>6. NoneAborted(ready')
  BY <1>1, <1>2, <1>3, <1>4, <1>5, ArmAbortsNone DEF NoWait
<1>7. Active'
  BY <1>1 DEF OneInv, Active
<1> QED BY <1>6, <1>7

LEMMA NextOne ==
  ASSUME MaxGames <= 1, OneInv, [Next]_vars
  PROVE  OneInv'
<1>1. IInv' /\ ChainInv'
  BY NextIInv, NextChain DEF OneInv
<1>2. TimersOK /\ ready \in Seq(Completions)
  BY DEF OneInv, IInv, TypeOK, TimersOK
<1>3. NoneAborted(ready) /\ Active
  BY DEF OneInv
<1> SUFFICES NoneAborted(ready') /\ Active'
  BY <1>1 DEF OneInv
<1>4. ASSUME NEW t \in Timers, Expire(t) PROVE NoneAborted(ready') /\ Active'
  <2> DEFINE over == [timer |-> t, ec |-> FALSE]
  <2>1. over \in Completions /\ ~over.ec /\ ready' = Append(ready, over)
    BY <1>4 DEF Completions, Expire
  <2> HIDE DEF over
  <2>2. \A i \in DOMAIN ready' : ready'[i] = over \/ (i \in DOMAIN ready /\ ready'[i] = ready[i])
    BY <1>2, <2>1, AppendExact
  <2>3. UNCHANGED <<server, serverActive, samosborGoing>>
    BY <1>4 DEF Expire, flagVars
  <2> QED BY <1>3, <2>1, <2>2, <2>3 DEF NoneAborted, Active
<1>5. ASSUME NEW t \in Timers, Run(t) PROVE NoneAborted(ready') /\ Active'
  BY <1>5, RunOne
<1>6. CASE Server
  <2>1. ready' = ready
    BY <1>6 DEF Server, Outer, Idle, Loop, PollReturns, Stopping, stopSamosbor, NoWait, timerVars
  <2>2. Active'
    BY <1>3, <1>6 DEF Server, Outer, Idle, Loop, PollReturns, Stopping, stopSamosbor, Active
  <2> QED BY <1>3, <2>1, <2>2
<1>7. CASE ArmSamosbor
  <2>1. /\ Arm("timer3", ready) /\ ~Outstanding("timer3") /\ samosborGoing' = FALSE
        /\ UNCHANGED <<server, serverActive>>
    BY <1>7, Alone DEF ArmSamosbor, stopSamosbor, Chain, flagVars
  <2>2. NoneAborted(ready')
    BY <1>2, <1>3, <2>1, ArmAbortsNone DEF Outstanding, Waits, InQueue, Timers, Chain
  <2> QED BY <1>3, <2>1, <2>2 DEF Active
<1>8. CASE AutosaveStart
  <2>1. /\ Arm("autosave_timer", ready) /\ "autosave_timer" \in Timers \ Chain
        /\ UNCHANGED <<server, serverActive, samosborGoing>>
    BY <1>8 DEF AutosaveStart, Timers, Chain, flagVars
  <2> QED BY <1>2, <1>3, <2>1, ArmAbortsNone DEF Active
<1>9. CASE Elsewhere
  <2>1. UNCHANGED <<ready, server, serverActive, samosborGoing>>
    BY <1>9 DEF Elsewhere, LoadConfig, GenerateGame, Load, StartCommand, StopCommand, ResetCommand,
                ResetGame, SaveGame, AutosaveStop, ExitCommand, Join, flagVars, timerVars
  <2> QED BY <1>3, <2>1 DEF Active
<1>10. CASE UNCHANGED vars
  BY <1>3, <1>10 DEF Active, vars, flagVars, timerVars
<1> QED BY <1>4, <1>5, <1>6, <1>7, <1>8, <1>9, <1>10 DEF Next, Terminal, Elsewhere

LEMMA InitOne == Init => OneInv
<1> SUFFICES ASSUME Init PROVE OneInv
  OBVIOUS
<1>1. NoneAborted(ready) /\ Active
  BY DEF Init, NoneAborted, Active
<1> QED BY <1>1, InitIInv, InitChain DEF OneInv

\* With one game made since the server was started, a samosbor starts when its
\* wait is over and not when it is aborted. (With two it may: run EarlySamosbor.)
THEOREM OneChainStartsOnTime ==
  ASSUME MaxGames <= 1
  PROVE  Spec => StartsAsAnnounced
<1> DEFINE OnTime == ~samosborGoing /\ samosborGoing' =>
                       Head(ready) = [timer |-> "samosborIntervalTimer", ec |-> FALSE]
<1>1. OneInv /\ [Next]_vars => OnTime
  <2> SUFFICES ASSUME OneInv, [Next]_vars, ~samosborGoing, samosborGoing'
               PROVE  Head(ready) = [timer |-> "samosborIntervalTimer", ec |-> FALSE]
    OBVIOUS
  <2>1. ASSUME NEW t \in Timers, Run(t) PROVE t = "samosborIntervalTimer"
    BY <2>1 DEF Run, waitSamosbor, stopSamosbor, autosave, Tick, Timers, Chain
  <2>2. \E t \in Timers : Run(t)
    BY DEF Next, Terminal, LoadConfig, GenerateGame, Load, ArmSamosbor, StartCommand, StopCommand,
           ResetCommand, ResetGame, SaveGame, AutosaveStart, AutosaveStop, ExitCommand, Join,
           Server, Outer, Idle, Loop, PollReturns, Stopping, stopSamosbor, Expire, vars
  <2>3. /\ ready \in Seq(Completions) /\ ready # <<>>
        /\ Head(ready).timer = "samosborIntervalTimer"
    BY <2>1, <2>2 DEF Run, OneInv, IInv, TypeOK
  <2>4. Head(ready) \in Completions /\ 1 \in DOMAIN ready /\ Head(ready) = ready[1]
    BY <2>3, TailInQueue, TailExact
  <2>5. ~Head(ready).ec
    BY <2>3, <2>4 DEF OneInv, NoneAborted, Chain
  <2> QED BY <2>3, <2>4, <2>5 DEF Completions
<1>2. OneInv /\ [Next]_vars => [OnTime]_vars
  BY <1>1
<1>3. OneInv /\ [Next]_vars => OneInv'
  BY NextOne
<1> QED BY InitOne, <1>2, <1>3, PTL DEF Spec, StartsAsAnnounced

-----------------------------------------------------------------------------
(* The cycle the players are told of *)

Announced == Outstanding("samosborIntervalTimer")

\* What phase is made of
LEMMA PhaseSame ==
  ASSUME UNCHANGED <<stopped, samosborGoing>>, Announced' <=> Announced
  PROVE  phase' = phase
BY DEF phase, Announced

LEMMA PhaseValues ==
  /\ phase = IF stopped THEN "over" ELSE IF samosborGoing THEN "going"
             ELSE IF Announced THEN "announced" ELSE "calm"
  /\ phase' = IF stopped' THEN "over" ELSE IF samosborGoing' THEN "going"
              ELSE IF Announced' THEN "announced" ELSE "calm"
BY DEF phase, Announced

\* The handlers of the three timers go one step through the cycle, or none.
LEMMA RunCycles ==
  ASSUME OneInv, MaxGames <= 1, NEW t \in Timers, Run(t)
  PROVE  [Cycle!Next]_phase
<1> DEFINE rest == Tail(ready)
           interval == "samosborIntervalTimer"
           during == "samosborDuringTimer"
<1>1. /\ TimersOK /\ ready \in Seq(Completions) /\ ready # <<>> /\ Head(ready).timer = t
      /\ ~stopped /\ ~stopped' /\ samosborGoing \in BOOLEAN
      /\ samosborGoing => Outstanding(during)
  BY DEF OneInv, IInv, TypeOK, TimersOK, SamosborWillEnd, Run
<1>2. /\ rest \in Seq(Completions)
      /\ \A u \in Timers : Waits(u, rest) => Outstanding(u)
      /\ \A u \in Timers : u # t /\ Outstanding(u) => Waits(u, rest)
  <2>1. /\ rest \in Seq(Completions)
        /\ \A u \in Timers : InQueue(u, ready) /\ Head(ready).timer # u => InQueue(u, rest)
    BY <1>1, TailInQueue
  <2>2. \A u \in Timers : InQueue(u, rest) => InQueue(u, ready)
    BY <1>1, TailExact DEF InQueue
  <2> QED BY <1>1, <2>1, <2>2 DEF Outstanding, Waits, InQueue
<1>3. t \in Chain => \A u \in Chain : ~Waits(u, rest)
  BY <1>1, Alone
<1>4. /\ Timers = {"timer1", "timer2", "timer3", "samosborIntervalTimer", "samosborDuringTimer",
                  "autosave_timer"}
      /\ Chain = {"timer3", "samosborIntervalTimer", "samosborDuringTimer"}
      /\ Ticks = {"timer1", "timer2"}
  BY DEF Timers, Ticks, Chain
<1>5. /\ t = "timer3" => waitSamosbor(rest)
      /\ t = "samosborIntervalTimer" => startSamosbor(rest)
      /\ t = "samosborDuringTimer" => stopSamosbor(FALSE, rest)
      /\ t \in Ticks \cup {"autosave_timer"} =>
           /\ UNCHANGED samosborGoing
           /\ NoWait(rest) \/ \E a \in Timers : a \notin Chain /\ Arm(a, rest)
  BY <1>4, RunArms DEF Run, autosave, Tick
<1> HIDE DEF rest
<1>6. ASSUME NEW a \in Timers, Arm(a, rest) PROVE Announced' <=> a = interval \/ Waits(interval, rest)
  BY <1>1, <1>2, <1>4, <1>6, ArmExact DEF Announced
<1>7. ASSUME NoWait(rest) PROVE Announced' <=> Waits(interval, rest)
  BY <1>7, NoWaitExact DEF Announced
<1>8. CASE t = "timer3"
  <2>1. ~samosborGoing /\ ~Announced /\ ~Waits(interval, rest)
    BY <1>1, <1>2, <1>3, <1>4, <1>8 DEF Announced
  <2>2. samosborGoing' = samosborGoing /\ (Arm(interval, rest) \/ NoWait(rest))
    BY <1>5, <1>8 DEF waitSamosbor
  <2> QED BY <1>1, <2>1, <2>2, PhaseValues DEF Cycle!Next, Cycle!Announce
<1>9. CASE t = "samosborIntervalTimer"
  <2>1. ~samosborGoing /\ Announced
    <3>1. ready[1].timer = interval /\ 1 \in DOMAIN ready
      BY <1>1, <1>9, TailExact
    <3> QED BY <1>1, <1>2, <1>3, <1>4, <1>9, <3>1 DEF Announced, Outstanding
  <2>2. samosborGoing' = TRUE
    BY <1>5, <1>9 DEF startSamosbor
  <2> QED BY <1>1, <2>1, <2>2, PhaseValues DEF Cycle!Next, Cycle!Begin
<1>10. CASE t = "samosborDuringTimer"
  <2>1. ~Announced /\ ~Waits(interval, rest)
    BY <1>2, <1>3, <1>4, <1>10 DEF Announced
  <2>2. samosborGoing' = FALSE /\ Arm("timer3", rest)
    BY <1>5, <1>10 DEF stopSamosbor
  <2>3. ~Announced'
    BY <1>4, <1>6, <2>1, <2>2
  <2> QED BY <1>1, <2>1, <2>2, <2>3, PhaseValues DEF Cycle!Next, Cycle!End
<1>11. CASE t \in Ticks \cup {"autosave_timer"}
  <2>1. Announced <=> Waits(interval, rest)
    BY <1>2, <1>4, <1>11 DEF Announced
  <2>2. Announced' <=> Waits(interval, rest)
    BY <1>4, <1>5, <1>6, <1>7, <1>11
  <2>3. UNCHANGED samosborGoing
    BY <1>5, <1>11
  <2>4. phase' = phase
    BY <1>1, <2>1, <2>2, <2>3, PhaseValues
  <2> QED BY <2>4
<1> QED BY <1>4, <1>8, <1>9, <1>10, <1>11

\* The stop of the server breaks the cycle off, for good.
LEMMA StoppingCycles ==
  ASSUME OneInv, Stopping
  PROVE  [Cycle!Next]_phase
<1>1. /\ stopped' = (stopped \/ serverActive) /\ samosborGoing' = FALSE
      /\ Announced' <=> Announced
      /\ samosborGoing \in BOOLEAN
      /\ samosborGoing => serverActive
  BY DEF Stopping, stopSamosbor, NoWait, Announced, Outstanding, OneInv, IInv, TypeOK, Active
<1> QED BY <1>1, PhaseValues DEF Cycle!Next, Cycle!Stop

LEMMA OthersCycle ==
  ASSUME OneInv, MaxGames <= 1, [Next]_vars, ~Stopping, \A t \in Timers : ~Run(t)
  PROVE  phase' = phase
<1>1. TimersOK /\ ready \in Seq(Completions)
  BY DEF OneInv, IInv, TypeOK, TimersOK
<1>2. "samosborIntervalTimer" \in Timers /\ (Announced <=> Waits("samosborIntervalTimer", ready))
  BY DEF Announced, Outstanding, Waits, InQueue, Timers, Chain
<1>3. ASSUME NEW t \in Timers, Expire(t) PROVE phase' = phase
  <2> DEFINE over == [timer |-> t, ec |-> FALSE]
  <2>1. /\ over \in Completions /\ over.timer = t /\ ready' = Append(ready, over)
        /\ t \in pending /\ pending' = pending \ {t}
        /\ UNCHANGED <<stopped, samosborGoing>>
    BY <1>3 DEF Completions, Expire
  <2> HIDE DEF over
  <2>2. \A i \in DOMAIN ready' : ready'[i] = over \/ (i \in DOMAIN ready /\ ready'[i] = ready[i])
    BY <1>1, <2>1, AppendExact
  <2>3. InQueue(t, ready') /\ \A u \in Timers : InQueue(u, ready) => InQueue(u, ready')
    BY <1>1, <2>1, AppendInQueue
  <2>4. Announced' <=> Announced
    BY <1>2, <2>1, <2>2, <2>3 DEF Announced, Outstanding, InQueue
  <2> QED BY <2>1, <2>4, PhaseSame
<1>4. CASE Outer \/ Idle \/ Loop \/ PollReturns \/ Elsewhere \/ UNCHANGED vars
  <2>1. UNCHANGED <<stopped, samosborGoing, pending, ready>>
    BY <1>4 DEF Outer, Idle, Loop, PollReturns, Elsewhere, LoadConfig, GenerateGame, Load,
                StartCommand, StopCommand, ResetCommand, ResetGame, SaveGame, AutosaveStop,
                ExitCommand, Join, timerVars, vars
  <2> QED BY <2>1, PhaseSame DEF Announced, Outstanding
<1>5. CASE ArmSamosbor
  <2>1. Arm("timer3", ready) /\ samosborGoing' = FALSE /\ UNCHANGED stopped
    BY <1>5 DEF ArmSamosbor, stopSamosbor
  <2>2. ~samosborGoing /\ ~Announced /\ samosborGoing \in BOOLEAN
    BY <1>5, Alone DEF ArmSamosbor, Announced, Chain, OneInv, IInv, TypeOK, SamosborWillEnd
  <2>3. ~Announced'
    <3>1. "timer3" \in Timers /\ "timer3" # "samosborIntervalTimer"
      BY DEF Timers, Chain
    <3>2. Outstanding("samosborIntervalTimer")' <=>
            "samosborIntervalTimer" = "timer3" \/ Waits("samosborIntervalTimer", ready)
      BY <1>1, <1>2, <2>1, <3>1, ArmExact
    <3> QED BY <1>2, <2>2, <3>1, <3>2 DEF Announced
  <2> QED BY <2>1, <2>2, <2>3, PhaseSame
<1>6. CASE AutosaveStart
  <2>1. Arm("autosave_timer", ready) /\ UNCHANGED <<samosborGoing, stopped>>
    BY <1>6 DEF AutosaveStart
  <2>2. Announced' <=> Announced
    BY <1>1, <1>2, <2>1, ArmExact DEF Announced, Timers
  <2> QED BY <2>1, <2>2, PhaseSame
<1> QED BY <1>3, <1>4, <1>5, <1>6 DEF Next, Terminal, Server, Elsewhere

\* With one game, what the players are told is the cycle of SamosborCycle: announced,
\* started, ended, and so on until the server is stopped for good.
THEOREM OneChainCycles ==
  ASSUME MaxGames <= 1
  PROVE  Spec => CycleSpec
<1>1. Init => phase = "calm"
  BY DEF Init, phase, Outstanding, Ticks
<1>2. OneInv /\ [Next]_vars => [Cycle!Next]_phase
  <2> SUFFICES ASSUME OneInv, [Next]_vars PROVE [Cycle!Next]_phase
    OBVIOUS
  <2>1. CASE \E t \in Timers : Run(t)
    BY <2>1, RunCycles
  <2>2. CASE Stopping
    BY <2>2, StoppingCycles
  <2>3. CASE ~Stopping /\ \A t \in Timers : ~Run(t)
    BY <2>3, OthersCycle
  <2> QED BY <2>1, <2>2, <2>3
<1>3. OneInv /\ [Next]_vars => OneInv'
  BY NextOne
<1> QED BY InitOne, <1>1, <1>2, <1>3, PTL DEF Spec, CycleSpec, Cycle!Spec, Cycle!Init
=============================================================================
