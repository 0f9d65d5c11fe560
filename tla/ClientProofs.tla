---------------------------- MODULE ClientProofs ----------------------------
(***************************************************************************)
(* What Connect and the receiver guarantee each other, for any number of   *)
(* messages and commands and any size of the logs.                         *)
(***************************************************************************)
EXTENDS ClientApp, TLAPS, SequenceTheorems

\* Where the interface thread is in the middle of Connect, before the receiver
\* is made.
BeforeSpawn == ui \in {"connecting", "connected", "shown", "raised"}

\* bgRunning is set before the receiver is made and never cleared, so that a
\* receiver does not end.
Running ==
  /\ bg \in {"none", "top", "reading", "handling"}
  /\ ui = "raised" \/ bg # "none" => bgRunning = TRUE

\* Once Connect is over, who sees the game has a receiver.
Served ==
  /\ state \in {CONNECTED, DISCONNECTED}
  /\ ui \in {"connecting", "connected"} => state # CONNECTED
  /\ ui \in {"shown", "raised", "nick"} => state = CONNECTED
  /\ state = CONNECTED /\ ~BeforeSpawn /\ process = "runs" => bg # "none"

\* A receiver beside a login form, or beside a second Connect, is what a lost
\* nickname has left.
LeftOver ==
  /\ bg # "none" /\ (BeforeSpawn \/ state # CONNECTED) => nickLost = TRUE
  /\ process = "aborted" => nickLost = TRUE

IInv == Running /\ Served /\ LeftOver

LEMMA InitIInv == Init => IInv
  BY LogsAssumption DEF Init, IInv, Running, Served, LeftOver, BeforeSpawn

\* The steps of Connect keep the invariant: each is taken in the state that the
\* one before has left, whatever the receiver has done meanwhile.
LEMMA ConnectingKeeps == IInv /\ Connecting => IInv'
<1> SUFFICES ASSUME IInv, Connecting
             PROVE IInv'
  OBVIOUS
<1> USE LogsAssumption
    DEF IInv, Running, Served, LeftOver, BeforeSpawn, Ui, connVars, logVars
<1>1. CASE ClientConnect
  BY <1>1 DEF ClientConnect
<1>2. CASE ShowGame
  BY <1>2 DEF ShowGame
<1>3. CASE RaiseFlag
  BY <1>3 DEF RaiseFlag
<1>4. CASE Spawn
  <2>1. CASE bg = "none"
    BY <1>4, <2>1 DEF Spawn
  <2>2. CASE bg # "none"
    BY <1>4, <2>2 DEF Spawn
  <2> QED BY <2>1, <2>2
<1>5. CASE SendNick
  BY <1>5 DEF SendNick
<1> QED BY <1>1, <1>2, <1>3, <1>4, <1>5 DEF Connecting

\* What the interface thread does outside of the middle of Connect.
LEMMA InterfaceKeeps == IInv /\ Interface => IInv'
<1> SUFFICES ASSUME IInv, Interface
             PROVE IInv'
  OBVIOUS
<1>1. CASE Connecting
  BY <1>1, ConnectingKeeps
<1> USE DEF IInv, Running, Served, LeftOver, BeforeSpawn, Ui, connVars, logVars
<1>2. CASE Connect
  BY <1>2 DEF Connect, MayConnect
<1>3. CASE Type \/ Echo \/ SendServ \/ Draw \/ CloseWindow
  BY <1>3 DEF Type, Echo, SendServ, Draw, CloseWindow
<1> QED BY <1>1, <1>2, <1>3 DEF Interface

\* The receiver only moves on in its loop.
LEMMA ReceiverKeeps == IInv /\ UpdateMsgThread => IInv'
<1> SUFFICES ASSUME IInv, UpdateMsgThread
             PROVE IInv'
  OBVIOUS
<1> USE DEF IInv, Running, Served, LeftOver, BeforeSpawn, connVars, logVars
<1>1. CASE Loop
  BY <1>1 DEF Loop, Alive
<1>2. CASE Read
  BY <1>2 DEF Read, Takes, Fails, Alive
<1>3. CASE Handle
  <2>1. Alive /\ bg = "handling" /\ bg' = "top" /\ UNCHANGED <<process, ui, connVars>>
    BY <1>3 DEF Handle, AfterMessage
  <2> QED BY <2>1 DEF Alive
<1> QED BY <1>1, <1>2, <1>3 DEF UpdateMsgThread

\* The rest ends the program or comes from outside.
LEMMA NextIInv == IInv /\ [Next]_vars => IInv'
<1> SUFFICES ASSUME IInv, [Next]_vars
             PROVE IInv'
  OBVIOUS
<1>1. CASE Interface
  BY <1>1, InterfaceKeeps
<1>2. CASE UpdateMsgThread
  BY <1>2, ReceiverKeeps
<1> USE DEF IInv, Running, Served, LeftOver, BeforeSpawn, connVars, logVars
<1>3. CASE Join \/ Tear
  BY <1>3 DEF Join, Joined, Tear, Alive
<1>4. CASE ServerSends \/ ServerGoes
  BY <1>4 DEF ServerSends, ServerGoes
<1>5. CASE UNCHANGED vars
  BY <1>5 DEF vars
<1> QED BY <1>1, <1>2, <1>3, <1>4, <1>5 DEF Next

\* Whoever sees the game is listened for (Connect, main.cpp:86-104): at the end
\* of Connect there is a receiver, and no error and no message ends it.
THEOREM ConnectedIsListening == Spec => []Listens
<1>1. IInv => Listens
  BY DEF IInv, Running, Served, BeforeSpawn, Listens, Listening
<1> QED BY InitIInv, NextIInv, <1>1, PTL DEF Spec

\* A std::thread is assigned to while it is joinable (main.cpp:98) only after a
\* nickname could not be sent.
THEOREM AbortNeedsLostNick == Spec => []AbortsAfterLostNick
<1>1. IInv => AbortsAfterLostNick
  BY DEF IInv, LeftOver, AbortsAfterLostNick
<1> QED BY InitIInv, NextIInv, <1>1, PTL DEF Spec

-----------------------------------------------------------------------------
(* The lines of the logs *)

LEMMA SeqGrows ==
  ASSUME NEW S, NEW T, S \subseteq T, NEW s \in Seq(S)
  PROVE  s \in Seq(T)
<1>1. s \in [1..Len(s) -> S] /\ Len(s) \in Nat
  OBVIOUS
<1>2. s \in [1..Len(s) -> T]
  BY <1>1
<1> QED BY <1>1, <1>2

\* Cutting a log leaves its last lines.
LEMMA PrunedLines ==
  ASSUME NEW S, NEW log \in Seq(S), NEW max \in Nat \ {0}
  PROVE  /\ Pruned(log, max) \in Seq(S)
         /\ \A i \in 1..Len(log) : i > Len(log) - max =>
              \E j \in 1..Len(Pruned(log, max)) : Pruned(log, max)[j] = log[i]
<1>1. CASE Len(log) <= max
  BY <1>1 DEF Pruned
<1>2. CASE Len(log) > max
  <2> DEFINE first == Len(log) - max + 1
  <2>1. first \in 1..Len(log) + 1 /\ Len(log) \in 0..Len(log) /\ first <= Len(log)
    BY <1>2
  <2>2. Pruned(log, max) = SubSeq(log, first, Len(log))
    BY <1>2 DEF Pruned
  <2>3. /\ SubSeq(log, first, Len(log)) \in Seq(S)
        /\ Len(SubSeq(log, first, Len(log))) = max
        /\ \A k \in 1..max : SubSeq(log, first, Len(log))[k] = log[first + k - 1]
    BY <2>1, SubSeqProperties
  <2>4. ASSUME NEW i \in 1..Len(log), i > Len(log) - max
        PROVE  \E j \in 1..max : Pruned(log, max)[j] = log[i]
    <3>1. i - first + 1 \in 1..max
      BY <2>4
    <3>2. Pruned(log, max)[i - first + 1] = log[first + (i - first + 1) - 1]
      BY <2>2, <2>3, <3>1
    <3>3. first + (i - first + 1) - 1 = i
      BY <2>4
    <3> QED BY <3>1, <3>2, <3>3
  <2> QED BY <2>2, <2>3, <2>4
<1> QED BY <1>1, <1>2

\* New lines are numbered on from those pushed before.
LEMMA NewLines ==
  ASSUME pushed \in Nat, NEW n \in Nat, NEW log \in Seq(1..pushed)
  PROVE  /\ log \in Seq(1..(pushed + n))
         /\ log \o Lines(n) \in Seq(1..(pushed + n))
         /\ Len(log \o Lines(n)) = Len(log) + n
         /\ \A i \in 1..Len(log) : (log \o Lines(n))[i] = log[i]
<1>1. Lines(n) \in Seq(1..(pushed + n)) /\ Len(Lines(n)) = n
  <2>1. Lines(n) \in [1..n -> 1..(pushed + n)]
    BY DEF Lines
  <2> QED BY <2>1
<1>2. log \in Seq(1..(pushed + n))
  BY SeqGrows, 1..pushed \subseteq 1..(pushed + n)
<1>3. /\ log \o Lines(n) \in Seq(1..(pushed + n))
      /\ Len(log \o Lines(n)) = Len(log) + Len(Lines(n))
      /\ \A i \in 1..Len(log) + Len(Lines(n)) :
           (log \o Lines(n))[i] = IF i <= Len(log) THEN log[i] ELSE Lines(n)[i - Len(log)]
  BY <1>1, <1>2, ConcatProperties
<1>4. \A i \in 1..Len(log) : i \in 1..Len(log) + Len(Lines(n))
  BY <1>1, <1>2
<1> QED BY <1>1, <1>2, <1>3, <1>4

\* Both ways to append keep the newest lines.
LEMMA AppendKeepsNewest ==
  ASSUME pushed \in Nat, NEW n \in Nat, NEW log \in Seq(1..pushed), NEW max \in Nat \ {0}
  PROVE  /\ KeepsNewest(log, log \o Lines(n), max)
         /\ KeepsNewest(log, Pruned(log, max) \o Lines(n), max)
<1>1. KeepsNewest(log, log \o Lines(n), max)
  BY NewLines DEF KeepsNewest
<1>2. KeepsNewest(log, Pruned(log, max) \o Lines(n), max)
  <2> DEFINE cut == Pruned(log, max)
  <2>1. cut \in Seq(1..pushed)
    BY PrunedLines
  <2>2. \A i \in 1..Len(log) : i > Len(log) - max => \E j \in 1..Len(cut) : cut[j] = log[i]
    BY PrunedLines
  <2> HIDE DEF cut
  <2>3. /\ Len(cut \o Lines(n)) = Len(cut) + n
        /\ \A j \in 1..Len(cut) : (cut \o Lines(n))[j] = cut[j]
    BY <2>1, NewLines
  <2>4. \A j \in 1..Len(cut) : j \in 1..Len(cut \o Lines(n))
    BY <2>1, <2>3
  <2>5. KeepsNewest(log, cut \o Lines(n), max)
    <3> SUFFICES ASSUME NEW i \in 1..Len(log), i > Len(log) - max
                 PROVE  \E j \in 1..Len(cut \o Lines(n)) : (cut \o Lines(n))[j] = log[i]
      BY DEF KeepsNewest
    <3>1. PICK j \in 1..Len(cut) : cut[j] = log[i]
      BY <2>2
    <3>2. j \in 1..Len(cut \o Lines(n)) /\ (cut \o Lines(n))[j] = log[i]
      BY <2>3, <2>4, <3>1
    <3> QED BY <3>2
  <2> QED BY <2>5 DEF cut
<1> QED BY <1>1, <1>2

-----------------------------------------------------------------------------
(* Types *)

LogsOK ==
  /\ pushed \in Nat
  /\ logs \in Seq(1..pushed) /\ serverMessages \in Seq(1..pushed)

\* The server has sent whatever waits to be read.
MailOK ==
  /\ got \in Kinds /\ inbox \in Seq(Kinds)
  /\ sent \in 0..MaxSent /\ Len(inbox) <= sent

ControlOK ==
  /\ process \in {"runs", "closing", "ended", "aborted", "crashed"}
  /\ ui \in {"idle", "connecting", "connected", "shown", "raised", "nick", "typing",
             "sending", "drawing", "gone"}
  /\ state \in {CONNECTED, DISCONNECTED}
  /\ bg \in {"none", "top", "reading", "handling", "ended"}
  /\ bgRunning \in BOOLEAN /\ raced \in BOOLEAN /\ nickLost \in BOOLEAN
  /\ socket \in {"closed", "open", "dead"}
  /\ typed \in 0..MaxTyped

TInv == IInv /\ LogsOK /\ MailOK /\ ControlOK

LEMMA TInvTypes == TInv => TypeOK
BY LogsAssumption DEF TInv, IInv, Running, LogsOK, MailOK, ControlOK, TypeOK

\* What the receiver does to the logs: nothing, or it appends to one of them.
LEMMA HandleAppends ==
  ASSUME Handle
  PROVE  \/ UNCHANGED <<logs, serverMessages, pushed>>
         \/ \E n \in Nat :
              /\ pushed' = pushed + n
              /\ \/ /\ logs' = Pruned(logs, MAX_LOGS) \o Lines(n)
                    /\ UNCHANGED serverMessages
                 \/ /\ logs' = logs \o Lines(n)
                    /\ UNCHANGED serverMessages
                 \/ /\ serverMessages' = Pruned(serverMessages, MAX_SERVER_MSGS) \o Lines(n)
                    /\ UNCHANGED logs
<1>1. CASE got = "ANSWER"
  <2>1. addLog
    BY <1>1 DEF Handle
  <2>2. AnswerLengths \subseteq Nat
    BY LogsAssumption
  <2> QED BY <2>1, <2>2 DEF addLog
<1>2. CASE got = "SERVER"
  <2>1. addServerMsg
    BY <1>2 DEF Handle
  <2> QED BY <2>1, 1..2 \subseteq Nat DEF addServerMsg
<1>3. CASE got = "garbage"
  <2>1. LogError
    BY <1>3 DEF Handle
  <2> QED BY <2>1, 1 \in Nat DEF LogError
<1>4. CASE got \notin {"ANSWER", "SERVER", "garbage"}
  BY <1>4 DEF Handle
<1> QED BY <1>1, <1>2, <1>3, <1>4

\* A step leaves the logs alone, appends to one of them, or is a race.
LEMMA LogSteps ==
  ASSUME [Next]_vars
  PROVE  \/ Tear
         \/ UNCHANGED <<logs, serverMessages, pushed>>
         \/ \E n \in Nat :
              /\ pushed' = pushed + n
              /\ \/ /\ logs' = Pruned(logs, MAX_LOGS) \o Lines(n)
                    /\ UNCHANGED serverMessages
                 \/ /\ logs' = logs \o Lines(n)
                    /\ UNCHANGED serverMessages
                 \/ /\ serverMessages' = Pruned(serverMessages, MAX_SERVER_MSGS) \o Lines(n)
                    /\ UNCHANGED logs
<1>1. CASE Handle
  BY <1>1, HandleAppends
<1>2. CASE Echo
  BY <1>2, 4 \in Nat DEF Echo
<1>3. CASE Connect \/ Connecting \/ Type \/ SendServ \/ Draw \/ CloseWindow
  BY <1>3 DEF Connect, Connecting, ClientConnect, ShowGame, RaiseFlag, Spawn, SendNick,
              Type, SendServ, Draw, CloseWindow, logVars
<1>4. CASE Join \/ Loop \/ Read \/ ServerSends \/ ServerGoes
  BY <1>4 DEF Join, Loop, Read, ServerSends, ServerGoes, logVars
<1>5. CASE UNCHANGED vars
  BY <1>5 DEF vars, logVars
<1> QED BY <1>1, <1>2, <1>3, <1>4, <1>5 DEF Next, Interface, UpdateMsgThread

LEMMA LogsKeep == LogsOK /\ [Next]_vars => LogsOK'
<1> SUFFICES ASSUME LogsOK, [Next]_vars PROVE LogsOK'
  OBVIOUS
<1> USE DEF LogsOK
<1>1. CASE UNCHANGED <<logs, serverMessages, pushed>>
  BY <1>1
<1>2. CASE Tear
  <2>1. CASE UNCHANGED logs
    BY <1>2, <2>1 DEF Tear
  <2>2. ASSUME NEW i \in 1..Len(logs) + 1, logs' = SubSeq(logs, i, Len(logs) - 1)
        PROVE  logs' \in Seq(1..pushed)
    BY <2>2, SubSeqProperties
  <2> QED BY <1>2, <2>1, <2>2 DEF Tear
<1>3. ASSUME NEW n \in Nat, pushed' = pushed + n,
             \/ /\ logs' = Pruned(logs, MAX_LOGS) \o Lines(n)
                /\ UNCHANGED serverMessages
             \/ /\ logs' = logs \o Lines(n)
                /\ UNCHANGED serverMessages
             \/ /\ serverMessages' = Pruned(serverMessages, MAX_SERVER_MSGS) \o Lines(n)
                /\ UNCHANGED logs
      PROVE  LogsOK'
  <2>1. /\ Pruned(logs, MAX_LOGS) \in Seq(1..pushed)
        /\ Pruned(serverMessages, MAX_SERVER_MSGS) \in Seq(1..pushed)
    BY LogsAssumption, PrunedLines
  <2>2. /\ logs \o Lines(n) \in Seq(1..pushed')
        /\ Pruned(logs, MAX_LOGS) \o Lines(n) \in Seq(1..pushed')
        /\ Pruned(serverMessages, MAX_SERVER_MSGS) \o Lines(n) \in Seq(1..pushed')
        /\ logs \in Seq(1..pushed') /\ serverMessages \in Seq(1..pushed')
    BY <1>3, <2>1, NewLines
  <2>3. pushed' \in Nat
    BY <1>3
  <2> QED BY <1>3, <2>2, <2>3
<1> QED BY <1>1, <1>2, <1>3, LogSteps

\* Messages are only lost or taken, but for the one the server sends.
LEMMA MailKeeps == MailOK /\ [Next]_vars => MailOK'
<1> SUFFICES ASSUME MailOK, [Next]_vars PROVE MailOK'
  OBVIOUS
<1> USE DEF MailOK
<1>1. CASE UNCHANGED <<got, inbox, sent>>
  BY <1>1
<1>2. CASE ClientConnect \/ ServerGoes
  <2>1. inbox' \in {inbox, << >>} /\ UNCHANGED <<got, sent>>
    BY <1>2 DEF ClientConnect, ServerGoes
  <2>2. << >> \in Seq(Kinds) /\ Len(<< >>) = 0
    BY EmptySeq
  <2>3. inbox' \in Seq(Kinds) /\ Len(inbox') <= sent
    <3>1. CASE inbox' = inbox
      BY <3>1
    <3>2. CASE inbox' = << >>
      <4>1. Len(inbox') = 0
        BY <3>2, <2>2
      <4> QED BY <3>2, <4>1, <2>2
    <3> QED BY <2>1, <3>1, <3>2
  <2> QED BY <2>1, <2>3
<1>3. CASE ServerSends
  <2>1. PICK m \in Kinds : inbox' = Append(inbox, m)
    BY <1>3 DEF ServerSends
  <2>2. inbox' \in Seq(Kinds) /\ Len(inbox') = Len(inbox) + 1
    BY <2>1, AppendProperties
  <2>3. sent' = sent + 1 /\ sent' \in 0..MaxSent /\ UNCHANGED got
    BY <1>3, LogsAssumption DEF ServerSends
  <2> QED BY <2>2, <2>3
<1>4. CASE Read
  <2>1. UNCHANGED sent
    BY <1>4 DEF Read
  <2>2. CASE inbox # << >> /\ \E n \in 1..Len(inbox) :
               /\ inbox' = SubSeq(inbox, n + 1, Len(inbox))
               /\ got' = IF n = 1 THEN Head(inbox) ELSE "garbage"
    <3>1. PICK n \in 1..Len(inbox) :
               /\ inbox' = SubSeq(inbox, n + 1, Len(inbox))
               /\ got' = IF n = 1 THEN Head(inbox) ELSE "garbage"
      BY <2>2
    <3>2. n + 1 \in 1..Len(inbox) + 1 /\ Len(inbox) \in 0..Len(inbox)
      OBVIOUS
    <3>3. inbox' \in Seq(Kinds) /\ Len(inbox') <= Len(inbox)
      BY <3>1, <3>2, SubSeqProperties
    <3>4. got' \in Kinds
      BY <3>1, <2>2, HeadTailProperties DEF Kinds
    <3>5. Len(inbox') <= sent'
      BY <2>1, <3>3
    <3> QED BY <2>1, <3>3, <3>4, <3>5
  <2>3. CASE inbox # << >> /\ inbox' = [inbox EXCEPT ![1] = "garbage"] /\ got' = "garbage"
    <3>1. inbox' \in Seq(Kinds) /\ Len(inbox') = Len(inbox)
      BY <2>3, ExceptSeq DEF Kinds
    <3> QED BY <2>1, <2>3, <3>1 DEF Kinds
  <2>4. CASE UNCHANGED <<inbox, got>>
    BY <2>1, <2>4
  <2> QED BY <1>4, <2>2, <2>3, <2>4 DEF Read, Takes, Fails
<1>5. CASE Connect \/ ShowGame \/ RaiseFlag \/ Spawn \/ SendNick \/ Type \/ Echo \/ SendServ
              \/ Draw \/ CloseWindow
  BY <1>1, <1>5 DEF Connect, ShowGame, RaiseFlag, Spawn, SendNick, Type, Echo, SendServ,
                    Draw, CloseWindow
<1>6. CASE Join \/ Loop \/ Handle \/ Tear
  BY <1>1, <1>6 DEF Join, Loop, Handle, Tear
<1>7. CASE UNCHANGED vars
  BY <1>1, <1>7 DEF vars
<1> QED BY <1>2, <1>3, <1>4, <1>5, <1>6, <1>7
     DEF Next, Interface, Connecting, UpdateMsgThread

LEMMA ControlKeeps == ControlOK /\ [Next]_vars => ControlOK'
<1> SUFFICES ASSUME ControlOK, [Next]_vars PROVE ControlOK'
  OBVIOUS
<1> USE DEF ControlOK, connVars, logVars, Ui
<1>1. CASE Connecting
  BY <1>1 DEF Connecting, ClientConnect, ShowGame, RaiseFlag, Spawn, SendNick
<1>2. CASE Type
  BY <1>2, LogsAssumption DEF Type
<1>3. CASE Connect \/ Echo \/ SendServ \/ Draw \/ CloseWindow
  BY <1>3 DEF Connect, Echo, SendServ, Draw, CloseWindow
<1>4. CASE Join \/ Loop \/ Tear
  BY <1>4 DEF Join, Loop, Tear
<1>5. CASE Read
  <2>1. bg' \in {"handling", "top"}
    BY <1>5 DEF Read, Takes, Fails
  <2> QED BY <1>5, <2>1 DEF Read
<1>6. CASE Handle
  <2>1. bg' = "top"
    BY <1>6 DEF Handle, AfterMessage
  <2> QED BY <1>6, <2>1 DEF Handle
<1>7. CASE ServerSends \/ ServerGoes
  BY <1>7 DEF ServerSends, ServerGoes
<1>8. CASE UNCHANGED vars
  BY <1>8 DEF vars
<1> QED BY <1>1, <1>2, <1>3, <1>4, <1>5, <1>6, <1>7, <1>8
     DEF Next, Interface, UpdateMsgThread

LEMMA InitTInv == Init => TInv
<1> SUFFICES ASSUME Init PROVE TInv
  OBVIOUS
<1>1. << >> \in Seq(Kinds) /\ << >> \in Seq(1..0) /\ Len(<< >>) = 0
  BY EmptySeq
<1>2. LogsOK
  BY <1>1 DEF Init, LogsOK
<1>3. MailOK
  <2>1. Len(inbox) <= sent /\ sent \in 0..MaxSent
    BY <1>1, LogsAssumption DEF Init
  <2> QED BY <1>1, <2>1 DEF Init, MailOK, Kinds
<1>4. ControlOK
  <2>1. typed \in 0..MaxTyped
    BY LogsAssumption DEF Init
  <2> QED BY <2>1 DEF Init, ControlOK
<1> QED BY InitIInv, <1>2, <1>3, <1>4 DEF TInv

LEMMA NextTInv == TInv /\ [Next]_vars => TInv'
BY NextIInv, LogsKeep, MailKeeps, ControlKeeps DEF TInv

\* Whatever arrives and however it is cut apart, no variable of the client takes
\* a value that another part of it does not expect, and only a receiver that was
\* told to run exists (main.cpp:84-147).
THEOREM ClientTypeCorrect == Spec => []TypeOK
BY InitTInv, NextTInv, TInvTypes, PTL DEF Spec

\* For any limit of the logs, and any length of the answers: while the threads
\* have not met in the logs, cutting a log takes away none of the newest lines
\* (Parser.h:84-91, 955-960).
THEOREM NewestLinesStay == Spec => NewestStay
<1>1. TInv /\ [Next]_vars =>
        [~raced' => /\ KeepsNewest(logs, logs', MAX_LOGS)
                    /\ KeepsNewest(serverMessages, serverMessages', MAX_SERVER_MSGS)]_vars
  <2> SUFFICES ASSUME TInv, [Next]_vars, ~raced'
               PROVE  /\ KeepsNewest(logs, logs', MAX_LOGS)
                      /\ KeepsNewest(serverMessages, serverMessages', MAX_SERVER_MSGS)
    OBVIOUS
  <2> USE DEF TInv, LogsOK
  <2>1. KeepsNewest(logs, logs, MAX_LOGS)
        /\ KeepsNewest(serverMessages, serverMessages, MAX_SERVER_MSGS)
    BY DEF KeepsNewest
  <2>2. ~Tear
    BY DEF Tear
  <2>3. CASE UNCHANGED <<logs, serverMessages, pushed>>
    BY <2>1, <2>3
  <2>4. ASSUME NEW n \in Nat
        PROVE  /\ KeepsNewest(logs, Pruned(logs, MAX_LOGS) \o Lines(n), MAX_LOGS)
               /\ KeepsNewest(logs, logs \o Lines(n), MAX_LOGS)
               /\ KeepsNewest(serverMessages,
                    Pruned(serverMessages, MAX_SERVER_MSGS) \o Lines(n), MAX_SERVER_MSGS)
    BY LogsAssumption, AppendKeepsNewest
  <2> QED BY <2>1, <2>2, <2>3, <2>4, LogSteps
<1>2. Spec => []TInv
  BY InitTInv, NextTInv, PTL DEF Spec
<1> QED BY <1>1, <1>2, PTL DEF Spec, NewestStay
=============================================================================
