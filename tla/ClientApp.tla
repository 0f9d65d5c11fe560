----------------------------- MODULE ClientApp -----------------------------
(***************************************************************************)
(* The client: the interface thread, which connects, echoes and sends what *)
(* the user types and draws the window; the receiver thread, which reads   *)
(* the server's messages and appends them to the two logs; and main, which *)
(* waits for both (Client/main.cpp, Client.cpp, and the logs of Parser.h). *)
(* mtx is left out: only the interface thread ever takes it.               *)
(***************************************************************************)
EXTENDS Integers, Sequences

CONSTANTS
  MAX_LOGS,          \* lines a log is cut to before an answer is added
  MAX_SERVER_MSGS,   \* the same for the notices of the server
  AnswerLengths,     \* lines an answer may take, the separator's included
  MaxTyped,          \* bound: commands typed
  MaxSent,           \* bound: messages of the server
  CONNECTED, DISCONNECTED

ASSUME LogsAssumption ==
  /\ MAX_LOGS \in Nat \ {0} /\ MAX_SERVER_MSGS \in Nat \ {0}
  /\ AnswerLengths \subseteq Nat \ {0}
  /\ MaxTyped \in Nat /\ MaxSent \in Nat
  /\ CONNECTED # DISCONNECTED

VARIABLES
  process,      \* "runs", "closing" (the window is closed), or how it ended
  state,        \* what the window shows: the login form or the game
  ui,           \* where the interface thread is
  bgRunning,
  bg,           \* where the receiver is; "none": bg is not joinable
  got,          \* what the receiver has read
  socket,       \* "closed", "open", or "dead": a descriptor without a peer
  inbox,        \* what the server has sent and the client has not read
  logs, serverMessages,   \* lines by number: they are numbered as they are pushed
  pushed,       \* lines pushed so far
  typed, sent,  \* counters of the bounds
  raced,        \* history: two threads have been in the logs at a time
  nickLost      \* history: the nickname could not be sent

connVars == <<state, bgRunning, socket, nickLost>>
logVars == <<logs, serverMessages, pushed, raced>>
vars == <<process, ui, bg, got, inbox, typed, sent, connVars, logVars>>

Kinds == {"ANSWER", "MAP", "SERVER", "garbage"}
Alive == process \in {"runs", "closing"}
Listening == bg \in {"top", "reading", "handling"}

Init ==
  /\ process = "runs" /\ ui = "idle" /\ state = DISCONNECTED
  /\ bgRunning = FALSE /\ bg = "none" /\ got = "garbage"
  /\ socket = "closed" /\ inbox = << >>
  /\ logs = << >> /\ serverMessages = << >> /\ pushed = 0
  /\ typed = 0 /\ sent = 0 /\ raced = FALSE /\ nickLost = FALSE

(***************************************************************************)
(* The lines of the logs.                                                  *)
(***************************************************************************)
Lines(n) == [i \in 1..n |-> pushed + i]

\* Plausible bug: what is cut are the newest lines.
Mut_CutsNewest(log, max) ==
  IF Len(log) > max THEN SubSeq(log, 1, max) ELSE log

Pruned(log, max) ==
  IF Len(log) > max THEN SubSeq(log, Len(log) - max + 1, Len(log)) ELSE log

addLog == \E n \in AnswerLengths :
  /\ logs' = Pruned(logs, MAX_LOGS) \o Lines(n)
  /\ pushed' = pushed + n
  /\ UNCHANGED serverMessages

addServerMsg == \E n \in 1..2 :
  /\ serverMessages' = Pruned(serverMessages, MAX_SERVER_MSGS) \o Lines(n)
  /\ pushed' = pushed + n
  /\ UNCHANGED logs

\* The handler of the exception appends without cutting.
LogError ==
  /\ logs' = logs \o Lines(1) /\ pushed' = pushed + 1
  /\ UNCHANGED serverMessages

(***************************************************************************)
(* The interface thread. Connect is taken apart, since the receiver runs   *)
(* from the middle of it on; an exception of client.Connect or of the first*)
(* Send ends it in its handler.                                            *)
(***************************************************************************)
Ui(from, to) == process = "runs" /\ ui = from /\ ui' = to

\* Plausible bug: Connect does not look at the state.
Mut_AlwaysConnects == TRUE

MayConnect == state # CONNECTED

Connect ==
  /\ Ui("idle", "connecting") /\ MayConnect
  /\ UNCHANGED <<process, bg, got, inbox, typed, sent, connVars, logVars>>

\* A name that is not resolved leaves the socket alone; asio::connect closes it
\* and leaves an open one even when nobody accepts.
ClientConnect ==
  /\ \/ /\ Ui("connecting", "connected")
        /\ socket' = "open" /\ inbox' = << >>
        /\ UNCHANGED state
     \/ /\ Ui("connecting", "idle")
        /\ state' = DISCONNECTED
        /\ \/ UNCHANGED <<socket, inbox>>
           \/ socket' = "dead" /\ inbox' = << >>
  /\ UNCHANGED <<process, bg, got, typed, sent, bgRunning, nickLost, logVars>>

ShowGame ==
  /\ Ui("connected", "shown") /\ state' = CONNECTED
  /\ UNCHANGED <<process, bg, got, inbox, typed, sent, bgRunning, socket, nickLost,
                 logVars>>

\* Plausible bug: the thread is made and the flag forgotten.
Mut_ForgetsFlag ==
  /\ Ui("shown", "raised")
  /\ UNCHANGED <<process, bg, got, inbox, typed, sent, connVars, logVars>>

RaiseFlag ==
  /\ Ui("shown", "raised") /\ bgRunning' = TRUE
  /\ UNCHANGED <<process, bg, got, inbox, typed, sent, state, socket, nickLost, logVars>>

\* Assigning to a std::thread that is joinable ends the program.
Spawn ==
  /\ IF bg = "none"
     THEN Ui("raised", "nick") /\ bg' = "top" /\ UNCHANGED process
     ELSE Ui("raised", "gone") /\ process' = "aborted" /\ UNCHANGED bg
  /\ UNCHANGED <<got, inbox, typed, sent, connVars, logVars>>

SendNick ==
  /\ Ui("nick", "idle")
  /\ \/ socket # "closed" /\ UNCHANGED <<state, nickLost>>
     \/ socket # "open" /\ state' = DISCONNECTED /\ nickLost' = TRUE
  /\ UNCHANGED <<process, bg, got, inbox, typed, sent, bgRunning, socket, logVars>>

\* Return on a command: it is echoed, three lines and itself, and sent.
Type ==
  /\ Ui("idle", "typing") /\ typed < MaxTyped
  /\ typed' = typed + 1
  /\ UNCHANGED <<process, bg, got, inbox, sent, connVars, logVars>>

Echo ==
  /\ Ui("typing", "sending")
  /\ logs' = logs \o Lines(4) /\ pushed' = pushed + 4
  /\ UNCHANGED <<process, bg, got, inbox, typed, sent, connVars, serverMessages, raced>>

\* What cannot be sent is dropped: the exception is caught and nothing changes.
SendServ ==
  /\ Ui("sending", "idle")
  /\ UNCHANGED <<process, bg, got, inbox, typed, sent, connVars, logVars>>

Draw ==
  /\ Ui("idle", "drawing") \/ Ui("drawing", "idle")
  /\ UNCHANGED <<process, bg, got, inbox, typed, sent, connVars, logVars>>

(***************************************************************************)
(* The end: the loop of the window is left, MainThread returns, and main   *)
(* joins the receiver if there is one. Nobody clears bgRunning.            *)
(***************************************************************************)
CloseWindow ==
  /\ Ui("idle", "gone") /\ process' = "closing"
  /\ UNCHANGED <<bg, got, inbox, typed, sent, connVars, logVars>>

\* A receiver that does not exist is not waited for.
Joined == bg \in {"none", "ended"}

Join ==
  /\ process = "closing" /\ Joined
  /\ process' = "ended"
  /\ UNCHANGED <<ui, bg, got, inbox, typed, sent, connVars, logVars>>

(***************************************************************************)
(* The receiver. One read is taken for one message: several that arrive    *)
(* together, or a part of one, do not parse. An error of the read is       *)
(* ignored: the thread reads again.                                        *)
(***************************************************************************)
Loop ==
  /\ Alive /\ bg = "top"
  /\ IF bgRunning THEN socket # "closed" /\ bg' = "reading" ELSE bg' = "ended"
  /\ UNCHANGED <<process, ui, got, inbox, typed, sent, connVars, logVars>>

Takes ==
  \/ /\ inbox # << >>
     /\ \E n \in 1..Len(inbox) :
          /\ inbox' = SubSeq(inbox, n + 1, Len(inbox))
          /\ got' = IF n = 1 THEN Head(inbox) ELSE "garbage"
     /\ bg' = "handling"
  \/ /\ inbox # << >> /\ Head(inbox) # "garbage"
     /\ inbox' = [inbox EXCEPT ![1] = "garbage"]
     /\ got' = "garbage" /\ bg' = "handling"

\* Plausible bug: an error of the read ends the thread.
Mut_EndsOnError ==
  /\ inbox = << >> /\ socket # "open"
  /\ bg' = "ended" /\ UNCHANGED <<inbox, got>>

Fails ==
  /\ inbox = << >> /\ socket # "open"
  /\ bg' = "top" /\ UNCHANGED <<inbox, got>>

Read ==
  /\ Alive /\ bg = "reading"
  /\ Takes \/ Fails
  /\ UNCHANGED <<process, ui, typed, sent, connVars, logVars>>

\* Plausible bug: what does not parse ends the thread.
Mut_EndsOnGarbage == IF got = "garbage" THEN "ended" ELSE "top"

AfterMessage == "top"

Handle ==
  /\ Alive /\ bg = "handling"
  /\ CASE got = "ANSWER" -> addLog
       [] got = "SERVER" -> addServerMsg
       [] got = "garbage" -> LogError
       [] OTHER -> UNCHANGED <<logs, serverMessages, pushed>>
  /\ bg' = AfterMessage
  /\ UNCHANGED <<process, ui, got, inbox, typed, sent, connVars, raced>>

\* The threads share the logs and the map without a lock: the window is drawn,
\* or a command echoed, while a message is added. The outcomes of this race:
\* lines are lost, or the program crashes.
Overlap ==
  /\ bg = "handling"
  /\ ui = "drawing" \/ (ui = "typing" /\ got \in {"ANSWER", "garbage"})

Tear ==
  /\ Alive /\ Overlap /\ ~raced /\ raced' = TRUE
  /\ \/ process' = "crashed" /\ UNCHANGED logs
     \/ /\ \E i \in 1..Len(logs) + 1 : logs' = SubSeq(logs, i, Len(logs) - 1)
        /\ UNCHANGED process
  /\ UNCHANGED <<ui, bg, got, inbox, typed, sent, connVars, serverMessages, pushed>>

(***************************************************************************)
(* The server (external): it sends, and it may go away.                    *)
(***************************************************************************)
ServerSends ==
  /\ Alive /\ socket = "open" /\ sent < MaxSent
  /\ \E m \in Kinds \ {"garbage"} : inbox' = Append(inbox, m)
  /\ sent' = sent + 1
  /\ UNCHANGED <<process, ui, bg, got, typed, connVars, logVars>>

ServerGoes ==
  /\ Alive /\ socket = "open" /\ socket' = "dead"
  /\ inbox' \in {inbox, << >>}
  /\ UNCHANGED <<process, ui, bg, got, typed, sent, state, bgRunning, nickLost, logVars>>

Connecting == ClientConnect \/ ShowGame \/ RaiseFlag \/ Spawn \/ SendNick
Interface == Connect \/ Connecting \/ Type \/ Echo \/ SendServ \/ Draw \/ CloseWindow
UpdateMsgThread == Loop \/ Read \/ Handle

Next ==
  \/ Interface \/ Join
  \/ UpdateMsgThread \/ Tear
  \/ ServerSends \/ ServerGoes

Spec == Init /\ [][Next]_vars

\* What a thread has begun it goes on with; nobody has to press a key.
FairSpec ==
  /\ Spec
  /\ WF_vars(Connecting \/ Echo \/ SendServ) /\ WF_vars(Join)
  /\ WF_vars(UpdateMsgThread)

-----------------------------------------------------------------------------
\* Every variable has its type, and a receiver was told to run.
TypeOK ==
  /\ process \in {"runs", "closing", "ended", "aborted", "crashed"}
  /\ ui \in {"idle", "connecting", "connected", "shown", "raised", "nick", "typing",
             "sending", "drawing", "gone"}
  /\ state \in {CONNECTED, DISCONNECTED}
  /\ bg \in {"none", "top", "reading", "handling", "ended"}
  /\ bg # "none" => bgRunning
  /\ bgRunning \in BOOLEAN /\ raced \in BOOLEAN /\ nickLost \in BOOLEAN
  /\ got \in Kinds /\ inbox \in Seq(Kinds) /\ Len(inbox) <= MaxSent
  /\ socket \in {"closed", "open", "dead"}
  /\ logs \in Seq(1..pushed) /\ serverMessages \in Seq(1..pushed)
  /\ typed \in 0..MaxTyped /\ sent \in 0..MaxSent /\ pushed \in Nat

\* Whoever sees the game is listened for: when Connect is over and the window
\* shows the game, the receiver is in its loop (main.cpp:96-99).
Listens == process = "runs" /\ ui = "idle" /\ state = CONNECTED => Listening

\* The client ends itself only on the path of main.cpp:98: the nickname of an
\* earlier Connect could not be sent, which left a receiver and a login form.
AbortsAfterLostNick == process = "aborted" => nickLost

\* As long as the threads have not met in the logs, no step takes away one of
\* the newest lines: cutting a log keeps its last MAX_LOGS (Parser.h:84-91) or
\* MAX_SERVER_MSGS (Parser.h:955-960), whoever appended them.
KeepsNewest(old, new, max) ==
  \A i \in 1..Len(old) : i > Len(old) - max => \E j \in 1..Len(new) : new[j] = old[i]

NewestStay ==
  [][~raced' => /\ KeepsNewest(logs, logs', MAX_LOGS)
                /\ KeepsNewest(serverMessages, serverMessages', MAX_SERVER_MSGS)]_vars

\* What the server sends is read, even after messages that did not parse, after
\* a lost connection and after the window is closed (main.cpp:118-147).
Drains == inbox # << >> ~> (inbox = << >> \/ ~Alive)
=============================================================================
