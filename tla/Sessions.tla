------------------------------ MODULE Sessions ------------------------------
(***************************************************************************)
(* Sessions and the players they are bound to: src/Server/Session.cpp, the *)
(* acceptor of src/Server/Server.cpp, and the commands gen and reset of    *)
(* src/Server/main.cpp that replace the game under them.                   *)
(*                                                                         *)
(* The handlers of all sessions run one after the other on the thread that *)
(* polls, but the terminal thread holds another mutex than the handlers    *)
(* do, so a handler is a sequence of steps here, and the terminal may take *)
(* its own between any two of them.                                        *)
(*                                                                         *)
(* A session holds its Player by a weak pointer.  The game owns players;   *)
(* so does the enemy a player fights, which that player owns in turn: a    *)
(* player in battle outlives a game that is replaced.  An object that      *)
(* nothing owns is gone, and a weak pointer to it has expired (NoObject).  *)
(* The model drops a player that only its enemy owns and no session points *)
(* to: it stays in memory, and nothing will see it again.                  *)
(*                                                                         *)
(* A read takes everything that has arrived for one nickname or command,   *)
(* so a nickname is any text: what coalesces is one more nickname.  TCP    *)
(* never completes a read of no bytes, and the test for it is left out.    *)
(***************************************************************************)
EXTENDS Naturals, FiniteSets

CONSTANTS
  MaxSessions,  \* Bound: connections that are ever accepted
  Nicks,        \* nicknames people type
  MaxObjects,   \* Bound: Player objects at a time
  Commands,     \* what the operator types while the server runs
  NoSession, NoNick, NoObject

Sessions == 1..MaxSessions   \* in the order of allSessions
Objects  == 1..MaxObjects

ASSUME SentinelAssumption ==
  /\ MaxSessions \in Nat /\ MaxObjects \in Nat
  /\ NoSession \notin Nat /\ NoNick \notin Nicks /\ NoObject \notin Nat
  /\ Commands \subseteq {"gen", "reset"}

VARIABLES
  \* connections
  peer,          \* the other end is there: FALSE once it has closed
  sent,          \* something has arrived and is not read yet
  \* sessions
  phase,         \* the read a session waits in: firstTime's or read's
  sessionPlayer, \* the weak pointer, NoObject when empty or expired
  \* the game
  players,       \* gamedata.players
  username,      \* Player::username, NoNick where there is no object
  inSession,     \* players whose isInSession is set
  fighting,      \* players in battle: kept alive by their enemy
  nowhere,       \* players whose location is a null pointer
  floors,        \* gamedata.floors is not empty
  isGenerated,
  \* the server thread
  serverRunning,
  server,        \* "polling", "stopped", or "crashed" together with the terminal
  handler,       \* the next step of the handler that runs
  current,       \* its session
  nickname,      \* the nickname firstTime has read
  \* the terminal thread
  terminal,      \* the next step of its command
  toReset        \* sessions reset has still to walk

connVars == <<peer, sent>>
gameVars == <<players, username, inSession, fighting, nowhere, floors, isGenerated>>
handlerVars == <<handler, current, nickname>>
terminalVars == <<terminal, toReset, serverRunning>>
vars == <<connVars, phase, sessionPlayer, gameVars, server, handlerVars, terminalVars>>

-----------------------------------------------------------------------------
(* Helpers *)

Live(s) == phase[s] \in {"firstTime", "read"}
Expired(s) == sessionPlayer[s] = NoObject
Named(n) == {o \in players : username[o] = n}

\* The objects of S are left without an owner
Vanish(S) ==
  /\ username' = [o \in Objects |-> IF o \in S THEN NoNick ELSE username[o]]
  /\ sessionPlayer' = [s \in Sessions |-> IF sessionPlayer[s] \in S THEN NoObject ELSE sessionPlayer[s]]
  /\ inSession' = inSession \ S /\ nowhere' = nowhere \ S

\* Session s points to no player any longer
LetGo(s) ==
  LET leaked == {sessionPlayer[s]} \cap (fighting \ players) IN
  /\ sessionPlayer' = [sessionPlayer EXCEPT ![s] = NoObject]
  /\ fighting' = fighting \ leaked
  /\ username' = [o \in Objects |-> IF o \in leaked THEN NoNick ELSE username[o]]

\* The battle of o ends
EndBattle(o) == fighting' = fighting \ {o} /\ Vanish({o} \ players)

\* the terminal thread is inside of gamedata = GameData()
Replacing == terminal \in {"gen", "reset"}

Running(step) == server = "polling" /\ handler = step

\* A null pointer, a torn vector or an exception that leaves poll()
Crash ==
  /\ server' = "crashed"
  /\ UNCHANGED <<connVars, phase, sessionPlayer, gameVars, handlerVars, terminalVars>>

\* The handler goes on with another step, or is over
Goto(step) == handler' = step /\ UNCHANGED <<current, nickname, server>>
Mut_ForgetsNothing == handler' = "none" /\ UNCHANGED <<current, nickname, server>>
Finish == handler' = "none" /\ current' = NoSession /\ nickname' = NoNick /\ UNCHANGED server

\* asio::write without an error code: it may throw once the other end is gone
MayThrow(s) == ~peer[s]

\* What another thread is writing at this moment
MayTear == Replacing \/ terminal = "sessions"

-----------------------------------------------------------------------------
(* The other ends of the connections *)

netIdle == <<sessionPlayer, gameVars, server, handlerVars, terminalVars>>

Send(s) ==
  /\ server = "polling" /\ Live(s) /\ peer[s] /\ ~sent[s]
  /\ sent' = [sent EXCEPT ![s] = TRUE]
  /\ UNCHANGED <<peer, phase, netIdle>>

\* The program is closed, or the network is lost
Close(s) ==
  /\ server = "polling" /\ Live(s) /\ peer[s]
  /\ peer' = [peer EXCEPT ![s] = FALSE]
  /\ UNCHANGED <<sent, phase, netIdle>>

-----------------------------------------------------------------------------
(* Session::firstTime *)

Accept(s) ==
  /\ Running("none") /\ phase[s] = "new"
  /\ \A t \in 1..(s - 1) : phase[t] # "new"
  /\ phase' = [phase EXCEPT ![s] = "firstTime"]
  /\ peer' = [peer EXCEPT ![s] = TRUE]
  /\ UNCHANGED <<sent, netIdle>>

Begin(s, step, nick) ==
  /\ sent' = [sent EXCEPT ![s] = FALSE]
  /\ handler' = step /\ current' = s /\ nickname' = nick
  /\ UNCHANGED <<peer, server, gameVars, terminalVars>>

FirstTime(s, n) ==
  /\ Running("none") /\ phase[s] = "firstTime" /\ sent[s]
  /\ Begin(s, IF isGenerated THEN "search" ELSE "refuse", n)
  /\ UNCHANGED <<phase, sessionPlayer>>

\* Whether the nickname is taken: by a player that is in a session
Mut_SeesNobody(n) == FALSE
Taken(n) == Named(n) \cap inSession # {}

Search ==
  /\ Running("search")
  /\ Goto(IF Named(nickname) = {} THEN "spawn" ELSE IF Taken(nickname) THEN "refuse" ELSE "bind")
  /\ UNCHANGED <<connVars, phase, sessionPlayer, gameVars, terminalVars>>

\* The second loop over the players: the one found may be gone by now
Bind ==
  /\ Running("bind")
  /\ \/ /\ Named(nickname) = {}
        /\ UNCHANGED <<sessionPlayer, inSession>>
     \/ \E o \in Named(nickname) :
          /\ sessionPlayer' = [sessionPlayer EXCEPT ![current] = o]
          /\ inSession' = inSession \cup {o}
  /\ Goto("look")
  /\ UNCHANGED <<connVars, phase, players, username, fighting, nowhere, floors, isGenerated, terminalVars>>

\* Game::SpawnPlayer: a new object, nowhere when there are no floors
Spawn ==
  /\ Running("spawn")
  /\ \E o \in Objects :
       /\ username[o] = NoNick
       /\ \A q \in 1..(o - 1) : username[q] # NoNick
       /\ username' = [username EXCEPT ![o] = nickname]
       /\ players' = players \cup {o}
       /\ inSession' = inSession \ {o}
       /\ nowhere' = IF floors THEN nowhere \ {o} ELSE nowhere \cup {o}
       /\ sessionPlayer' = [sessionPlayer EXCEPT ![current] = o]
  /\ Goto("mark")
  /\ UNCHANGED <<connVars, phase, fighting, floors, isGenerated, terminalVars>>

\* sessionPlayer.lock()->isInSession = true
Mark ==
  /\ Running("mark")
  /\ IF Expired(current) THEN Crash
     ELSE /\ inSession' = inSession \cup {sessionPlayer[current]}
          /\ Goto("look")
          /\ UNCHANGED <<connVars, phase, sessionPlayer, players, username, fighting, nowhere, floors,
                         isGenerated, terminalVars>>

\* The first Look, its answer, and the first read(). Without a player no read is
\* begun, which ends the session.
Look ==
  /\ Running("look")
  /\ IF ~Expired(current) /\ sessionPlayer[current] \in nowhere THEN Crash
     ELSE /\ phase' = [phase EXCEPT ![current] = IF Expired(current) THEN "ended" ELSE "read"]
          /\ Finish
          /\ UNCHANGED <<connVars, sessionPlayer, gameVars, terminalVars>>

\* The error is written; firstTime waits for the next nickname
Refuse ==
  /\ Running("refuse")
  /\ Finish
  /\ UNCHANGED <<connVars, phase, sessionPlayer, gameVars, terminalVars>>

-----------------------------------------------------------------------------
(* Session::read *)

Read(s) ==
  /\ Running("none") /\ phase[s] = "read" /\ sent[s]
  /\ Begin(s, IF Expired(s) THEN "lost" ELSE "check", NoNick)
  /\ UNCHANGED <<phase, sessionPlayer>>

\* gamedata.players.size() != 0
Mut_ServesAnyway == TRUE
AnyPlayers == players # {}

Check ==
  /\ Running("check")
  /\ Goto(IF AnyPlayers THEN "parse" ELSE "lost")
  /\ UNCHANGED <<connVars, phase, sessionPlayer, gameVars, terminalVars>>

\* "Your player was lost in a restart": back to firstTime
Lost ==
  /\ Running("lost")
  /\ LetGo(current)
  /\ phase' = [phase EXCEPT ![current] = "firstTime"]
  /\ Finish
  /\ UNCHANGED <<connVars, players, inSession, nowhere, floors, isGenerated, terminalVars>>

\* Game::ParseCommand, of which only battles matter here
Parse ==
  LET o == sessionPlayer[current] IN
  /\ Running("parse")
  /\ IF Expired(current) THEN Crash
     ELSE /\ \/ UNCHANGED <<fighting, username, sessionPlayer, inSession, nowhere>>
             \/ /\ o \in players /\ fighting' = fighting \cup {o}
                /\ UNCHANGED <<username, sessionPlayer, inSession, nowhere>>
             \/ EndBattle(o)
          /\ Goto("answer")
          /\ UNCHANGED <<connVars, phase, players, floors, isGenerated, terminalVars>>

Answer ==
  /\ Running("answer")
  /\ Finish
  /\ UNCHANGED <<connVars, phase, sessionPlayer, gameVars, terminalVars>>

\* The steps that write to their session, and the one that may write to all of
\* them (Server::sendChatMessage, to whoever has a player)
Thrown ==
  /\ \/ /\ handler \in {"refuse", "lost", "answer"} \/ (handler = "look" /\ ~Expired(current))
        /\ MayThrow(current)
     \/ /\ handler = "parse"
        /\ \E s \in Sessions : Live(s) /\ ~Expired(s) /\ MayThrow(s)
  /\ server = "polling"
  /\ Crash

\* A step that reads what the terminal thread is writing
Torn ==
  /\ MayTear /\ server = "polling"
  /\ handler \in {"search", "bind", "spawn", "mark", "look", "check", "parse"}
  /\ Crash

-----------------------------------------------------------------------------
(* The end of a session, and the timers *)

\* The read fails: nothing holds the session any longer, and its destructor runs
Mut_KeepsPlayer(s) == inSession
Released(s) == inSession \ {sessionPlayer[s]}

Mut_WaitsForNick(s) == [phase EXCEPT ![s] = "firstTime"]
Destroyed(s) == [phase EXCEPT ![s] = "ended"]

End(s) ==
  /\ Running("none") /\ Live(s) /\ ~peer[s] /\ ~sent[s]
  /\ phase' = Destroyed(s)
  /\ inSession' = Released(s)
  /\ LetGo(s)
  /\ UNCHANGED <<connVars, players, nowhere, floors, isGenerated, server, handlerVars, terminalVars>>

\* checkPlayersSamosbor kills who is outside of the shelters: its battle is over
SamosborKills(s) ==
  /\ Running("none") /\ Live(s) /\ isGenerated
  /\ sessionPlayer[s] \in fighting
  /\ EndBattle(sessionPlayer[s])
  /\ UNCHANGED <<connVars, phase, players, floors, isGenerated, server, handlerVars, terminalVars>>

PollReturns ==
  /\ Running("none") /\ ~serverRunning
  /\ server' = "stopped"
  /\ UNCHANGED <<connVars, phase, sessionPlayer, gameVars, handlerVars, terminalVars>>

-----------------------------------------------------------------------------
(* The terminal *)

terminalIdle == <<connVars, phase, fighting, server, handlerVars>>
objectVars == <<username, sessionPlayer, inSession, nowhere>>

Types(command) == server = "polling" /\ terminal = "prompt" /\ command \in Commands
Continues(step) == server # "crashed" /\ terminal = step

Gen ==
  /\ Types("gen")
  /\ terminal' = "gen"
  /\ UNCHANGED <<terminalIdle, objectVars, players, floors, isGenerated, serverRunning, toReset>>

Reset ==
  /\ Types("reset") /\ serverRunning
  /\ terminal' = "reset" /\ serverRunning' = FALSE
  /\ UNCHANGED <<terminalIdle, objectVars, players, floors, isGenerated, toReset>>

\* gamedata = GameData() is over: only who fights is still an object.
\* GenerateGame goes on if no game was generated.
Replaced ==
  LET held == {o \in fighting : \E s \in Sessions : sessionPlayer[s] = o} IN
  /\ Continues("gen") \/ Continues("reset")
  /\ players' = {} /\ floors' = FALSE
  /\ Vanish(players \ held) /\ fighting' = fighting \cap held
  /\ terminal' = IF terminal = "reset" THEN "ungenerate"
                 ELSE IF isGenerated THEN "prompt" ELSE "generate"
  /\ UNCHANGED <<connVars, phase, server, handlerVars, isGenerated, serverRunning, toReset>>

Generate ==
  /\ Continues("generate")
  /\ floors' = TRUE /\ isGenerated' = TRUE
  /\ terminal' = "prompt"
  /\ UNCHANGED <<terminalIdle, objectVars, players, serverRunning, toReset>>

Ungenerate ==
  /\ Continues("ungenerate")
  /\ isGenerated' = FALSE
  /\ terminal' = "sessions" /\ toReset' = {s \in Sessions : Live(s)}
  /\ UNCHANGED <<terminalIdle, objectVars, players, floors, serverRunning>>

ResetSession(s) ==
  /\ Continues("sessions") /\ s \in toReset
  /\ LetGo(s)
  /\ toReset' = toReset \ {s}
  /\ UNCHANGED <<connVars, phase, server, handlerVars, inSession, nowhere, players, floors, isGenerated,
                 serverRunning, terminal>>

Unlock ==
  /\ Continues("sessions") /\ toReset = {}
  /\ terminal' = "prompt"
  /\ UNCHANGED <<terminalIdle, objectVars, players, floors, isGenerated, serverRunning, toReset>>

-----------------------------------------------------------------------------

\* 'start' has been typed and the server thread polls
Init ==
  /\ peer = [s \in Sessions |-> FALSE] /\ sent = [s \in Sessions |-> FALSE]
  /\ phase = [s \in Sessions |-> "new"]
  /\ sessionPlayer = [s \in Sessions |-> NoObject]
  /\ players = {} /\ inSession = {} /\ fighting = {} /\ nowhere = {}
  /\ username = [o \in Objects |-> NoNick]
  /\ floors = TRUE /\ isGenerated = TRUE
  /\ server = "polling" /\ serverRunning = TRUE
  /\ handler = "none" /\ current = NoSession /\ nickname = NoNick
  /\ terminal = "prompt" /\ toReset = {}

Peer(s) == Send(s) \/ Close(s)

HandlerBegins(s) == Accept(s) \/ (\E n \in Nicks : FirstTime(s, n)) \/ Read(s) \/ End(s)

HandlerGoesOn ==
  \/ Search \/ Bind \/ Spawn \/ Mark \/ Look \/ Refuse
  \/ Check \/ Lost \/ Parse \/ Answer \/ Thrown \/ Torn

Terminal ==
  \/ Gen \/ Reset \/ Replaced \/ Generate \/ Ungenerate \/ Unlock
  \/ \E s \in Sessions : ResetSession(s)

Next ==
  \/ \E s \in Sessions : Peer(s) \/ HandlerBegins(s) \/ SamosborKills(s)
  \/ HandlerGoesOn \/ PollReturns \/ Terminal

Spec == Init /\ [][Next]_vars

\* A handler that has begun goes on, and a poll() reaches every session that has
\* something to read or has come to its end, however busy the others are.
FairSpec ==
  /\ Spec
  /\ WF_vars(HandlerGoesOn)
  /\ \A s \in Sessions : SF_vars(HandlerBegins(s) /\ ~Accept(s))

-----------------------------------------------------------------------------
(* What is always true *)

Steps == {"none", "search", "refuse", "bind", "spawn", "mark", "look", "lost", "check", "parse", "answer"}

TypeOK ==
  /\ peer \in [Sessions -> BOOLEAN] /\ sent \in [Sessions -> BOOLEAN]
  /\ phase \in [Sessions -> {"new", "firstTime", "read", "ended"}]
  /\ sessionPlayer \in [Sessions -> Objects \cup {NoObject}]
  /\ username \in [Objects -> Nicks \cup {NoNick}]
  /\ players \subseteq Objects /\ inSession \subseteq Objects
  /\ fighting \subseteq Objects /\ nowhere \subseteq Objects
  /\ {floors, isGenerated, serverRunning} \subseteq BOOLEAN
  /\ server \in {"polling", "stopped", "crashed"}
  /\ handler \in Steps
  /\ current \in Sessions \cup {NoSession} /\ nickname \in Nicks \cup {NoNick}
  /\ (handler = "none") = (current = NoSession)
  /\ terminal \in {"prompt", "gen", "reset", "generate", "ungenerate", "sessions"}
  /\ toReset \subseteq Sessions

\* What the operator has not stopped
Serving == server = "polling" /\ serverRunning

\* No two sessions play one player, and no two players have one nickname:
\* however many people ask for it at once, and though players come back.
Exclusive ==
  /\ \A s, t \in Sessions : s # t /\ Live(s) /\ Live(t) /\ ~Expired(s) => sessionPlayer[s] # sessionPlayer[t]
  /\ \A o, q \in players : username[o] = username[q] => o = q

\* Between handlers a player is marked as playing if and only if a session that
\* has not ended plays it: nobody is locked out of their own player, and nobody
\* is let into that of another.
NobodyLockedOut ==
  Serving /\ handler = "none" =>
    \A o \in players : o \in inSession <=> \E s \in Sessions : Live(s) /\ sessionPlayer[s] = o

-----------------------------------------------------------------------------
(* What a step may never do *)

\* A command is let through only for a player of the present game. What read()
\* tests is that the game has any players: one that outlived its game in a battle
\* must never find itself beside those of another.
GhostsAreRefused ==
  [][Serving /\ handler = "check" /\ handler' = "parse" => sessionPlayer[current] \in players]_vars

-----------------------------------------------------------------------------
(* What must happen *)

\* Whose connection is closed can be asked for again: its session ends.
Returns ==
  \A s \in Sessions : Live(s) /\ ~peer[s] ~> ~Live(s) \/ server # "polling"

-----------------------------------------------------------------------------
(* What the documentation says *)

\* src/README.md:179: a client may be closed, and its player stays. So it may not
\* take the server with it, which alone holds the player.
ClosingIsHarmless == server # "crashed"
=============================================================================
