----------------------------- MODULE GatewayDrain -----------------------------
(***************************************************************************)
(* Admission of turns in the Router process (src/server.mjs) and the       *)
(* commands that drain and restart it (src/service-manager.mjs): upgrade   *)
(* and restart are gracefulRestart, a switch drains with drainService and  *)
(* then restarts or resumes the service.  What a turn does is left out.    *)
(***************************************************************************)
EXTENDS Naturals, FiniteSets

CONSTANTS
  Request,         \* HTTP clients, each with one request at a time
  Conn,            \* WebSocket clients
  Upgrade, Switch, \* commands that drain: gracefulRestart, drainService
  MaxConnections,  \* limit on turns and, apart from them, on connections
  QueueMax,        \* messages a connection may have outstanding (8 in the code)
  Flaky,           \* a health request may fail while the process works
  MaxRestarts, MaxInterrupts   \* bounds of the exploration

Command == Upgrade \cup Switch

ASSUME DrainConstants ==
  /\ Request \cap Conn = {} /\ Upgrade \cap Switch = {}
  /\ IsFiniteSet(Request) /\ IsFiniteSet(Conn)
  /\ MaxConnections \in Nat \ {0} /\ QueueMax \in Nat \ {0} /\ Flaky \in BOOLEAN
  /\ MaxRestarts \in Nat /\ MaxInterrupts \in Nat

VARIABLES
  pid,          \* the process that serves
  accepting,    \* its flag
  controllers,  \* the turns it has registered
  http,         \* each HTTP client's request
  conn,         \* each WebSocket connection
  queued,       \* its counter of outstanding messages
  chain,        \* callbacks of its promise chain that have not begun
  pc, signalled, \* each command, and the pid it drains
  interrupts,
  issued        \* the commands this behaviour has

ws      == <<conn, queued, chain>>
gateway == <<pid, accepting, controllers, http, ws>>
admin   == <<pc, signalled, interrupts, issued>>
drainVars    == <<gateway, admin>>

DrainInit ==
  /\ pid = 0 /\ accepting = TRUE /\ controllers = {}
  /\ http = [r \in Request |-> "idle"]
  /\ conn = [c \in Conn |-> "none"]
  /\ queued = [c \in Conn |-> 0] /\ chain = [c \in Conn |-> 0]
  /\ pc = [a \in Command |-> "idle"] /\ signalled = [a \in Command |-> 0]
  /\ interrupts = 0
  /\ issued \in {Switch, Command}

Full == Cardinality(controllers) >= MaxConnections

-----------------------------------------------------------------------------
(* HTTP: authorization is awaited, then the flag and the capacity are      *)
(* checked and the turn registered without another await.                  *)

Arrive(r) ==
  /\ http[r] = "idle"
  /\ http' = [http EXCEPT ![r] = "auth"]
  /\ UNCHANGED <<pid, accepting, controllers, ws, admin>>

Refuse(r) ==
  /\ http[r] = "auth"
  /\ http' = [http EXCEPT ![r] = "idle"]
  /\ UNCHANGED <<pid, accepting, controllers, ws, admin>>

Register(r) ==
  /\ http[r] = "auth"
  /\ controllers' = controllers \cup {r}
  /\ http' = [http EXCEPT ![r] = "turn"]
  /\ UNCHANGED <<pid, accepting, ws, admin>>

\* Mutant of Admit: the flag is not read after the await.
AdmitDraining(r) == ~Full /\ Register(r)
Admit(r) == accepting /\ ~Full /\ Register(r)

\* The finally block.
EndRequest(r) ==
  /\ http[r] = "turn"
  /\ http' = [http EXCEPT ![r] = "idle"]
  /\ controllers' = controllers \ {r}
  /\ UNCHANGED <<pid, accepting, ws, admin>>

-----------------------------------------------------------------------------
(* WebSocket: a connection runs its messages one after the other.          *)

\* The upgrade request: the flag and the count are read before the await.
Ask(c) ==
  /\ conn[c] = "none" /\ accepting
  /\ Cardinality({d \in Conn : conn[d] \in {"open", "closing"}}) < MaxConnections
  /\ conn' = [conn EXCEPT ![c] = "auth"]
  /\ UNCHANGED <<pid, accepting, controllers, http, queued, chain, admin>>

\* Authorized or not.
Connect(c) ==
  /\ conn[c] = "auth"
  /\ \E s \in {"open", "none"} : conn' = [conn EXCEPT ![c] = s]
  /\ UNCHANGED <<pid, accepting, controllers, http, queued, chain, admin>>

Message(c) ==
  /\ conn[c] \in {"open", "closing"}
  /\ IF queued[c] >= QueueMax
     THEN conn' = [conn EXCEPT ![c] = "closing"] /\ UNCHANGED <<queued, chain>>
     ELSE /\ queued' = [queued EXCEPT ![c] = @ + 1]
          /\ chain'  = [chain EXCEPT ![c] = @ + 1]
          /\ UNCHANGED conn
  /\ UNCHANGED <<pid, accepting, controllers, http, admin>>

TakesNext(c) ==
  /\ chain[c] > 0 /\ c \notin controllers
  /\ chain' = [chain EXCEPT ![c] = @ - 1]
  /\ UNCHANGED <<pid, accepting, http, conn, admin>>

\* Mutant of Skip: only the capacity is checked.
SkipFull(c) ==
  /\ TakesNext(c) /\ Full
  /\ queued' = [queued EXCEPT ![c] = @ - 1]
  /\ UNCHANGED controllers

\* Mutant of Skip: the counter keeps the message that was turned down.
SkipKeepsCount(c) ==
  /\ TakesNext(c)
  /\ conn[c] # "open" \/ Full
  /\ UNCHANGED <<queued, controllers>>

\* The callback of a message whose connection closed, or finds no capacity.
Skip(c) ==
  /\ TakesNext(c)
  /\ conn[c] # "open" \/ Full
  /\ queued' = [queued EXCEPT ![c] = @ - 1]
  /\ UNCHANGED controllers

\* The flag is not read: a connection opened before a drain goes on.
StartTurn(c) ==
  /\ TakesNext(c)
  /\ conn[c] = "open" /\ ~Full
  /\ controllers' = controllers \cup {c}
  /\ UNCHANGED queued

EndTurn(c) ==
  /\ c \in controllers
  /\ controllers' = controllers \ {c}
  /\ queued' = [queued EXCEPT ![c] = @ - 1]
  /\ UNCHANGED <<pid, accepting, http, conn, chain, admin>>

\* The close event: the turn is aborted and ends by itself.
Close(c) ==
  /\ conn[c] \in {"open", "closing"}
  /\ conn' = [conn EXCEPT ![c] = "closed"]
  /\ UNCHANGED <<pid, accepting, controllers, http, queued, chain, admin>>

\* The client may connect again once nothing of the connection is left.
Forget(c) ==
  /\ conn[c] = "closed" /\ chain[c] = 0 /\ c \notin controllers
  /\ conn' = [conn EXCEPT ![c] = "none"]
  /\ queued' = [queued EXCEPT ![c] = 0]
  /\ UNCHANGED <<pid, accepting, controllers, http, chain, admin>>

-----------------------------------------------------------------------------
(* Drain                                                                   *)

Goto(a, from, to) == pc[a] = from /\ pc' = [pc EXCEPT ![a] = to]

\* SIGUSR2 once the process has answered.
Signal(a) ==
  /\ a \in issued /\ pid < MaxRestarts
  /\ Goto(a, "idle", "poll")
  /\ accepting' = FALSE
  /\ signalled' = [signalled EXCEPT ![a] = pid]
  /\ UNCHANGED <<pid, controllers, http, ws, interrupts, issued>>

\* No answer: drainService gives up, gracefulRestart restarts at once.
NoAnswer(a) ==
  /\ Flaky /\ a \in issued \cap Upgrade /\ pid < MaxRestarts
  /\ Goto(a, "idle", "drained")
  /\ UNCHANGED <<gateway, signalled, interrupts, issued>>

\* activeTurns = 0 (drainService), or not a positive number (gracefulRestart).
Drained(a) ==
  /\ controllers = {} \/ (Flaky /\ a \in Upgrade)
  /\ Goto(a, "poll", "drained")
  /\ UNCHANGED <<gateway, signalled, interrupts, issued>>

\* SIGUSR1 to the process that was drained, if it still runs.
Resumed(a) ==
  /\ accepting' = (accepting \/ signalled[a] = pid)
  /\ UNCHANGED <<pid, controllers, http, ws, signalled, interrupts, issued>>

\* Mutant of Deadline: the process is left draining.
DeadlineSilent(a) ==
  /\ controllers # {} \/ Flaky
  /\ Goto(a, "poll", "idle")
  /\ UNCHANGED <<gateway, signalled, interrupts, issued>>

Deadline(a) ==
  /\ controllers # {} \/ Flaky
  /\ Goto(a, "poll", "idle")
  /\ Resumed(a)

\* The switch was rolled back, or the App came back.
GoBack(a) ==
  /\ a \in Switch
  /\ Goto(a, "drained", "idle")
  /\ Resumed(a)

\* installService: SIGTERM aborts what runs; another process is started.
Restart(a) ==
  /\ Goto(a, "drained", "idle")
  /\ pid' = pid + 1 /\ accepting' = TRUE /\ controllers' = {}
  /\ http' = [r \in Request |-> "idle"]
  /\ conn' = [c \in Conn |-> "none"]
  /\ queued' = [c \in Conn |-> 0] /\ chain' = [c \in Conn |-> 0]
  /\ UNCHANGED <<signalled, interrupts, issued>>

\* The user interrupts the command, or it fails before it restarts anything.
Interrupt(a) ==
  /\ interrupts < MaxInterrupts /\ interrupts' = interrupts + 1
  /\ pc[a] # "idle"
  /\ pc' = [pc EXCEPT ![a] = "idle"]
  /\ UNCHANGED <<gateway, signalled, issued>>

Ends(c) == EndTurn(c) \/ Skip(c) \/ StartTurn(c)
Drain(a) == Drained(a) \/ Deadline(a) \/ Restart(a) \/ GoBack(a)

DrainNext ==
  \/ \E r \in Request : Arrive(r) \/ Refuse(r) \/ Admit(r) \/ EndRequest(r)
  \/ \E c \in Conn : \/ Ask(c) \/ Connect(c) \/ Message(c) \/ Ends(c)
                     \/ Close(c) \/ Forget(c)
  \/ \E a \in Command : Signal(a) \/ NoAnswer(a) \/ Drain(a) \/ Interrupt(a)

DrainSpec == DrainInit /\ [][DrainNext]_drainVars
\* A turn ends and the next callback of the promise chain runs.
DrainFairSpec == /\ DrainSpec
            /\ \A c \in Conn : WF_drainVars(Ends(c) \/ Forget(c))
-----------------------------------------------------------------------------
TypeOK ==
  /\ pid \in Nat /\ accepting \in BOOLEAN
  /\ controllers \subseteq Request \cup Conn
  /\ http \in [Request -> {"idle", "auth", "turn"}]
  /\ conn \in [Conn -> {"none", "auth", "open", "closing", "closed"}]
  /\ queued \in [Conn -> Nat] /\ chain \in [Conn -> Nat]
  /\ pc \in [Command -> {"idle", "poll", "drained"}]
  /\ signalled \in [Command -> Nat] /\ interrupts \in Nat /\ issued \subseteq Command

\* Turns of HTTP and WebSocket together never exceed maxConnections, although
\* each is checked in another place and after another await.
CapacityKept == Cardinality(controllers) <= MaxConnections

\* A connection's counter is given back on every path, so it is never closed
\* for messages that are no longer there.
SlotsReturned ==
  \A c \in Conn : queued[c] = chain[c] + (IF c \in controllers THEN 1 ELSE 0)

\* What the two counters of the server hold is exact.
CapacityExact == TypeOK /\ CapacityKept /\ SlotsReturned

\* A closed connection works off what it had queued and leaves nothing behind.
ClosedForgotten == \A c \in Conn : conn[c] = "closed" ~> conn[c] = "none"

\* A restart that was preceded by a drain interrupts no turn ("drain active
\* turns, and restart safely", docs/public/cli.md:24).
NoTurnCut == [][pid' # pid => controllers = {}]_drainVars

\* The same for HTTP turns, which are refused while the Router drains, as long
\* as only drainService drains it.
NoRequestCut ==
  [][pid' # pid /\ issued = Switch => controllers \cap Request = {}]_drainVars

\* Whatever commands overlap, when none is left, and none was interrupted, the
\* Router takes turns again.
AcceptingRestored == interrupts = 0 /\ (\A a \in Command : pc[a] = "idle") => accepting
=============================================================================
