------------------------ MODULE ServiceControlProofs ------------------------
(* Theorems about who may stop the Router or change what it serves: the        *)
(* coordinator of a switch, for any number of commands, revisions, begins and  *)
(* restarts of the machine, whatever launchctl does; and the drain, for any    *)
(* number of clients, connections, commands and restarts, and any limits.      *)
EXTENDS SwitchCoordinator, GatewayDrain, FiniteSetTheorems, TLAPS

-----------------------------------------------------------------------------
(* The coordinator. *)

\* What every step keeps: who applies or cleans up holds the lock; an agent that
\* is loaded but does not run expects nothing; and one that applies a transaction
\* it waited for applies that one.
Places ==
  step \in [Client -> {"idle", "install", "resume", "apply", "finish", "check", "drop"}]
NothingExpected == job \in {"unloaded", "loaded", "start"} => seen = None
ExpectsIt == job = "apply" /\ seen # None => tx.id = seen

CoordinatorInv == Places /\ AppliersHoldLock /\ NothingExpected /\ ExpectsIt

LEMMA CoordinatorInitInv == SwitcherInit => CoordinatorInv
BY DEF SwitcherInit, CoordinatorInv, Places, AppliersHoldLock, NothingExpected, ExpectsIt

\* The steps of a command.
LEMMA CommandKeeps ==
  ASSUME CoordinatorInv, NEW c \in Client,
         CommandStep(c) \/ AskResume(c) \/ Cancel(c) \/ \E t \in Target : Begin(c, t)
  PROVE  CoordinatorInv'
<1> USE CoordinatorConstants DEF CoordinatorInv, Places, AppliersHoldLock, NothingExpected, ExpectsIt, Moves, agent
<1>1. CASE Resume(c)
  BY <1>1 DEF Resume
<1>2. CASE Locked(c)
  BY <1>2 DEF Locked
<1>3. CASE Apply(c)
  BY <1>3 DEF Apply
<1>4. CASE ApplyFails(c)
  BY <1>4 DEF ApplyFails
<1>5. CASE Finish(c)
  BY <1>5 DEF Finish, Uninstall
<1>6. CASE Install(c)
  BY <1>6 DEF Install, Lost
<1>7. CASE InstallFails(c) \/ Check(c) \/ AskResume(c)
  BY <1>7 DEF InstallFails, Check, AskResume
<1>8. CASE Drop(c)
  BY <1>8 DEF Drop, Uninstall
<1>9. CASE Cancel(c)
  BY <1>9 DEF Cancel
<1>10. ASSUME NEW t \in Target, Begin(c, t) PROVE CoordinatorInv'
  BY <1>10 DEF Begin
<1> QED
  BY <1>1, <1>2, <1>3, <1>4, <1>5, <1>6, <1>7, <1>8, <1>9, <1>10 DEF CommandStep

\* The steps of the coordinator and of the machine.
LEMMA CoordinatorKeeps ==
  ASSUME CoordinatorInv, Coordinate \/ AppToggle \/ Reboot \/ LockStale
  PROVE  CoordinatorInv'
<1> USE CoordinatorConstants DEF CoordinatorInv, Places, AppliersHoldLock, NothingExpected, ExpectsIt, agent
<1>1. CASE AgentStarts
  BY <1>1 DEF AgentStarts, AgentResumes
<1>2. CASE AgentRetries
  BY <1>2 DEF AgentRetries, AgentResumes
<1>3. CASE AgentLocked \/ AgentSeesQuit \/ AgentGivesUp
  BY <1>3 DEF AgentLocked, AgentSeesQuit, AgentGivesUp
<1>4. CASE AgentApplies
  BY <1>4 DEF AgentApplies
<1>5. CASE AgentFails
  BY <1>5 DEF AgentFails
<1>6. CASE AgentCleans
  BY <1>6 DEF AgentCleans
<1>7. CASE AppToggle
  BY <1>7 DEF AppToggle
<1>8. CASE Reboot
  BY <1>8 DEF Reboot
<1>9. CASE LockStale
  BY <1>9 DEF LockStale
<1> QED
  BY <1>1, <1>2, <1>3, <1>4, <1>5, <1>6, <1>7, <1>8, <1>9 DEF Coordinate

LEMMA CoordinatorStepKeeps == CoordinatorInv /\ [SwitcherNext]_switcherVars => CoordinatorInv'
<1>1. ASSUME CoordinatorInv, UNCHANGED switcherVars PROVE CoordinatorInv'
  BY <1>1 DEF CoordinatorInv, Places, AppliersHoldLock, NothingExpected, ExpectsIt, switcherVars, agent
<1> QED
  BY <1>1, CommandKeeps, CoordinatorKeeps DEF SwitcherNext

\* Whoever applies or removes a transaction holds the transaction lock and there is
\* one to apply, whatever commands, agent and restarts do (resumeSpaceSwitch,
\* cancelSpaceSwitch): no commit is lost to a cancel, none happens twice.
THEOREM HolderApplies == SwitcherSpec => []AppliersHoldLock
<1>1. CoordinatorInv => AppliersHoldLock
  BY DEF CoordinatorInv
<1> QED
  BY CoordinatorInitInv, CoordinatorStepKeeps, <1>1, PTL DEF SwitcherSpec

\* A coordinator that waited for a transaction applies that one or none
\* (the expected id of resumeSpaceSwitch).
THEOREM WaitedForApplied == SwitcherSpec => ExactTransaction
<1>1. CoordinatorInv /\ [SwitcherNext]_switcherVars
        => [job = "apply" /\ job' = "clean" /\ seen # None => tx.id = seen]_switcherVars
  BY DEF CoordinatorInv, ExpectsIt
<1> QED
  BY CoordinatorInitInv, CoordinatorStepKeeps, <1>1, PTL DEF SwitcherSpec, ExactTransaction

-----------------------------------------------------------------------------
(* The drain. *)

\* A Router that refuses turns is drained by a command that has not ended and that
\* will resume or replace it, unless a command was interrupted.
Drains ==
  interrupts = 0 /\ ~accepting =>
    \E a \in Command : pc[a] \in {"poll", "drained"} /\ signalled[a] = pid

DrainInv == CapacityExact /\ Drains

LEMMA TurnsAreFinite ==
  ASSUME NEW S, S \subseteq Request \cup Conn PROVE IsFiniteSet(S) /\ Cardinality(S) \in Nat
<1>1. IsFiniteSet(Request \cup Conn)
  BY DrainConstants, FS_Union
<1> QED
  BY <1>1, FS_Subset, FS_CardinalityType

LEMMA RoomFor ==
  ASSUME NEW S, S \subseteq Request \cup Conn, NEW x
  PROVE  /\ Cardinality(S) \in Nat
         /\ Cardinality(S \cup {x}) <= Cardinality(S) + 1 /\ Cardinality(S \cup {x}) \in Nat
         /\ Cardinality(S \ {x}) <= Cardinality(S) /\ Cardinality(S \ {x}) \in Nat
<1>1. IsFiniteSet(S) /\ Cardinality(S) \in Nat
  BY TurnsAreFinite
<1>2. Cardinality(S \cup {x}) \in {Cardinality(S), Cardinality(S) + 1}
  BY <1>1, FS_AddElement
<1>3. Cardinality(S \ {x}) \in {Cardinality(S), Cardinality(S) - 1} /\ Cardinality(S \ {x}) \in Nat
  BY <1>1, FS_RemoveElement, FS_CardinalityType
<1> QED
  BY <1>1, <1>2, <1>3

LEMMA DrainInitInv == DrainInit => DrainInv
<1>1. Cardinality({}) = 0
  BY FS_EmptySet
<1> QED
  BY <1>1, DrainConstants DEF DrainInit, DrainInv, CapacityExact, TypeOK, CapacityKept, SlotsReturned,
     Drains, Command

\* The counters under a step of a client, which drains nothing.
LEMMA ClientKeeps ==
  ASSUME DrainInv,
         \/ \E r \in Request : Arrive(r) \/ Refuse(r) \/ Admit(r) \/ EndRequest(r)
         \/ \E c \in Conn : Ask(c) \/ Connect(c) \/ Message(c) \/ Ends(c) \/ Close(c) \/ Forget(c)
  PROVE  DrainInv'
<1> USE DrainConstants DEF DrainInv, CapacityExact, TypeOK
<1>1. UNCHANGED <<pid, accepting, admin>>
  BY DEF Arrive, Refuse, Admit, Register, EndRequest, Ask, Connect, Message, Ends, EndTurn, Skip,
     StartTurn, TakesNext, Close, Forget
<1>2. Drains'
  BY <1>1 DEF Drains, admin
<1>3. CASE UNCHANGED controllers
  <2>1. TypeOK' /\ SlotsReturned'
    <3>1. ASSUME NEW r \in Request, Arrive(r) \/ Refuse(r) PROVE TypeOK' /\ SlotsReturned'
      BY <3>1, <1>3 DEF Arrive, Refuse, SlotsReturned, ws, admin
    <3>2. ASSUME NEW r \in Request, Admit(r) \/ EndRequest(r) PROVE TypeOK' /\ SlotsReturned'
      BY <3>2, <1>3 DEF Admit, EndRequest, Register, SlotsReturned, ws, admin
    <3>3. ASSUME NEW c \in Conn, Ask(c) \/ Connect(c) \/ Close(c) PROVE TypeOK' /\ SlotsReturned'
      BY <3>3, <1>3 DEF Ask, Connect, Close, SlotsReturned, admin
    <3>4. ASSUME NEW c \in Conn, Message(c) PROVE TypeOK' /\ SlotsReturned'
      BY <3>4, <1>3 DEF Message, SlotsReturned, admin
    <3>5. ASSUME NEW c \in Conn, Skip(c) PROVE TypeOK' /\ SlotsReturned'
      BY <3>5, <1>3 DEF Skip, TakesNext, SlotsReturned, admin
    <3>6. ASSUME NEW c \in Conn, Forget(c) PROVE TypeOK' /\ SlotsReturned'
      BY <3>6, <1>3 DEF Forget, SlotsReturned, admin
    <3>7. ASSUME NEW c \in Conn, EndTurn(c) \/ StartTurn(c) PROVE FALSE
      BY <3>7, <1>3 DEF EndTurn, StartTurn, TakesNext
    <3> QED
      BY <3>1, <3>2, <3>3, <3>4, <3>5, <3>6, <3>7 DEF Ends
  <2>2. CapacityKept'
    BY <1>3 DEF CapacityKept
  <2> QED
    BY <1>2, <2>1, <2>2
<1>4. CASE \E r \in Request : Admit(r) \/ EndRequest(r)
  <2> PICK r \in Request : Admit(r) \/ EndRequest(r)
    BY <1>4
  <2>1. TypeOK' /\ SlotsReturned'
    BY DEF Admit, Register, EndRequest, SlotsReturned, ws, admin
  <2>2. CapacityKept'
    <3>1. \/ controllers' = controllers \cup {r} /\ ~Full
          \/ controllers' = controllers \ {r}
      BY DEF Admit, Register, EndRequest
    <3>2. /\ Cardinality(controllers) \in Nat /\ Cardinality(controllers') \in Nat
          /\ Cardinality(controllers \cup {r}) <= Cardinality(controllers) + 1
          /\ Cardinality(controllers \ {r}) <= Cardinality(controllers)
      BY <3>1, RoomFor
    <3>3. Cardinality(controllers) <= MaxConnections
      BY DEF CapacityKept
    <3>4. ~Full => Cardinality(controllers) < MaxConnections
      BY <3>2 DEF Full
    <3>5. CASE controllers' = controllers \cup {r} /\ ~Full
      <4>1. Cardinality(controllers') = Cardinality(controllers \cup {r})
        BY <3>5, Zenon
      <4>2. Cardinality(controllers) < MaxConnections
        BY <3>4, <3>5, Zenon
      <4> QED
        BY <4>1, <4>2, <3>2 DEF CapacityKept
    <3>6. CASE controllers' = controllers \ {r}
      <4>1. Cardinality(controllers') = Cardinality(controllers \ {r})
        BY <3>6, Zenon
      <4> QED
        BY <4>1, <3>2, <3>3 DEF CapacityKept
    <3> QED
      BY <3>1, <3>5, <3>6
  <2> QED
    BY <1>2, <2>1, <2>2
<1>5. CASE \E c \in Conn : StartTurn(c) \/ EndTurn(c)
  <2> PICK c \in Conn : StartTurn(c) \/ EndTurn(c)
    BY <1>5
  <2>1. TypeOK' /\ SlotsReturned'
    <3>1. CASE StartTurn(c)
      BY <3>1 DEF StartTurn, TakesNext, SlotsReturned, admin
    <3>2. CASE EndTurn(c)
      BY <3>2 DEF EndTurn, SlotsReturned, admin
    <3> QED
      BY <3>1, <3>2
  <2>2. CapacityKept'
    <3>1. \/ controllers' = controllers \cup {c} /\ ~Full
          \/ controllers' = controllers \ {c}
      BY DEF StartTurn, EndTurn
    <3>2. /\ Cardinality(controllers) \in Nat /\ Cardinality(controllers') \in Nat
          /\ Cardinality(controllers \cup {c}) <= Cardinality(controllers) + 1
          /\ Cardinality(controllers \ {c}) <= Cardinality(controllers)
      BY <3>1, RoomFor
    <3>3. Cardinality(controllers) <= MaxConnections
      BY DEF CapacityKept
    <3>4. ~Full => Cardinality(controllers) < MaxConnections
      BY <3>2 DEF Full
    <3>5. CASE controllers' = controllers \cup {c} /\ ~Full
      <4>1. Cardinality(controllers') = Cardinality(controllers \cup {c})
        BY <3>5, Zenon
      <4>2. Cardinality(controllers) < MaxConnections
        BY <3>4, <3>5, Zenon
      <4> QED
        BY <4>1, <4>2, <3>2 DEF CapacityKept
    <3>6. CASE controllers' = controllers \ {c}
      <4>1. Cardinality(controllers') = Cardinality(controllers \ {c})
        BY <3>6, Zenon
      <4> QED
        BY <4>1, <3>2, <3>3 DEF CapacityKept
    <3> QED
      BY <3>1, <3>5, <3>6
  <2> QED
    BY <1>2, <2>1, <2>2
<1> QED
  BY <1>3, <1>4, <1>5 DEF Arrive, Refuse, Ask, Connect, Message, Ends, Skip, Close, Forget

\* A command drains, resumes or replaces the Router, or is interrupted.
LEMMA DrainCommandKeeps ==
  ASSUME DrainInv, NEW a \in Command, Signal(a) \/ NoAnswer(a) \/ Drain(a) \/ Interrupt(a)
  PROVE  DrainInv'
<1> USE DrainConstants DEF DrainInv, CapacityExact, TypeOK, Goto
<1>1. CASE Restart(a)
  <2>1. TypeOK' /\ SlotsReturned'
    BY <1>1 DEF Restart, SlotsReturned
  <2>2. CapacityKept'
    BY <1>1, FS_EmptySet DEF Restart, CapacityKept
  <2> QED
    BY <1>1, <2>1, <2>2 DEF Restart, Drains
<1>2. CASE ~Restart(a)
  <2>1. UNCHANGED <<pid, controllers, http, ws, issued>>
    BY <1>2 DEF Signal, NoAnswer, Drain, Drained, Deadline, GoBack, Resumed, Interrupt, gateway
  <2>2. SlotsReturned' /\ CapacityKept'
    BY <2>1 DEF SlotsReturned, CapacityKept, ws
  <2>3. CASE Signal(a)
    BY <2>1, <2>2, <2>3 DEF Signal, Drains, ws
  <2>4. CASE NoAnswer(a) \/ Drained(a)
    BY <2>1, <2>2, <2>4 DEF NoAnswer, Drained, Drains, gateway, ws
  <2>5. CASE Deadline(a) \/ GoBack(a)
    <3>1. /\ pc' = [pc EXCEPT ![a] = "idle"] /\ UNCHANGED <<signalled, interrupts>>
          /\ accepting' = (accepting \/ signalled[a] = pid)
      BY <2>5 DEF Deadline, GoBack, Resumed
    <3>2. accepting' \in BOOLEAN
      BY <3>1, Zenon
    <3>3. ASSUME ~accepting' PROVE ~accepting /\ signalled[a] # pid
      BY <3>1, <3>3, Zenon
    <3>4. Drains'
      BY <3>1, <3>3, <2>1 DEF Drains
    <3>5. TypeOK'
      BY <2>1, <3>1, <3>2 DEF ws
    <3> QED
      BY <2>2, <3>4, <3>5
  <2>6. CASE Interrupt(a)
    BY <2>1, <2>2, <2>6 DEF Interrupt, Drains, gateway, ws
  <2> QED
    BY <1>2, <2>3, <2>4, <2>5, <2>6 DEF Drain
<1> QED
  BY <1>1, <1>2

LEMMA DrainStepKeeps == DrainInv /\ [DrainNext]_drainVars => DrainInv'
<1>1. ASSUME DrainInv, UNCHANGED drainVars PROVE DrainInv'
  BY <1>1 DEF DrainInv, CapacityExact, TypeOK, CapacityKept, SlotsReturned, Drains, drainVars, gateway,
     ws, admin
<1> QED
  BY <1>1, ClientKeeps, DrainCommandKeeps DEF DrainNext

\* The turns of both protocols together stay within maxConnections, and each
\* connection counts exactly the messages it has.
THEOREM CountersExact == DrainSpec => []CapacityExact
<1>1. DrainInv => CapacityExact
  BY DEF DrainInv
<1> QED
  BY <1>1, DrainInitInv, DrainStepKeeps, PTL DEF DrainSpec

\* Whatever drains overlap, once the commands have ended and none was interrupted
\* the Router takes turns.
THEOREM AcceptsAgain == DrainSpec => []AcceptingRestored
<1>1. DrainInv => AcceptingRestored
  BY DEF DrainInv, Drains, AcceptingRestored
<1> QED
  BY <1>1, DrainInitInv, DrainStepKeeps, PTL DEF DrainSpec

\* One switch at a time, and no upgrade: while it drains the Router takes no request,
\* and what it found drained stays so.
OneSwitch == \A a, b \in Switch : a = b

HeldBack ==
  issued = Switch =>
    \A a \in Command : pc[a] # "idle" =>
      /\ a \in Switch /\ ~accepting
      /\ pc[a] = "drained" => controllers \cap Request = {}

LEMMA HeldBackStays ==
  ASSUME OneSwitch, TypeOK, HeldBack, [DrainNext]_drainVars PROVE HeldBack'
<1> USE DEF HeldBack
<1>1. CASE UNCHANGED drainVars
  BY <1>1 DEF drainVars, gateway, admin
<1>2. ASSUME NEW r \in Request, Arrive(r) \/ Refuse(r) \/ Admit(r) \/ EndRequest(r) PROVE HeldBack'
  BY <1>2 DEF Arrive, Refuse, Admit, Register, EndRequest, admin
<1>3. ASSUME NEW c \in Conn, Ask(c) \/ Connect(c) \/ Message(c) \/ Ends(c) \/ Close(c) \/ Forget(c)
      PROVE  HeldBack'
  <2>1. UNCHANGED <<accepting, pc, issued>> /\ controllers' \subseteq controllers \cup {c}
    BY <1>3 DEF Ask, Connect, Message, Ends, EndTurn, Skip, StartTurn, TakesNext, Close, Forget, admin
  <2>2. c \notin Request
    BY DrainConstants
  <2> QED
    BY <2>1, <2>2
<1>4. ASSUME NEW a \in Command, Signal(a) \/ NoAnswer(a) \/ Drain(a) \/ Interrupt(a) PROVE HeldBack'
  <2> SUFFICES ASSUME issued' = Switch PROVE (\A b \in Command : pc[b] # "idle" =>
                 b \in Switch /\ ~accepting /\ (pc[b] = "drained" => controllers \cap Request = {}))'
    OBVIOUS
  <2>1. issued = Switch /\ (\A b \in Command : b # a => pc'[b] = pc[b])
    BY <1>4 DEF Signal, NoAnswer, Drain, Drained, Deadline, Restart, GoBack, Resumed, Interrupt,
       Goto, TypeOK
  <2>2. \A b \in Command : b # a /\ a \in Switch => pc[b] = "idle"
    BY <2>1 DEF OneSwitch
  <2>3. CASE Signal(a)
    BY <2>1, <2>2, <2>3 DEF Signal, Goto, TypeOK
  <2>4. CASE NoAnswer(a)
    BY <2>1, <2>4, DrainConstants DEF NoAnswer
  <2>5. CASE Drained(a) \/ Interrupt(a)
    BY <2>1, <2>5, DrainConstants DEF Drained, Interrupt, Goto, gateway, TypeOK
  <2>6. CASE Deadline(a) \/ GoBack(a) \/ Restart(a)
    <3>1. pc'[a] = "idle" /\ a \in Switch
      BY <2>1, <2>6 DEF Deadline, GoBack, Restart, Goto, TypeOK
    <3> QED
      BY <2>1, <2>2, <3>1
  <2> QED
    BY <1>4, <2>3, <2>4, <2>5, <2>6 DEF Drain
<1> QED
  BY <1>1, <1>2, <1>3, <1>4 DEF DrainNext

\* As long as only one command drains at a time, by drainService, a restart cuts no
\* HTTP turn, for any number of clients, connections, interrupts and restarts.  The
\* lock of the switch allows one (HolderApplies).
THEOREM RequestsSurvive ==
  ASSUME OneSwitch
  PROVE  DrainSpec => NoRequestCut
<1>1. DrainInit => HeldBack
  BY DEF DrainInit, HeldBack
<1>2. DrainInv /\ HeldBack /\ [DrainNext]_drainVars => HeldBack'
  BY HeldBackStays DEF DrainInv, CapacityExact
<1>3. HeldBack /\ DrainInv /\ [DrainNext]_drainVars
        => [pid' # pid /\ issued = Switch => controllers \cap Request = {}]_drainVars
  <2> SUFFICES ASSUME HeldBack, DrainNext, pid' # pid, issued = Switch
               PROVE  controllers \cap Request = {}
    OBVIOUS
  <2>1. PICK a \in Command : Restart(a)
    BY DEF DrainNext, Arrive, Refuse, Admit, Register, EndRequest, Ask, Connect, Message, Ends,
       EndTurn, Skip, StartTurn, TakesNext, Close, Forget, Signal, NoAnswer, Drain, Drained, Deadline,
       GoBack, Resumed, Interrupt, gateway
  <2> QED
    BY <2>1 DEF Restart, Goto, HeldBack
<1> QED
  BY <1>1, <1>2, <1>3, DrainInitInv, DrainStepKeeps, PTL DEF DrainSpec, NoRequestCut

=============================================================================
