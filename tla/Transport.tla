----------------------------- MODULE Transport -----------------------------
(***************************************************************************)
(* One call to a provider (src/src/transport.mjs): a curl process whose    *)
(* answer is passed on as it arrives.  One deadline guards the call.  For  *)
(* a finite answer it is a total; for an event stream it is a silence: it  *)
(* starts again with every chunk, and stops while the consumer, not the    *)
(* provider, is the one that is slow.  The end of the process, the         *)
(* deadline, the caller's abort and the consumer leaving race each other.  *)
(***************************************************************************)
EXTENDS Integers

CONSTANTS
  TimeoutMs,   \* the deadline, in ticks of the model's clock
  MaxChunks    \* bound on the chunks of one answer

ASSUME TransportAssumption == TimeoutMs \in Nat \ {0} /\ MaxChunks \in Nat

VARIABLES
  curl,        \* the child: "none" yet, "runs", "dying" once it was sent SIGTERM, "gone"
  code,        \* how it exited: "ok" or "failed", "none" before
  started,     \* the final header was read
  streaming,   \* and it announced an event stream
  settled,     \* the promise of requestRaw: "waiting", "resolved", "rejected"
  aborted, timedOut, closed,  \* as in the code
  timer,       \* ticks until the deadline; 0 when it is not armed
  output,      \* the body handed on: "open", "ended", "destroyed"
  full,        \* the consumer has not drained what was written
  chunks,      \* chunks written
  quiet, age   \* ghosts: ticks of the provider's silence, and of the whole call

callVars == <<curl, code, started, streaming, settled, aborted, timedOut, closed,
              timer, output, full, chunks, quiet, age>>

CallInit ==
  /\ curl = "none" /\ code = "none"
  /\ started = FALSE /\ streaming = FALSE /\ settled = "waiting"
  /\ aborted = FALSE /\ timedOut = FALSE /\ closed = FALSE
  /\ timer = 0
  /\ output = "open" /\ full = FALSE /\ chunks = 0
  /\ quiet = 0 /\ age = 0

Killed == IF curl = "runs" THEN "dying" ELSE curl

\* armDeadline: from now on, unless the call is over.
Armed == IF closed \/ aborted \/ timedOut \/ output = "destroyed"
         THEN 0 ELSE TimeoutMs

\* requestRaw: curl is started, and the deadline with it; not for a caller that is gone.
Spawns ==
  /\ curl = "none" /\ settled = "waiting"
  /\ \/ curl' = "runs" /\ timer' = TimeoutMs /\ UNCHANGED <<aborted, settled, output>>
     \/ aborted' = TRUE /\ settled' = "rejected" /\ output' = "destroyed" /\ UNCHANGED <<curl, timer>>
  /\ UNCHANGED <<code, started, streaming, timedOut, closed, full, chunks, quiet, age>>

\* error: the body breaks, and the promise too if it was not settled.
Broken == /\ output' = IF output = "open" THEN "destroyed" ELSE output
          /\ settled' = IF settled = "waiting" THEN "rejected" ELSE settled
          /\ timer' = 0

\* The final header arrives; an event stream is given its own deadline.
Headers(stream) ==
  /\ curl \in {"runs", "dying"} /\ ~started /\ output = "open"
  /\ started' = TRUE
  /\ streaming' = stream
  /\ settled' = "resolved"
  /\ timer' = IF stream THEN Armed ELSE timer
  /\ quiet' = 0
  /\ UNCHANGED <<curl, code, aborted, timedOut, closed, output, full, chunks, age>>

\* What arrives is no header, or too long for one.
Garbles ==
  /\ curl \in {"runs", "dying"} /\ ~started /\ output = "open"
  /\ Broken
  /\ curl' = Killed
  /\ UNCHANGED <<code, started, streaming, aborted, timedOut, closed, full, chunks,
                 quiet, age>>

\* Mutant of Chunk: the deadline goes on while the consumer is slow.
ChunkKeepsDeadline(fills) ==
  /\ curl \in {"runs", "dying"} /\ started /\ output = "open" /\ ~full
  /\ chunks < MaxChunks
  /\ chunks' = chunks + 1
  /\ full' = fills
  /\ timer' = IF streaming THEN Armed ELSE timer
  /\ quiet' = 0
  /\ UNCHANGED <<curl, code, started, streaming, settled, aborted, timedOut, closed,
                 output, age>>

\* A chunk of the body is written on; when that fills the pipe nothing more is
\* read until it drains, and a stream's deadline waits too.
Chunk(fills) ==
  /\ curl \in {"runs", "dying"} /\ started /\ output = "open" /\ ~full
  /\ chunks < MaxChunks
  /\ chunks' = chunks + 1
  /\ full' = fills
  /\ timer' = IF ~streaming THEN timer ELSE IF fills THEN 0 ELSE Armed
  /\ quiet' = 0
  /\ UNCHANGED <<curl, code, started, streaming, settled, aborted, timedOut, closed,
                 output, age>>

\* Mutant of Drain: the deadline is not armed again.
DrainUnarmed ==
  /\ full /\ output = "open"
  /\ full' = FALSE
  /\ quiet' = 0
  /\ UNCHANGED <<curl, code, started, streaming, settled, aborted, timedOut, closed,
                 timer, output, chunks, age>>

Drain ==
  /\ full /\ output = "open"
  /\ full' = FALSE
  /\ timer' = IF streaming THEN Armed ELSE timer
  /\ quiet' = 0
  /\ UNCHANGED <<curl, code, started, streaming, settled, aborted, timedOut, closed,
                 output, chunks, age>>

\* Time passes; it does not pass a deadline that is due.
Tick ==
  /\ curl # "none" /\ timer # 1 /\ ~closed
  /\ timer > 1 \/ age < TimeoutMs
  /\ timer' = IF timer > 1 THEN timer - 1 ELSE timer
  /\ quiet' = IF full \/ quiet = TimeoutMs THEN quiet ELSE quiet + 1
  /\ age' = IF age = TimeoutMs THEN age ELSE age + 1
  /\ UNCHANGED <<curl, code, started, streaming, settled, aborted, timedOut, closed,
                 output, full, chunks>>

Expires ==
  /\ timer = 1
  /\ timedOut' = TRUE
  /\ curl' = Killed
  /\ timer' = 0
  /\ quiet' = IF full \/ quiet = TimeoutMs THEN quiet ELSE quiet + 1
  /\ age' = IF age = TimeoutMs THEN age ELSE age + 1
  /\ UNCHANGED <<code, started, streaming, settled, aborted, closed, output, full, chunks>>

\* The caller's signal: the client left, the turn was cancelled, the Router stops.
Abort ==
  /\ curl # "none" /\ ~aborted /\ ~closed
  /\ aborted' = TRUE
  /\ curl' = Killed
  /\ timer' = 0
  /\ UNCHANGED <<code, started, streaming, settled, timedOut, closed, output, full,
                 chunks, quiet, age>>

\* The consumer destroys the body it was given.
Leaves ==
  /\ settled = "resolved" /\ output = "open"
  /\ output' = "destroyed"
  /\ curl' = Killed
  /\ timer' = 0
  /\ UNCHANGED <<code, started, streaming, settled, aborted, timedOut, closed, full,
                 chunks, quiet, age>>

\* The process ends: by itself, or of the signal unless it was done before.
Exits(how) ==
  /\ curl \in {"runs", "dying"}
  /\ curl' = "gone"
  /\ code' = how
  /\ UNCHANGED <<started, streaming, settled, aborted, timedOut, closed, timer, output,
                 full, chunks, quiet, age>>

\* "close", once all it wrote was read: the body ends only after an exit with 0.
Closes ==
  /\ curl = "gone" /\ ~closed
  /\ full => output = "destroyed"
  /\ closed' = TRUE
  /\ IF code = "ok" /\ started
       THEN /\ output' = IF output = "open" THEN "ended" ELSE output
            /\ timer' = 0
            /\ UNCHANGED settled
       ELSE Broken
  /\ UNCHANGED <<curl, code, started, streaming, aborted, timedOut, full, chunks,
                 quiet, age>>

CallNext ==
  \/ Spawns
  \/ \E stream \in BOOLEAN : Headers(stream)
  \/ Garbles
  \/ \E fills \in BOOLEAN : Chunk(fills)
  \/ Drain \/ Tick \/ Expires \/ Abort \/ Leaves
  \/ \E how \in {"ok", "failed"} : Exits(how)
  \/ Closes

\* Time passes and timers fire; a process that is told to stop does; a consumer
\* that stays reads what it was given.
CallFairness ==
  /\ WF_callVars(Tick) /\ WF_callVars(Expires)
  /\ WF_callVars(curl = "dying" /\ \E how \in {"ok", "failed"} : Exits(how))
  /\ WF_callVars(Drain) /\ WF_callVars(Closes)

CallSpec == CallInit /\ [][CallNext]_callVars /\ CallFairness

-----------------------------------------------------------------------------
\* The variables have their types.
CallTypeOK ==
  /\ curl \in {"none", "runs", "dying", "gone"} /\ code \in {"none", "ok", "failed"}
  /\ settled \in {"waiting", "resolved", "rejected"}
  /\ output \in {"open", "ended", "destroyed"}
  /\ timer \in 0 .. TimeoutMs /\ chunks \in 0 .. MaxChunks
  /\ {started, streaming, aborted, timedOut, closed, full} \subseteq BOOLEAN

\* A stream is given up only after the provider itself was silent for the whole
\* deadline, however slow the consumer was; a finite answer only after its total.
GivenUpInSilence ==
  [][timedOut' # timedOut =>
       IF streaming THEN quiet' = TimeoutMs /\ ~full ELSE age' = TimeoutMs]_callVars

\* Whatever the provider does, the caller hears the end of the call.
CallEnds == curl = "runs" ~> settled # "waiting" /\ output # "open"
=============================================================================
