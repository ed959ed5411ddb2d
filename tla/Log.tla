--------------------------------- MODULE Log ---------------------------------
(***************************************************************************)
(* The logger of base/log.cpp: a circular buffer of the latest messages,   *)
(* the messages not yet written to the log file being the last             *)
(* v_processCount of them, and a signal handler that may interrupt the     *)
(* program between any two updates of the buffer's counters, logs its own  *)
(* message, writes what is pending and exits.                              *)
(*                                                                         *)
(* The messages of a run are 1, 2, 3 ...  Storing one is a single step,    *)
(* and so is each update of a global variable.                             *)
(***************************************************************************)
EXTENDS Integers, Sequences, FiniteSets

CONSTANTS
  bufferSize,      \* 64 in the source
  MaxMessages,     \* bound: messages logged in one run
  MaxSessions,     \* bound: calls of init()
  NoMessage,       \* the empty string the buffer starts with
  SignalMessage,   \* what the signal handler logs
  Signals          \* TRUE: a signal may arrive

ASSUME SizeAssumption    == bufferSize \in Nat \ {0}
ASSUME BoundAssumption   == MaxMessages \in Nat /\ MaxSessions \in Nat
ASSUME MessageAssumption == NoMessage # SignalMessage
ASSUME SwitchAssumption  == Signals \in BOOLEAN

Slots    == 0 .. bufferSize - 1
Messages == 1 .. MaxMessages
Entries  == Messages \cup {NoMessage, SignalMessage}

VARIABLES
  v_buffer, v_pos, v_processBegin, v_processCount, v_size,
  v_file,          \* the lines written to the open log file
  open,            \* the file is open and the signal handlers are installed
  pc,              \* where the program is: "idle", or inside a function
  after,           \* where process() returns to
  sent,            \* how many messages were passed to log()
  logged,          \* history: the messages whose log() returned, this session
  carried,         \* history: this session began with messages pending
  sessions         \* how many times init() was called

counters == <<v_pos, v_processBegin, v_processCount, v_size>>
vars == <<v_buffer, counters, v_file, open, pc, after, sent, logged, carried, sessions>>

Init ==
  /\ v_buffer = [i \in Slots |-> NoMessage]
  /\ v_pos = 0 /\ v_processBegin = 0 /\ v_processCount = 0 /\ v_size = 0
  /\ v_file = <<>>
  /\ open = FALSE
  /\ pc = "idle"
  /\ after = "idle"
  /\ sent = 0
  /\ logged = <<>>
  /\ carried = FALSE
  /\ sessions = 0

AtMost(a, b) == IF a < b THEN a ELSE b

-----------------------------------------------------------------------------
\* Mutant: init() forgets that the next message goes to the first slot.
InitLogKeepsPos ==
  /\ pc = "idle" /\ ~open
  /\ sessions < MaxSessions
  /\ v_size' = 0 /\ v_processBegin' = 0
  /\ v_file' = <<>>
  /\ open' = TRUE
  /\ logged' = <<>>
  /\ carried' = (v_processCount > 0)
  /\ sessions' = sessions + 1
  /\ UNCHANGED <<v_buffer, v_pos, v_processCount, pc, after, sent>>

(* init(): the file is truncated; v_processCount is left as it is, so what *)
(* was logged outside a session stays pending.                             *)
InitLog ==
  /\ pc = "idle" /\ ~open
  /\ sessions < MaxSessions
  /\ v_pos' = 0 /\ v_size' = 0 /\ v_processBegin' = 0
  /\ v_file' = <<>>
  /\ open' = TRUE
  /\ logged' = <<>>
  /\ carried' = (v_processCount > 0)
  /\ sessions' = sessions + 1
  /\ UNCHANGED <<v_buffer, v_processCount, pc, after, sent>>

(* log(), one step per global it updates, with the file open or not.       *)
LogStore ==
  /\ pc = "idle"
  /\ sent < MaxMessages
  /\ sent' = sent + 1
  /\ v_buffer' = [v_buffer EXCEPT ![v_pos] = sent + 1]
  /\ pc' = "size"
  /\ UNCHANGED <<counters, v_file, open, after, logged, carried, sessions>>

LogSize ==
  /\ pc = "size"
  /\ v_size' = AtMost(v_size + 1, bufferSize)
  /\ pc' = "position"
  /\ UNCHANGED <<v_buffer, v_pos, v_processBegin, v_processCount, v_file, open,
                 after, sent, logged, carried, sessions>>

LogPosition ==
  /\ pc = "position"
  /\ v_pos' = (v_pos + 1) % bufferSize
  /\ pc' = "count"
  /\ UNCHANGED <<v_buffer, v_processBegin, v_processCount, v_size, v_file,
                 open, after, sent, logged, carried, sessions>>

\* Mutant: the buffer is processed one message too late.
LogCountLate ==
  /\ pc = "count"
  /\ v_processCount' = v_processCount + 1
  /\ logged' = Append(logged, sent)
  /\ pc' = IF v_processCount' > bufferSize THEN "loop" ELSE "idle"
  /\ after' = "idle"
  /\ UNCHANGED <<v_buffer, v_pos, v_processBegin, v_size, v_file, open, sent,
                 carried, sessions>>

(* A full buffer is processed before log() returns. *)
LogCount ==
  /\ pc = "count"
  /\ v_processCount' = v_processCount + 1
  /\ logged' = Append(logged, sent)
  /\ pc' = IF v_processCount' >= bufferSize THEN "loop" ELSE "idle"
  /\ after' = "idle"
  /\ UNCHANGED <<v_buffer, v_pos, v_processBegin, v_size, v_file, open, sent,
                 carried, sessions>>

(* process() and shutdown(), called from the main loop.                    *)
Process ==
  /\ pc = "idle"
  /\ \E place \in {"idle", "close"} : after' = place
  /\ pc' = "loop"
  /\ UNCHANGED <<v_buffer, counters, v_file, open, sent, logged, carried, sessions>>

ProcessLoop ==
  /\ pc = "loop"
  /\ pc' = IF v_processCount > 0 THEN "write" ELSE after
  /\ UNCHANGED <<v_buffer, counters, v_file, open, after, sent, logged,
                 carried, sessions>>

(* The index is taken modulo v_size: with v_size = 0, which is how a        *)
(* session may begin with messages pending, the division raises SIGFPE,    *)
(* and only the signal handler goes on.  Without a file nothing is written. *)
ProcessWrite ==
  /\ pc = "write"
  /\ v_size > 0
  /\ v_file' = IF open THEN Append(v_file, v_buffer[v_processBegin % v_size])
               ELSE v_file
  /\ pc' = "begin"
  /\ UNCHANGED <<v_buffer, counters, open, after, sent, logged, carried, sessions>>

ProcessBegin ==
  /\ pc = "begin"
  /\ v_processBegin' = (v_processBegin + 1) % bufferSize
  /\ pc' = "decrement"
  /\ UNCHANGED <<v_buffer, v_pos, v_processCount, v_size, v_file, open, after,
                 sent, logged, carried, sessions>>

ProcessDecrement ==
  /\ pc = "decrement"
  /\ v_processCount' = v_processCount - 1
  /\ pc' = "loop"
  /\ UNCHANGED <<v_buffer, v_pos, v_processBegin, v_size, v_file, open, after,
                 sent, logged, carried, sessions>>

CloseFile ==
  /\ pc = "close"
  /\ open' = FALSE
  /\ pc' = "idle"
  /\ UNCHANGED <<v_buffer, counters, v_file, after, sent, logged, carried, sessions>>

\* Mutant: the handler logs its message and exits without process().
SignalWithoutProcess ==
  /\ Signals
  /\ open
  /\ pc # "exited"
  /\ v_buffer' = [v_buffer EXCEPT ![v_pos] = SignalMessage]
  /\ pc' = "exited"
  /\ open' = FALSE
  /\ UNCHANGED <<counters, v_file, after, sent, logged, carried, sessions>>

(* The signal handler, at any point of the program: log(critical), then    *)
(* process() until nothing is pending, then exit.  It runs to the end: a   *)
(* second signal finds v_signalStatus set and returns.                     *)
Signal ==
  LET stored == [v_buffer EXCEPT ![v_pos] = SignalMessage]
      size   == AtMost(v_size + 1, bufferSize)
      lines  == [i \in 1 .. v_processCount + 1 |->
                   stored[((v_processBegin + i - 1) % bufferSize) % size]]
  IN  /\ Signals
      /\ open
      /\ pc # "exited"
      /\ v_buffer' = stored
      /\ v_size' = size
      /\ v_pos' = (v_pos + 1) % bufferSize
      /\ v_processBegin' = (v_processBegin + v_processCount + 1) % bufferSize
      /\ v_processCount' = 0
      /\ v_file' = v_file \o lines
      /\ pc' = "exited"
      /\ open' = FALSE
      /\ UNCHANGED <<after, sent, logged, carried, sessions>>

Next ==
  \/ InitLog
  \/ LogStore \/ LogSize \/ LogPosition \/ LogCount
  \/ Process \/ ProcessLoop \/ ProcessWrite \/ ProcessBegin
  \/ ProcessDecrement \/ CloseFile
  \/ Signal

Spec == Init /\ [][Next]_vars

getBuffer(index) == v_buffer[(v_pos + index) % v_size]

-----------------------------------------------------------------------------
(***************************************************************************)
(* Properties.                                                             *)
(***************************************************************************)

(* Type correctness: every index of the buffer stays in it, and a full      *)
(* buffer is processed before it overflows.                                *)
TypeOK ==
  /\ v_buffer \in [Slots -> Entries]
  /\ v_pos \in Slots
  /\ v_processBegin \in Slots
  /\ v_processCount \in 0 .. bufferSize
  /\ v_size \in 0 .. bufferSize
  /\ v_file \in Seq(Entries)
  /\ open \in BOOLEAN
  /\ pc \in {"idle", "size", "position", "count", "loop", "write", "begin",
             "decrement", "close", "exited"}
  /\ after \in {"idle", "close"}
  /\ sent \in 0 .. MaxMessages
  /\ logged \in Seq(Messages)
  /\ carried \in BOOLEAN
  /\ sessions \in 0 .. MaxSessions

(* Between two calls of a session that began with nothing pending, the     *)
(* file followed by the pending messages of the buffer is exactly what was *)
(* logged since init(), in order: processing a full buffer, wrapping       *)
(* around and opening a new session neither lose nor repeat a message.     *)
FileAndPending ==
  open /\ ~carried /\ pc = "idle" =>
    v_file \o [i \in 1 .. v_processCount |->
                 v_buffer[(v_processBegin + i - 1) % v_size]] = logged

(* Between two calls, getBuffer(0), getBuffer(1), ... are the latest        *)
(* messages since init(), oldest first.                                    *)
BufferShowsLatest ==
  pc = "idle" =>
    /\ v_size = AtMost(Len(logged), bufferSize)
    /\ \A i \in 0 .. v_size - 1 :
         getBuffer(i) = logged[Len(logged) - v_size + 1 + i]

Completed == {logged[i] : i \in DOMAIN logged}
Written   == {v_file[i] : i \in DOMAIN v_file}

(* A signal loses no message whose log() had returned, wherever it strikes, *)
(* as long as the buffer has room for the interrupted message and its own, *)
(* in a session that began with nothing pending.                           *)
SignalKeepsCompleted ==
  [][pc # "exited" /\ pc' = "exited" /\ ~carried
       /\ Cardinality(Completed \ Written) + 1 < bufferSize
     => Completed \subseteq Written']_vars
=============================================================================
