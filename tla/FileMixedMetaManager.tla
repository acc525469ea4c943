------------------------ MODULE FileMixedMetaManager ------------------------
(***************************************************************************)
(* The meta manager of the default file-instance configuration             *)
(* (meta/.../FileMixedMetaManager.java): the subscription and the cursor   *)
(* live in memory, and one executor thread writes them to the file         *)
(* meta.dat, on a timer when the cursor has changed and at once for a      *)
(* subscription.  Batches are never written.                               *)
(*                                                                         *)
(* A write truncates the file and then fills it.  An empty file parses to  *)
(* null, as if there were none.  The file of the last run is read at start *)
(* (the code reads it at the first access, which the parser makes when it  *)
(* starts, and nothing writes the file in between).                        *)
(***************************************************************************)
EXTENDS MemoryMetaManager

CONSTANT NoData  \* the content of a missing or a truncated file

VARIABLES
  dataFile,           \* meta.dat: a FileMetaInstanceData, or NoData
  updateCursorTasks,  \* the client is in the set of the timer task
  submitted,          \* flushes submitted to the executor and not begun
  flushing            \* the data the executor is writing, NoData for none

fileVars == <<dataFile, updateCursorTasks, submitted, flushing>>

\* The cursor of a client that is not subscribed is not written.
InstanceData ==
  [subscribed |-> subscribed,
   cursor |-> IF subscribed THEN cursor ELSE NoPosition]

FileInit ==
  /\ dataFile = NoData /\ flushing = NoData
  /\ updateCursorTasks = FALSE /\ submitted = 0

LoadFile ==
  /\ subscribed' = (dataFile # NoData /\ dataFile.subscribed)
  /\ cursor' = IF dataFile = NoData THEN NoPosition ELSE dataFile.cursor

-----------------------------------------------------------------------------
(* What the threads of clients do: a task is left before the memory is     *)
(* updated.                                                                *)

SubscribeAndFlush ==
  Subscribe /\ submitted' = submitted + 1
  /\ UNCHANGED <<dataFile, updateCursorTasks, flushing>>

UnsubscribeAndFlush ==
  Unsubscribe /\ submitted' = submitted + 1
  /\ UNCHANGED <<dataFile, updateCursorTasks, flushing>>

AddCursorTask ==
  updateCursorTasks' = TRUE /\ UNCHANGED <<dataFile, submitted, flushing>>

-----------------------------------------------------------------------------
(* The executor thread. *)

\* The timer takes its task out of the set and reads the memory.  Without a
\* cursor its log statement throws, and that flush is over.
BeginTimedFlush ==
  /\ flushing = NoData /\ updateCursorTasks
  /\ updateCursorTasks' = FALSE
  /\ flushing' = IF cursor = NoPosition THEN NoData ELSE InstanceData
  /\ UNCHANGED <<metaVars, dataFile, submitted>>

BeginSubmittedFlush ==
  /\ flushing = NoData /\ submitted > 0
  /\ submitted' = submitted - 1
  /\ flushing' = InstanceData
  /\ UNCHANGED <<metaVars, dataFile, updateCursorTasks>>

Truncate ==
  /\ flushing # NoData /\ dataFile # NoData
  /\ dataFile' = NoData
  /\ UNCHANGED <<metaVars, updateCursorTasks, submitted, flushing>>

EndFlush ==
  /\ flushing # NoData /\ dataFile = NoData
  /\ dataFile' = flushing /\ flushing' = NoData
  /\ UNCHANGED <<metaVars, updateCursorTasks, submitted>>

FlushStep ==
  BeginTimedFlush \/ BeginSubmittedFlush \/ Truncate \/ EndFlush

=============================================================================
