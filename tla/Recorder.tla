------------------------------ MODULE Recorder ------------------------------
(***************************************************************************)
(* The recorder of internal/storage/sqlite.go: feeds enqueue records without   *)
(* blocking, one writer goroutine gathers them in batches, and each batch is    *)
(* one transaction, which commits or rolls back as a whole.                   *)
(***************************************************************************)
EXTENDS Integers, Sequences

CONSTANTS QueueSize,    \* capacity of the channel
          RecordBatch   \* records gathered before a transaction

ASSUME RecorderAssumption == QueueSize \in Nat \ {0} /\ RecordBatch \in Nat \ {0}

VARIABLES queue,     \* Database.queue
          items,     \* the writer's batch
          stored,    \* committed rows, in order
          dropped,   \* Database.dropped
          writer     \* "open", "closing" after Close, "stopped" when writeLoop returned

recorderVars == <<queue, items, stored, dropped, writer>>

RecorderInit ==
  /\ queue = <<>> /\ items = <<>> /\ stored = <<>>
  /\ dropped = 0 /\ writer = "open"

\* RecordTrade, RecordQuote, RecordUIEvent: a full queue drops the record.
Record(r) ==
  /\ writer = "open"
  /\ IF Len(queue) < QueueSize
     THEN queue' = Append(queue, r) /\ UNCHANGED dropped
     ELSE dropped' = dropped + 1 /\ UNCHANGED queue
  /\ UNCHANGED <<items, stored, writer>>

\* flush: the transaction commits, or everything in it is counted as dropped.
Written(batch) ==
  /\ items' = <<>>
  /\ \/ stored' = stored \o batch /\ UNCHANGED dropped
     \/ batch # <<>> /\ dropped' = dropped + Len(batch) /\ UNCHANGED stored

\* writeLoop receives a record, also after Close; a full batch is written.
TakeItem ==
  LET gathered == Append(items, Head(queue))
  IN /\ writer # "stopped" /\ queue # <<>>
     /\ queue' = Tail(queue)
     /\ IF Len(gathered) >= RecordBatch THEN Written(gathered)
        ELSE items' = gathered /\ UNCHANGED <<stored, dropped>>
     /\ UNCHANGED writer

\* writeLoop's ticker.
FlushTick ==
  /\ writer # "stopped" /\ items # <<>>
  /\ Written(items)
  /\ UNCHANGED <<queue, writer>>

\* Close closes the queue and waits for the writer.
CloseQueue ==
  /\ writer = "open" /\ writer' = "closing"
  /\ UNCHANGED <<queue, items, stored, dropped>>

\* The closed queue is empty: a last batch, and the writer ends.
StopWriting ==
  /\ writer = "closing" /\ queue = <<>>
  /\ Written(items)
  /\ writer' = "stopped" /\ UNCHANGED queue

WriterStep == TakeItem \/ FlushTick \/ StopWriting

\* The process starts again on the same database: what was in memory is gone.
RecorderRestarts ==
  /\ queue' = <<>> /\ items' = <<>> /\ dropped' = 0 /\ writer' = "open"
  /\ UNCHANGED stored
=============================================================================
