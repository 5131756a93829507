----------------------------- MODULE MemoryAtomic -----------------------------
(***************************************************************************)
(* The transactions of the store in memory (MemoryAtomicCoordinator): one  *)
(* operation at a time, in the order of the calls, with a copy of all the  *)
(* tables that is put back when the operation throws.  An operation is     *)
(* what it writes at once and then one write after another, with other     *)
(* callbacks in between; a write outside of an operation waits for none.   *)
(***************************************************************************)
EXTENDS Sequences

CONSTANT None

VARIABLES
  tables,   \* MemoryState
  running   \* the operation that runs: the copy, and the writes it still makes

NothingRuns == running = None

run(written, todo) ==
  /\ NothingRuns
  /\ tables' = written
  /\ running' = IF todo = <<>> THEN None ELSE [snapshot |-> tables, todo |-> todo]

NextWrite == Head(running.todo)

WritesNext(written) ==
  /\ running # None
  /\ tables' = written
  /\ running' = IF Len(running.todo) = 1 THEN None ELSE [running EXCEPT !.todo = Tail(@)]

Throws == running # None /\ tables' = running.snapshot /\ running' = None

Unserialised(written) == tables' = written /\ UNCHANGED running
=============================================================================
