------------------------------ MODULE Batcher ------------------------------
(***************************************************************************)
(* The batcher of crates/sankhya-cdc-apply, one per captured table: rows   *)
(* wait under their transaction until its end seals them, and only sealed  *)
(* rows are flushed.                                                       *)
(*                                                                         *)
(* A row is its position in the source's stream, a transaction the         *)
(* position of its first message, and a commit position the position of    *)
(* the message that commits.  Age is left out: the pipeline never ticks.   *)
(***************************************************************************)
EXTENDS Integers, FiniteSets, Functions

CONSTANTS
  MaxRows,          \* BatchPolicy::max_rows
  MaxTransactions   \* BatchPolicy::max_transactions

NoTransaction == 0

(* sealed: the rows ready to publish, each with its commit position.       *)
(* open: the rows of each transaction in flight.  current: the transaction *)
(* rows are being read for.  seals, covers: sealed_transactions and        *)
(* covers_through.                                                         *)
NewBatcher ==
  [sealed |-> {}, open |-> << >>, current |-> NoTransaction, seals |-> 0, covers |-> 0]

OpenRows(b) == UNION { b.open[x] : x \in DOMAIN b.open }

(* open.entry(x).or_default()                                              *)
Waiting(b, x) == IF x \in DOMAIN b.open THEN b.open[x] ELSE {}

Put(b, x, rows) == [y \in DOMAIN b.open \cup {x} |-> IF y = x THEN rows ELSE b.open[y]]

(* Begin and StreamStart.                                                  *)
Opened(b, x) == [b EXCEPT !.current = x, !.open = Put(b, x, Waiting(b, x))]

(* Mutant: whatever is open is sealed by the commit that arrives.          *)
SealEverything(b, x, lsn) ==
  [b EXCEPT !.open = << >>,
            !.sealed = @ \cup { [row |-> r, lsn |-> lsn] : r \in OpenRows(b) },
            !.seals = @ + 1,
            !.covers = IF lsn > @ THEN lsn ELSE @]

(* seal: the transaction's rows get the position that commits them.        *)
Seal(b, x, lsn) ==
  IF x \notin DOMAIN b.open THEN b
  ELSE [b EXCEPT !.open = Restrict(@, DOMAIN @ \ {x}),
                 !.sealed = @ \cup { [row |-> r, lsn |-> lsn] : r \in b.open[x] },
                 !.seals = @ + 1,
                 !.covers = IF lsn > @ THEN lsn ELSE @]

(* Commit names no transaction: it ends the one being read.                *)
CurrentCommitted(b, lsn) ==
  IF b.current = NoTransaction THEN b
  ELSE [Seal(b, b.current, lsn) EXCEPT !.current = NoTransaction]

Left(b, x) == [b EXCEPT !.current = IF @ = x THEN NoTransaction ELSE @]

StreamCommitted(b, x, lsn) == Left(Seal(b, x, lsn), x)

(* StreamAbort, which drops the transaction it names as its outer one      *)
(* whichever of its subtransactions is the one that was rolled back.       *)
StreamAborted(b, x) == Left([b EXCEPT !.open = Restrict(@, DOMAIN @ \ {x})], x)

(* The messages that begin and end a transaction, or a part of one.        *)
Openings == { "begin", "start" }
Endings  == { "commit", "stream_commit", "stream_abort" }

(* What a boundary message does.                                           *)
Boundary(b, m, lsn) ==
  CASE m.kind \in Openings           -> Opened(b, m.xid)
    [] m.kind = "commit"             -> CurrentCommitted(b, lsn)
    [] m.kind = "stream_commit"      -> StreamCommitted(b, m.xid, lsn)
    [] m.kind = "stream_abort"       -> StreamAborted(b, m.xid)

(* push_row refuses a row outside a transaction, and one with a value      *)
(* withheld: the pipeline never has a current row to resolve it with.      *)
Refuses(b, m) == b.current = NoTransaction \/ m.kind = "withheld"

Pushed(b, row) ==
  [b EXCEPT !.open = Put(b, b.current, Waiting(b, b.current) \cup {row})]

(* due, without the triggers that go by age.                               *)
Due(b) ==
  /\ b.sealed # {}
  /\ Cardinality(b.sealed) >= MaxRows \/ b.seals >= MaxTransactions

(* What flush leaves behind.                                               *)
Flushed(b) == [b EXCEPT !.sealed = {}, !.seals = 0]
=============================================================================
