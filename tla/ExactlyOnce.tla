---------------------------- MODULE ExactlyOnce ----------------------------
(***************************************************************************)
(* What capture promises a reader of a table: it holds every change the    *)
(* source committed up to the position its log declares, once each, except *)
(* the changes that were given up on the record.                           *)
(*                                                                         *)
(* A change is a row and the position of the transaction that committed    *)
(* it; positions are where transactions commit, so a table that keeps this *)
(* promise holds whole transactions.                                       *)
(***************************************************************************)
EXTENDS Integers

CONSTANT Tables

VARIABLES
  committed,  \* the changes the source committed to each table
  givenUp,    \* rows dead-lettered, refused, or dropped by a failed publish
  history     \* the commits of rows to each table's log, each to a later position

promised == << committed, givenUp, history >>

(* The position the latest of some commits takes a table to.               *)
PositionOf(commits) ==
  IF commits = {} THEN 0
  ELSE (CHOOSE c \in commits : \A d \in commits : d.covers <= c.covers).covers

Init ==
  /\ committed = [t \in Tables |-> {}]
  /\ givenUp = {}
  /\ history = [t \in Tables |-> {}]

(* The source commits a transaction, after everything it committed before  *)
(* and past every position a table has declared.                           *)
Commit ==
  /\ committed' # committed
  /\ \A t \in Tables :
       /\ committed[t] \subseteq committed'[t]
       /\ \A m \in committed'[t] \ committed[t] :
            /\ \A u \in Tables : \A c \in committed[u] : m.lsn > c.lsn
            /\ \A u \in Tables : m.lsn > PositionOf(history[u])
  /\ UNCHANGED << givenUp, history >>

(* Rows are given up, and the record says so.                              *)
GiveUp ==
  /\ givenUp' # givenUp
  /\ givenUp \subseteq givenUp'
  /\ UNCHANGED << committed, history >>

(* A table moves to a later position with exactly its changes in between,  *)
(* less those that were given up.                                          *)
Publish(t) ==
  /\ \E new \in history'[t] :
       LET due == { c \in committed[t] : c.lsn > PositionOf(history[t]) /\ c.lsn <= new.covers }
       IN  /\ history' = [history EXCEPT ![t] = @ \cup {new}]
           /\ new.covers > PositionOf(history[t])
           /\ new.rows \subseteq due
           /\ { c.row : c \in due \ new.rows } \subseteq givenUp
  /\ givenUp \subseteq givenUp'
  /\ UNCHANGED committed

Next == Commit \/ GiveUp \/ \E t \in Tables : Publish(t)

Spec == Init /\ [][Next]_promised
=============================================================================
