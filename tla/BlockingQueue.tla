---------------------------- MODULE BlockingQueue ----------------------------
(***************************************************************************)
(* What a bounded queue with one blocking reader promises: items leave in  *)
(* the order they entered, a shutdown comes before a requested wake, a     *)
(* wake before the items, draining ends only an empty queue, and a reader  *)
(* that has something to return for does return.  LinkedQueue implements   *)
(* this specification with a mutex and a condition variable.               *)
(***************************************************************************)
EXTENDS Naturals, Sequences

CONSTANTS
  Item,   \* what the queue carries
  Bound   \* its capacity

VARIABLES
  items,     \* the queued items, oldest first
  shutdown,  \* the queue was shut down
  draining,  \* the queue takes no more items
  userWake,  \* a wake has been requested and not yet delivered
  reading,   \* the reader is inside a blocking read
  result     \* what the last read returned

vars == <<items, shutdown, draining, userWake, reading, result>>

Interrupted == "interrupted"
Woken       == "woken"
Empty       == "empty"

Init ==
  /\ items = <<>>
  /\ shutdown = FALSE
  /\ draining = FALSE
  /\ userWake = FALSE
  /\ reading = FALSE
  /\ result = Empty

Offer(i) ==
  /\ ~shutdown /\ ~draining
  /\ Len(items) < Bound
  /\ items' = Append(items, i)
  /\ UNCHANGED <<shutdown, draining, userWake, reading, result>>

Flush ==
  /\ items' = <<>>
  /\ UNCHANGED <<shutdown, draining, userWake, reading, result>>

Shutdown ==
  /\ shutdown' = TRUE
  /\ UNCHANGED <<items, draining, userWake, reading, result>>

Drain ==
  /\ draining' = TRUE
  /\ UNCHANGED <<items, shutdown, userWake, reading, result>>

Wake ==
  /\ userWake' = TRUE
  /\ UNCHANGED <<items, shutdown, draining, reading, result>>

Read ==
  /\ ~reading
  /\ reading' = TRUE
  /\ UNCHANGED <<items, shutdown, draining, userWake, result>>

ReturnItem ==
  /\ ~shutdown /\ ~userWake
  /\ items # <<>>
  /\ result' = Head(items)
  /\ items' = Tail(items)
  /\ UNCHANGED userWake

ReturnWoken ==
  /\ ~shutdown /\ userWake
  /\ result' = Woken
  /\ userWake' = FALSE
  /\ UNCHANGED items

ReturnInterrupted ==
  /\ shutdown \/ (draining /\ ~userWake /\ items = <<>>)
  /\ result' = Interrupted
  /\ UNCHANGED <<items, userWake>>

Return ==
  /\ reading
  /\ reading' = FALSE
  /\ ReturnItem \/ ReturnWoken \/ ReturnInterrupted
  /\ UNCHANGED <<shutdown, draining>>

(* A read that does not block, between two blocking ones.                  *)
Poll ==
  /\ ~reading
  /\ \/ /\ ~shutdown
        /\ items # <<>>
        /\ result' = Head(items)
        /\ items' = Tail(items)
     \/ /\ shutdown \/ (draining /\ items = <<>>)
        /\ result' = Interrupted
        /\ UNCHANGED items
     \/ /\ ~shutdown /\ ~draining
        /\ items = <<>>
        /\ result' = Empty
        /\ UNCHANGED items
  /\ UNCHANGED <<shutdown, draining, userWake, reading>>

Next ==
  \/ \E i \in Item : Offer(i)
  \/ Flush \/ Shutdown \/ Drain \/ Wake
  \/ Read \/ Return \/ Poll

Spec == Init /\ [][Next]_vars /\ WF_vars(Return)

=============================================================================
