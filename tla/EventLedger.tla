----------------------------- MODULE EventLedger -----------------------------
(****************************************************************************)
(* What the event pipeline promises about each event, whatever threads,     *)
(* buffers and drains are in between: an event that was sent is added to    *)
(* the statistics at most once, and one that is not added was refused       *)
(* because a buffer was full or lost because its thread ended.              *)
(*                                                                          *)
(* EventPipeline implements this module; see Ledger there.                  *)
(****************************************************************************)
EXTENDS Naturals

CONSTANT Event

Fate == {"unsent", "pending", "counted", "rejected", "lost", "cleared"}

VARIABLES
  status,  \* what has become of each event
  tally    \* how often the statistics include each event

ledger == <<status, tally>>

LedgerInit ==
  /\ status = [e \in Event |-> "unsent"]
  /\ tally = [e \in Event |-> 0]

Become(S, from, to) ==
  /\ \A e \in S : status[e] = from
  /\ status' = [e \in Event |-> IF e \in S THEN to ELSE status[e]]

Send(e) == Become({e}, "unsent", "pending") /\ UNCHANGED tally

Reject(e) == Become({e}, "pending", "rejected") /\ UNCHANGED tally

Lose(S) == Become(S, "pending", "lost") /\ UNCHANGED tally

\* A batch reaches the statistics as a whole.
Deliver(S) ==
  /\ Become(S, "pending", "counted")
  /\ tally' = [e \in Event |-> IF e \in S THEN 1 ELSE tally[e]]

\* A reset empties the statistics; what is still pending stays pending.
Clear ==
  /\ Become({e \in Event : status[e] = "counted"}, "counted", "cleared")
  /\ tally' = [e \in Event |-> 0]

LedgerNext ==
  \/ \E e \in Event : Send(e) \/ Reject(e)
  \/ \E S \in SUBSET Event : Lose(S) \/ Deliver(S)
  \/ Clear

LedgerSpec == LedgerInit /\ [][LedgerNext]_ledger
=============================================================================
