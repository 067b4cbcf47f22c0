------------------------------ MODULE TxOutbox ------------------------------
(***************************************************************************)
(* What the transaction cache promises its clients, whatever the requests  *)
(* and the database do: a transaction waits, then it is settled for good,  *)
(* and a client is told "mined" only of settled transactions.              *)
(***************************************************************************)
CONSTANT Hashes

VARIABLES
  waiting,  \* transactions in the cache
  settled,  \* transactions the cache is done with
  told      \* transactions a client was told are mined

outboxVars == <<waiting, settled, told>>

OutboxInit == waiting = {} /\ settled = {} /\ told = {}

Accept(h) ==
  /\ h \notin waiting \cup settled
  /\ waiting' = waiting \cup {h}
  /\ UNCHANGED <<settled, told>>

(* A transaction with nothing to commit. *)
AcceptSettled(h) ==
  /\ h \notin waiting \cup settled
  /\ settled' = settled \cup {h}
  /\ UNCHANGED <<waiting, told>>

Settle(h) ==
  /\ h \in waiting
  /\ waiting' = waiting \ {h}
  /\ settled' = settled \cup {h}
  /\ UNCHANGED told

Tell(h) ==
  /\ h \in settled
  /\ told' = told \cup {h}
  /\ UNCHANGED <<waiting, settled>>

OutboxNext ==
  \E h \in Hashes : Accept(h) \/ AcceptSettled(h) \/ Settle(h) \/ Tell(h)

OutboxSafety == OutboxInit /\ [][OutboxNext]_outboxVars

(* Every transaction that waits is settled. *)
OutboxSpec == OutboxSafety /\ \A h \in Hashes : WF_outboxVars(Settle(h))
=============================================================================
