------------------------------ MODULE JobLedger ------------------------------
(***************************************************************************)
(* What Orchid's job queue promises a publisher: messages are delivered in *)
(* the order of the log, a settled message stays settled, and a job is     *)
(* settled only after it succeeded or was put on the dead letter queue.    *)
(* Nothing is said of how often a job runs: delivery is at least once.     *)
(***************************************************************************)
EXTENDS Integers, Sequences

CONSTANTS
    Jobs,
    IsJob      \* [Jobs -> BOOLEAN], whether the payload is a job at all

VARIABLES
    log,       \* published messages
    delivered, \* length of the delivered prefix of the log
    settled,   \* messages that will not be delivered again
    done,      \* messages whose job succeeded
    dead       \* messages with a dead letter

vars == <<log, delivered, settled, done, dead>>

Init ==
    /\ log = <<>>
    /\ delivered = 0
    /\ settled = {}
    /\ done = {}
    /\ dead = {}

Publish ==
    /\ \E j \in Jobs : log' = Append(log, j)
    /\ UNCHANGED <<delivered, settled, done, dead>>

Deliver ==
    /\ delivered' \in (delivered + 1)..Len(log)
    /\ UNCHANGED <<log, settled, done, dead>>

Succeed ==
    /\ \E m \in 1..delivered : IsJob[log[m]] /\ done' = done \union {m}
    /\ UNCHANGED <<log, delivered, settled, dead>>

Bury ==
    /\ \E m \in 1..delivered : IsJob[log[m]] /\ dead' = dead \union {m}
    /\ UNCHANGED <<log, delivered, settled, done>>

Settle ==
    /\ \E m \in 1..delivered :
         /\ m \in done \/ m \in dead \/ ~IsJob[log[m]]
         /\ settled' = settled \union {m}
    /\ UNCHANGED <<log, delivered, done, dead>>

Next == Publish \/ Deliver \/ Succeed \/ Bury \/ Settle

Spec == Init /\ [][Next]_vars

=============================================================================
