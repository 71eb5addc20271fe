---------------------------- MODULE MessageQueue ----------------------------
(***************************************************************************)
(* What an outbox promises to those who put messages into it.              *)
(*                                                                         *)
(* A message that is posted is open until it is either sent or given up,   *)
(* for good.  While it is open it is tried, and each try may hand over a   *)
(* copy; a second copy is handed over only when the receipt of the one     *)
(* before was lost.  It counts as sent only with a copy whose receipt was  *)
(* kept, and is given up only after so many tries.  How messages are       *)
(* queued, claimed, batched and recovered does not appear here.            *)
(***************************************************************************)
EXTENDS Naturals

CONSTANTS
    Messages,   \* the messages
    Tries       \* tries a message is given before it is given up

VARIABLES
    fate,       \* fate[m]: absent, open, sent or failed
    tried,      \* tried[m]: tries so far
    copies,     \* copies[m]: copies handed over
    lostCopies  \* lostCopies[m]: copies whose receipt was lost

queueVars == <<fate, tried, copies, lostCopies>>

Init ==
    /\ fate = [m \in Messages |-> "absent"]
    /\ tried = [m \in Messages |-> 0]
    /\ copies = [m \in Messages |-> 0]
    /\ lostCopies = [m \in Messages |-> 0]

Open(m) == fate[m] = "open"

\* The last copy of m has been handed over, and its receipt is still to be noted.
Unnoted(m) == copies[m] > lostCopies[m]

Post(m) ==
    /\ fate[m] = "absent"
    /\ fate' = [fate EXCEPT ![m] = "open"]
    /\ UNCHANGED <<tried, copies, lostCopies>>

\* Any number of open messages is taken up for a try.
Try ==
    /\ \A m \in Messages : tried'[m] = tried[m] \/ (Open(m) /\ tried'[m] = tried[m] + 1)
    /\ UNCHANGED <<fate, copies, lostCopies>>

HandOver(m) ==
    /\ Open(m)
    /\ ~Unnoted(m)
    /\ copies' = [copies EXCEPT ![m] = @ + 1]
    /\ UNCHANGED <<fate, tried, lostCopies>>

Succeed(m) ==
    /\ Open(m)
    /\ Unnoted(m)
    /\ fate' = [fate EXCEPT ![m] = "sent"]
    /\ UNCHANGED <<tried, copies, lostCopies>>

\* A receipt is lost; the message stays open, or this was its last try.
LoseReceipt(m) ==
    /\ Open(m)
    /\ Unnoted(m)
    /\ lostCopies' = [lostCopies EXCEPT ![m] = @ + 1]
    /\ \/ UNCHANGED fate
       \/ tried[m] >= Tries /\ fate' = [fate EXCEPT ![m] = "failed"]
    /\ UNCHANGED <<tried, copies>>

GiveUp(m) ==
    /\ Open(m)
    /\ ~Unnoted(m)
    /\ tried[m] >= Tries
    /\ fate' = [fate EXCEPT ![m] = "failed"]
    /\ UNCHANGED <<tried, copies, lostCopies>>

Next ==
    \/ Try
    \/ \E m \in Messages :
        Post(m) \/ HandOver(m) \/ Succeed(m) \/ LoseReceipt(m) \/ GiveUp(m)

SafeSpec == Init /\ [][Next]_queueVars

\* And every message that is posted meets its fate.
Spec == SafeSpec /\ \A m \in Messages : Open(m) ~> fate[m] \in {"sent", "failed"}
=============================================================================
