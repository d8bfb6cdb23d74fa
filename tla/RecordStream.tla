---------------------------- MODULE RecordStream ----------------------------
(***************************************************************************)
(* What the plugin library promises the two ends of the record pipe: the   *)
(* agent decodes exactly the records the threads of the plugin handed to   *)
(* the client, one after the other, each sender's in the order it sent     *)
(* them and none twice.  Records handed over but not yet decoded may be    *)
(* lost when an end goes away: nothing says that Deliver must happen.      *)
(***************************************************************************)
EXTENDS Naturals, Sequences

CONSTANTS
    Senders,   \* threads that call send_record, send_records, raw_write_all
    Numbers    \* the n-th record of a sender has number n

VARIABLES
    accepted,  \* records taken by the client, in the order of the stream
    delivered  \* how many of them the agent has decoded

Records == [from : Senders, nr : Numbers]

Init ==
    /\ accepted = <<>>
    /\ delivered = 0

\* The client takes a record later than every record it took from that sender.
Accept(s, n) ==
    /\ \A i \in 1..Len(accepted) : accepted[i].from = s => accepted[i].nr < n
    /\ accepted' = Append(accepted, [from |-> s, nr |-> n])
    /\ UNCHANGED delivered

\* The agent decodes the next record.
Deliver ==
    /\ delivered < Len(accepted)
    /\ delivered' = delivered + 1
    /\ UNCHANGED accepted

Next ==
    \/ \E s \in Senders, n \in Numbers : Accept(s, n)
    \/ Deliver

Spec == Init /\ [][Next]_<<accepted, delivered>>
=============================================================================
