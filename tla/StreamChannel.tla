---------------------------- MODULE StreamChannel ----------------------------
(***************************************************************************)
(* What a thread queue promises to the two tasks it connects, with the     *)
(* lock, the condition variable, the shared FIFO, the choke flag and the   *)
(* queue size abstracted away: every stream is a reliable channel of its   *)
(* own.  Items are numbered per stream; the numbers 1..sent[s] were        *)
(* accepted, 1..got[s] were handed to the consumer, in that order.         *)
(*                                                                         *)
(* A stream ends in one of two ways, and only once: the consumer reads the *)
(* end-of-stream mark (Eof), which comes after every accepted item, or it  *)
(* hangs up (Hangup), after which the items in flight are lost.            *)
(***************************************************************************)
EXTENDS Naturals

CONSTANT Streams

VARIABLES
    sent,       \* sent[s]: items accepted from the producers of s
    got,        \* got[s]: number of the last item of s given to the consumer
    closed,     \* streams whose producer is finished
    ended,      \* streams whose consumer is finished
    eofs        \* eofs[s]: end-of-stream marks the consumer has read for s

avars == <<sent, got, closed, ended, eofs>>

AInit ==
    /\ sent = [s \in Streams |-> 0]
    /\ got = [s \in Streams |-> 0]
    /\ closed = {}
    /\ ended = {}
    /\ eofs = [s \in Streams |-> 0]

\* A send that was already waiting when the producer side was closed may still
\* be accepted, so only the end of the stream forbids Put.
Put(s) ==
    /\ s \notin ended
    /\ sent' = [sent EXCEPT ![s] = @ + 1]
    /\ UNCHANGED <<got, closed, ended, eofs>>

Get(s) ==
    /\ s \notin ended
    /\ got[s] < sent[s]
    /\ got' = [got EXCEPT ![s] = @ + 1]
    /\ UNCHANGED <<sent, closed, ended, eofs>>

Close(s) ==
    /\ closed' = closed \cup {s}
    /\ UNCHANGED <<sent, got, ended, eofs>>

Eof(s) ==
    /\ s \in closed
    /\ s \notin ended
    /\ got[s] = sent[s]
    /\ ended' = ended \cup {s}
    /\ eofs' = [eofs EXCEPT ![s] = @ + 1]
    /\ UNCHANGED <<sent, got, closed>>

Hangup(s) ==
    /\ ended' = ended \cup {s}
    /\ UNCHANGED <<sent, got, closed, eofs>>

ANext == \E s \in Streams : Put(s) \/ Get(s) \/ Close(s) \/ Eof(s) \/ Hangup(s)

ASpec == AInit /\ [][ANext]_avars
=============================================================================
