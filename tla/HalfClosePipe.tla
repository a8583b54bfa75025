--------------------------- MODULE HalfClosePipe ---------------------------
(***************************************************************************)
(* What a relay promises its two peers, without saying how: two byte       *)
(* streams, each delivered in order and without loss or repetition; the    *)
(* end of a stream is passed on only behind its last byte; the relay       *)
(* reports a clean end only when both ends were passed on, a drain timeout *)
(* only when exactly one was; and whatever it reports, its counters are    *)
(* the bytes that were delivered.                                          *)
(***************************************************************************)
EXTENDS Naturals, Sequences

VARIABLES
    sent,       \* bytes each sender has written; byte i of a stream is i
    fin,        \* the sender has closed its half
    delivered,  \* the bytes handed to each receiver
    finSeen,    \* the end was passed on to the receiver
    outcome     \* how the relay ended, with its byte counters

pipeVars == <<sent, fin, delivered, finSeen, outcome>>

Dirs == {"up", "down"}

Opposite(d) == IF d = "up" THEN "down" ELSE "up"

Open == [kind |-> "Open", up |-> 0, down |-> 0]

Ended(kind) ==
    [kind |-> kind, up |-> Len(delivered["up"]), down |-> Len(delivered["down"])]

PipeInit ==
    /\ sent = [d \in Dirs |-> 0]
    /\ fin = [d \in Dirs |-> FALSE]
    /\ delivered = [d \in Dirs |-> <<>>]
    /\ finSeen = [d \in Dirs |-> FALSE]
    /\ outcome = Open

Write(d) ==
    /\ ~fin[d]
    /\ sent' = [sent EXCEPT ![d] = @ + 1]
    /\ UNCHANGED <<fin, delivered, finSeen, outcome>>

CloseHalf(d) ==
    /\ ~fin[d]
    /\ fin' = [fin EXCEPT ![d] = TRUE]
    /\ UNCHANGED <<sent, delivered, finSeen, outcome>>

Deliver(d, n) ==
    /\ ~finSeen[d]
    /\ n > Len(delivered[d]) /\ n <= sent[d]
    /\ delivered' = [delivered EXCEPT ![d] = [i \in 1..n |-> i]]
    /\ UNCHANGED <<sent, fin, finSeen, outcome>>

PassEnd(d) ==
    /\ fin[d] /\ ~finSeen[d]
    /\ Len(delivered[d]) = sent[d]
    /\ finSeen' = [finSeen EXCEPT ![d] = TRUE]
    /\ outcome' = IF finSeen[Opposite(d)] THEN Ended("Closed") ELSE outcome
    /\ UNCHANGED <<sent, fin, delivered>>

GiveUp(kind) ==
    /\ kind = "TimedOut" => \E d \in Dirs : finSeen[d] /\ ~finSeen[Opposite(d)]
    /\ outcome' = Ended(kind)
    /\ UNCHANGED <<sent, fin, delivered, finSeen>>

PipeNext ==
    /\ outcome = Open
    /\ \/ \E d \in Dirs : Write(d) \/ CloseHalf(d) \/ PassEnd(d)
       \/ \E d \in Dirs : \E n \in 1..sent[d] : Deliver(d, n)
       \/ \E kind \in {"TimedOut", "Failed", "Dropped"} : GiveUp(kind)

PipeSpec == PipeInit /\ [][PipeNext]_pipeVars
=============================================================================
