------------------------------- MODULE Relay -------------------------------
(***************************************************************************)
(* The relay engine, eggress-relay/src/lib.rs: one future that copies      *)
(* bytes between a client and a server until both halves are closed.       *)
(*                                                                         *)
(* The future is polled when it was woken.  A poll runs each direction for *)
(* at most Budget loop iterations; the streams and the timer go on         *)
(* changing while it runs, so every iteration of poll_direction is a step. *)
(* A poll_read, poll_write or poll_shutdown that returns Pending leaves    *)
(* its waker with the stream (`waits`), and the event it waits for sets    *)
(* `woken` again.                                                          *)
(*                                                                         *)
(* The server side of the relay may be the HttpOnlyStream of               *)
(* eggress-outbound/src/hops.rs, a writer that keeps what it accepts until *)
(* it is written to again or shut down.                                    *)
(***************************************************************************)
EXTENDS Integers, Sequences

CONSTANTS
    BufferSize,  \* RelayOptions.buffer_size
    Window,      \* bytes a receiving socket holds that its peer has not read
    Budget,      \* iterations of poll_direction's loop (16)
    MaxBytes,    \* bound: bytes each peer sends
    Policies,    \* HalfClosePolicy values a relay may be started with
    Upstreams,   \* kinds of server stream: a socket, an HttpOnlyStream
    HeadLength   \* bytes of the request head HttpOnlyStream rewrites

ASSUME RelayAssumption ==
    /\ BufferSize \in Nat \ {0} /\ Window \in Nat \ {0}
    /\ Budget \in Nat \ {0, 1} /\ MaxBytes \in Nat
    /\ Policies \subseteq {"Drain", "DrainFor"}
    /\ Upstreams \subseteq {"Socket", "HttpOnly"} /\ HeadLength \in Nat \ {0}

VARIABLES
    sent, fin, wire,   \* what each direction's sender wrote, whether it
                       \* closed, and the bytes the relay has not read yet
    delivered, unread, \* what the relay wrote, how much of it the receiver's
                       \* peer has still to read
    reset,             \* connections torn down under the relay
    upstream, pending, rewritten,  \* the server stream, and HttpOnlyStream's
                                   \* pending and rewritten
    dir,               \* DirectionState of both directions
    half_close, first_closed, deadline,  \* RelayFuture
    report,            \* what the future returned
    pc, steps, made_progress,            \* where the poll in progress is
    woken, waits       \* the task's wake flag and the wakers it left behind

peerVars == <<sent, fin, unread, reset>>
httpOnlyVars == <<upstream, pending, rewritten>>
pollVars == <<pc, steps, made_progress>>
vars == <<sent, fin, wire, delivered, unread, reset, httpOnlyVars, dir, half_close,
          first_closed, deadline, report, pc, steps, made_progress, woken, waits>>

Dirs == {"up", "down"}
Sides == {"Client", "Server"}

Opposite(d) == IF d = "up" THEN "down" ELSE "up"

(* The direction a side feeds: upstream reads the client. *)
FedBy(side) == IF side = "Client" THEN "up" ELSE "down"
Source(d) == IF d = "up" THEN "Client" ELSE "Server"
Sink(d) == IF d = "up" THEN "Server" ELSE "Client"

LeastOf(a, b) == IF a < b THEN a ELSE b

Room(d) == Window - unread[d]

(* The writer of direction d keeps what it accepts until it is flushed. *)
Buffers(d) == d = "up" /\ upstream = "HttpOnly"

Running == report.kind = "Open"
-----------------------------------------------------------------------------
(* DirectionState::new; read_len is the length of buffer. *)
FreshDirection ==
    [buffer |-> <<>>, write_pos |-> 0, bytes |-> 0, eof |-> FALSE,
     shutdown_complete |-> FALSE]

(* RelayFuture::new; a new task is polled once without being woken. *)
Init ==
    /\ sent = [d \in Dirs |-> 0]
    /\ fin = [d \in Dirs |-> FALSE]
    /\ wire = [d \in Dirs |-> <<>>]
    /\ delivered = [d \in Dirs |-> <<>>]
    /\ unread = [d \in Dirs |-> 0]
    /\ reset = {}
    /\ upstream \in Upstreams /\ pending = <<>> /\ rewritten = "No"
    /\ dir = [d \in Dirs |-> FreshDirection]
    /\ half_close \in Policies
    /\ first_closed = "None"
    /\ deadline = "None"
    /\ report = [kind |-> "Open", up |-> 0, down |-> 0]
    /\ pc = "Idle" /\ steps = 0 /\ made_progress = FALSE
    /\ woken = TRUE
    /\ waits = {}
-----------------------------------------------------------------------------
(* The two peers and the timer.  An event wakes the task if it left a      *)
(* waker for it; a waker is used once.                                     *)
Wake(events) ==
    /\ woken' = (woken \/ events \cap waits # {})
    /\ waits' = waits \ events

Send(d) ==
    /\ Running /\ ~fin[d] /\ Source(d) \notin reset
    /\ sent[d] < MaxBytes
    /\ sent' = [sent EXCEPT ![d] = @ + 1]
    /\ wire' = [wire EXCEPT ![d] = Append(@, sent[d] + 1)]
    /\ Wake({<<"read", d>>})
    /\ UNCHANGED <<fin, delivered, unread, reset, dir, half_close, httpOnlyVars, first_closed,
                   deadline, report, pollVars>>

Close(d) ==
    /\ Running /\ ~fin[d] /\ Source(d) \notin reset
    /\ fin' = [fin EXCEPT ![d] = TRUE]
    /\ Wake({<<"read", d>>})
    /\ UNCHANGED <<sent, wire, delivered, unread, reset, dir, half_close, httpOnlyVars,
                   first_closed, deadline, report, pollVars>>

Consume(d) ==
    /\ Running /\ Sink(d) \notin reset
    /\ unread[d] > 0
    /\ unread' = [unread EXCEPT ![d] = @ - 1]
    /\ Wake({<<"write", d>>})
    /\ UNCHANGED <<sent, fin, wire, delivered, reset, dir, half_close, httpOnlyVars,
                   first_closed, deadline, report, pollVars>>

Reset(side) ==
    /\ Running /\ side \notin reset
    /\ reset' = reset \cup {side}
    /\ Wake({<<"read", FedBy(side)>>, <<"write", Opposite(FedBy(side))>>})
    /\ UNCHANGED <<sent, fin, wire, delivered, unread, dir, half_close, httpOnlyVars,
                   first_closed, deadline, report, pollVars>>

(* The Sleep of start_drain elapses. *)
DeadlineElapses ==
    /\ Running /\ deadline = "Armed"
    /\ deadline' = "Elapsed"
    /\ Wake({<<"timer", "drain">>})
    /\ UNCHANGED <<sent, fin, wire, delivered, unread, reset, dir, half_close, httpOnlyVars,
                   first_closed, report, pollVars>>
-----------------------------------------------------------------------------
(* The direction that poll_direction is working on. *)
Current == CASE pc = "Up" -> "up"
             [] pc = "Down" -> "down"
             [] OTHER -> IF first_closed = "Client" THEN "down" ELSE "up"

Polling == pc \in {"Up", "Down", "Rest"}

(* Another round of the loop. *)
Continue(progress) ==
    /\ steps' = steps + 1
    /\ made_progress' = (made_progress \/ progress)
    /\ UNCHANGED <<pc, first_closed, deadline, report>>

(* poll_direction returns Pending or Progress: the poll goes on to the     *)
(* other direction, or ends.                                               *)
LeaveDirection ==
    /\ pc' = IF pc = "Up" THEN "Down" ELSE "Idle"
    /\ steps' = 0 /\ made_progress' = FALSE
    /\ UNCHANGED <<first_closed, deadline, report>>

Finish(kind) ==
    /\ report' = [kind |-> kind, up |-> dir["up"].bytes, down |-> dir["down"].bytes]
    /\ pc' = "Done" /\ steps' = 0 /\ made_progress' = FALSE
    /\ UNCHANGED <<first_closed, deadline>>

(* start_drain as it would be if the timer of the drain were forgotten. *)
StartDrainNoTimer(side) ==
    /\ first_closed' = side
    /\ UNCHANGED deadline
    /\ pc' = "Deadline" /\ steps' = 0 /\ made_progress' = FALSE
    /\ UNCHANGED report

(* start_drain *)
StartDrain(side) ==
    /\ first_closed' = side
    /\ deadline' = IF half_close = "DrainFor" THEN "Armed" ELSE deadline
    /\ pc' = "Deadline" /\ steps' = 0 /\ made_progress' = FALSE
    /\ UNCHANGED report

(* poll_direction returns Complete. *)
CompleteDirection ==
    IF first_closed = "None"
    THEN StartDrain(Source(Current))
    ELSE Finish("Closed")

(* A Pending leaves a waker with the stream. *)
LeaveWaker(event) ==
    /\ waits' = waits \cup {event}
    /\ UNCHANGED woken
    /\ LeaveDirection
-----------------------------------------------------------------------------
(* RelayFuture::poll, entered by the scheduler on a woken task. *)
StartPoll ==
    /\ pc = "Idle" /\ woken
    /\ woken' = FALSE
    /\ pc' = IF first_closed = "None" THEN "Up" ELSE "Deadline"
    /\ UNCHANGED <<peerVars, wire, delivered, dir, half_close, httpOnlyVars, first_closed,
                   deadline, report, steps, made_progress, waits>>

(* The test as it would be with an off-by-one: the last byte stays behind. *)
UnwrittenOffByOne(state) == state.write_pos + 1 < Len(state.buffer)

Unwritten(state) == state.write_pos < Len(state.buffer)

(* The loop's first branch: some of the buffer is still to be written. *)
PollWrite ==
    LET d == Current  s == dir[d] IN
    /\ Polling /\ steps < Budget /\ Unwritten(s) /\ ~Buffers(d)
    /\ UNCHANGED <<sent, fin, reset, half_close, httpOnlyVars, wire>>
    /\ \/ /\ Sink(d) \notin reset /\ Room(d) > 0
          /\ \E n \in 1..LeastOf(Room(d), Len(s.buffer) - s.write_pos) :
                /\ delivered' = [delivered EXCEPT ![d] =
                        @ \o SubSeq(s.buffer, s.write_pos + 1, s.write_pos + n)]
                /\ unread' = [unread EXCEPT ![d] = @ + n]
                /\ dir' = [dir EXCEPT ![d].write_pos = @ + n, ![d].bytes = @ + n]
          /\ Continue(TRUE)
          /\ UNCHANGED <<woken, waits>>
       \/ /\ Sink(d) \notin reset /\ Room(d) = 0
          /\ LeaveWaker(<<"write", d>>)
          /\ UNCHANGED <<delivered, unread, dir>>
       \/ /\ Sink(d) \in reset
          /\ Finish("Failed")
          /\ UNCHANGED <<delivered, unread, dir, woken, waits>>

(* HttpOnlyStream::poll_flush: as much of pending as the socket takes; the *)
(* request line is made absolute when the end of the head is in pending,   *)
(* which changes it only if its beginning is there too.                    *)
PollFlush(d) ==
    LET n == LeastOf(Room(d), Len(pending)) IN
    /\ delivered' = [delivered EXCEPT ![d] = @ \o SubSeq(pending, 1, n)]
    /\ unread' = [unread EXCEPT ![d] = @ + n]
    /\ rewritten' = IF rewritten = "No" /\ \E i \in DOMAIN pending : pending[i] = HeadLength
                    THEN IF pending[1] = 1 THEN "Absolute" ELSE "Missed"
                    ELSE rewritten

(* HttpOnlyStream::poll_write: what is pending is written out first, then  *)
(* the data becomes pending.                                               *)
PollWriteHttpOnly ==
    LET d == Current  s == dir[d] IN
    /\ Polling /\ steps < Budget /\ Unwritten(s) /\ Buffers(d)
    /\ UNCHANGED <<sent, fin, reset, half_close, upstream, wire>>
    /\ \/ /\ pending = <<>> \/ (Sink(d) \notin reset /\ Len(pending) <= Room(d))
          /\ PollFlush(d)
          /\ pending' = SubSeq(s.buffer, s.write_pos + 1, Len(s.buffer))
          /\ dir' = [dir EXCEPT ![d].write_pos = Len(s.buffer),
                                ![d].bytes = @ + Len(s.buffer) - s.write_pos]
          /\ Continue(TRUE)
          /\ UNCHANGED <<woken, waits>>
       \/ /\ Sink(d) \notin reset /\ Len(pending) > Room(d)
          /\ PollFlush(d)
          /\ pending' = SubSeq(pending, Room(d) + 1, Len(pending))
          /\ LeaveWaker(<<"write", d>>)
          /\ UNCHANGED dir
       \/ /\ Sink(d) \in reset /\ pending # <<>>
          /\ Finish("Failed")
          /\ UNCHANGED <<delivered, unread, pending, rewritten, dir, woken, waits>>

(* The buffer is written out: read_len and write_pos go back to 0. *)
Emptied(s) == [s EXCEPT !.buffer = <<>>, !.write_pos = 0]

(* The second branch: the source is at its end, the sink is shut down.  A  *)
(* sink that has lost its peer (BrokenPipe, ConnectionReset) counts as     *)
(* shut down; any other error fails the relay.  A stream that still has to *)
(* flush returns Pending; an HttpOnlyStream flushes what is pending.       *)
PollShutdown ==
    LET d == Current
        s == dir[d]
        held == Buffers(d) /\ Sink(d) \notin reset
    IN
    /\ Polling /\ steps < Budget /\ ~Unwritten(s) /\ s.eof
    /\ UNCHANGED <<sent, fin, reset, half_close, upstream, wire>>
    /\ IF held
       THEN PollFlush(d) /\ pending' = SubSeq(pending, LeastOf(Room(d), Len(pending)) + 1, Len(pending))
       ELSE UNCHANGED <<delivered, unread, pending, rewritten>>
    /\ \/ /\ held => Len(pending) <= Room(d)
          /\ dir' = [dir EXCEPT ![d] = [Emptied(s) EXCEPT !.shutdown_complete = TRUE]]
          /\ CompleteDirection
          /\ UNCHANGED <<woken, waits>>
       \/ /\ Sink(d) \in reset
          /\ dir' = [dir EXCEPT ![d] = Emptied(s)]
          /\ Finish("Failed")
          /\ UNCHANGED <<woken, waits>>
       \/ /\ Sink(d) \notin reset
          /\ IF held THEN Len(pending) >= Room(d) ELSE Room(d) = 0
          /\ dir' = [dir EXCEPT ![d] = Emptied(s)]
          /\ LeaveWaker(<<"write", d>>)

(* The third branch: the buffer is empty and is filled again. *)
PollRead ==
    LET d == Current  s == dir[d] IN
    /\ Polling /\ steps < Budget /\ ~Unwritten(s) /\ ~s.eof
    /\ UNCHANGED <<sent, fin, reset, half_close, httpOnlyVars, delivered, unread>>
    /\ \/ /\ Source(d) \notin reset /\ wire[d] # <<>>
          /\ \E n \in 1..LeastOf(BufferSize, Len(wire[d])) :
                /\ dir' = [dir EXCEPT ![d] =
                        [Emptied(s) EXCEPT !.buffer = SubSeq(wire[d], 1, n)]]
                /\ wire' = [wire EXCEPT ![d] = SubSeq(@, n + 1, Len(@))]
          /\ Continue(TRUE)
          /\ UNCHANGED <<woken, waits>>
       \/ /\ Source(d) \notin reset /\ wire[d] = <<>> /\ fin[d]
          /\ dir' = [dir EXCEPT ![d] = [Emptied(s) EXCEPT !.eof = TRUE]]
          /\ Continue(FALSE)
          /\ UNCHANGED <<wire, woken, waits>>
       \/ /\ Source(d) \notin reset /\ wire[d] = <<>> /\ ~fin[d]
          /\ dir' = [dir EXCEPT ![d] = Emptied(s)]
          /\ LeaveWaker(<<"read", d>>)
          /\ UNCHANGED wire
       \/ /\ Source(d) \in reset
          /\ dir' = [dir EXCEPT ![d] = Emptied(s)]
          /\ Finish("Failed")
          /\ UNCHANGED <<wire, woken, waits>>

(* The end of the budget as it would be without wake_by_ref. *)
BudgetSpentNoWake ==
    /\ Polling /\ steps = Budget
    /\ LeaveDirection
    /\ UNCHANGED <<peerVars, wire, delivered, dir, half_close, httpOnlyVars, woken, waits>>

(* The budget is spent: a direction that moved bytes wakes its own task. *)
BudgetSpent ==
    /\ Polling /\ steps = Budget
    /\ woken' = (woken \/ made_progress)
    /\ LeaveDirection
    /\ UNCHANGED <<peerVars, wire, delivered, dir, half_close, httpOnlyVars, waits>>

(* The drain deadline is looked at before the direction that is left. *)
PollDeadline ==
    /\ pc = "Deadline"
    /\ UNCHANGED <<peerVars, wire, delivered, dir, half_close, httpOnlyVars, woken>>
    /\ \/ deadline = "Elapsed" /\ Finish("TimedOut") /\ UNCHANGED waits
       \/ /\ deadline # "Elapsed"
          /\ waits' = IF deadline = "Armed" THEN waits \cup {<<"timer", "drain">>}
                      ELSE waits
          /\ pc' = "Rest"
          /\ UNCHANGED <<steps, made_progress, first_closed, deadline, report>>

(* The owner drops the future between two polls. *)
DropFuture ==
    /\ pc = "Idle" /\ Running
    /\ Finish("Dropped")
    /\ UNCHANGED <<peerVars, wire, delivered, dir, half_close, httpOnlyVars, woken, waits>>

(* Nothing happens to a relay that has returned. *)
Returned == pc = "Done" /\ UNCHANGED vars

TaskStep ==
    \/ StartPoll
    \/ PollWrite \/ PollWriteHttpOnly \/ PollShutdown \/ PollRead
    \/ BudgetSpent
    \/ PollDeadline

Next ==
    \/ TaskStep
    \/ \E d \in Dirs : Send(d) \/ Close(d) \/ Consume(d)
    \/ \E side \in Sides : Reset(side)
    \/ DeadlineElapses
    \/ DropFuture
    \/ Returned

(* The runtime polls a woken task and its timers elapse; the peers owe     *)
(* the relay nothing.                                                      *)
Spec == Init /\ [][Next]_vars

FairSpec == Spec /\ WF_vars(TaskStep) /\ WF_vars(DeadlineElapses)
-----------------------------------------------------------------------------
TypeOK ==
    /\ sent \in [Dirs -> 0..MaxBytes] /\ fin \in [Dirs -> BOOLEAN]
    /\ wire \in [Dirs -> Seq(Nat)] /\ delivered \in [Dirs -> Seq(Nat)]
    /\ unread \in [Dirs -> 0..Window] /\ reset \in SUBSET Sides
    /\ upstream \in Upstreams /\ pending \in Seq(Nat)
    /\ rewritten \in {"No", "Absolute", "Missed"}
    /\ dir \in [Dirs -> [buffer : Seq(Nat), write_pos : Nat, bytes : Nat,
                         eof : BOOLEAN, shutdown_complete : BOOLEAN]]
    /\ half_close \in Policies /\ first_closed \in Sides \cup {"None"}
    /\ deadline \in {"None", "Armed", "Elapsed"}
    /\ report \in [kind : {"Open", "Closed", "TimedOut", "Failed", "Dropped"},
                   up : Nat, down : Nat]
    /\ pc \in {"Idle", "Up", "Down", "Deadline", "Rest", "Done"}
    /\ steps \in 0..Budget /\ made_progress \in BOOLEAN /\ woken \in BOOLEAN
    /\ waits \in SUBSET (({"read", "write"} \X Dirs) \cup {<<"timer", "drain">>})

(* Whether poll_direction would get anywhere in direction d. *)
Ready(d) ==
    \/ Unwritten(dir[d]) /\ (Room(d) > 0 \/ Sink(d) \in reset \/ (Buffers(d) /\ pending = <<>>))
    \/ ~Unwritten(dir[d]) /\ dir[d].eof /\ (Room(d) > 0 \/ Sink(d) \in reset)
    \/ ~Unwritten(dir[d]) /\ ~dir[d].eof
       /\ (wire[d] # <<>> \/ fin[d] \/ Source(d) \in reset)

(* No lost wake-up (the wakers of the three polls and the wake_by_ref at   *)
(* the end of the budget): a relay that sleeps and was not woken has       *)
(* nothing it could do, in either direction it still serves, and its drain *)
(* deadline has not passed.                                                *)
NoLostWakeup ==
    pc = "Idle" /\ ~woken =>
        /\ deadline # "Elapsed"
        /\ \A d \in Dirs : first_closed # Source(d) => ~Ready(d)

(* The relay is the two half-closing pipes of HalfClosePipe: the streams   *)
(* accept the bytes in order, once each; poll_shutdown comes behind the    *)
(* last byte; the termination that is reported, and its counters, are what *)
(* happened.                                                               *)
Pipe == INSTANCE HalfClosePipe WITH
            sent <- sent,
            fin <- fin,
            delivered <- [delivered EXCEPT !["up"] = @ \o pending],
            finSeen <- [d \in Dirs |-> dir[d].shutdown_complete],
            outcome <- report

ImplementsPipe == Pipe!PipeSpec

(* HalfClosePolicy::DrainFor bounds the drain: once one direction is       *)
(* complete the relay returns, whatever the peers do or fail to do.        *)
DrainBounded ==
    (half_close = "DrainFor" /\ first_closed # "None") ~> ~Running

(* With peers that both close and keep reading, the relay returns: no      *)
(* order of partial reads, partial writes and wake-ups leaves it asleep.   *)
EndsWhenBothClose ==
    (\A d \in Dirs : []<>(Room(d) > 0))
        => ((\A d \in Dirs : fin[d]) ~> ~Running)

(* The relay returns: by its drain deadline, or because both peers closed. *)
RelayEnds == DrainBounded /\ EndsWhenBothClose
=============================================================================
