---------------------------- MODULE RelayProofs -----------------------------
(***************************************************************************)
(* Proofs about Relay, for any number of bytes, any buffer size and any    *)
(* receive window.                                                         *)
(*                                                                         *)
(* The bytes of a stream are its positions 1, 2, 3..., so a part of the    *)
(* stream that arrived whole and in order is a run of numbers (Run).  The  *)
(* inductive invariant says of each direction that what was written, what  *)
(* the writer keeps, what is left in the buffer and what is still on the   *)
(* wire are runs that follow each other and end at the last byte sent      *)
(* (Stream), that an end is seen and passed on behind the last byte        *)
(* (EndOf), and how far the future has come (Control).  From it every step *)
(* is a step of HalfClosePipe or none of its business: the refinement.     *)
(*                                                                         *)
(* NoLostWakeup needs to know why the future sleeps.  A direction that     *)
(* poll_direction has returned from is blocked on an event that has a      *)
(* waker, or the task is already woken (Asleep); the step budget of a poll *)
(* is only used up by progress, after which the task wakes itself          *)
(* (Progress); and an armed deadline has its timer (Timer).                *)
(***************************************************************************)
EXTENDS Relay, SequenceTheorems, TLAPS
-----------------------------------------------------------------------------
(* A stretch of the stream: its bytes follow the first `from` ones. *)
Run(s, from) == s \in Seq(Nat) /\ \A i \in 1..Len(s) : s[i] = from + i

(* Nothing is a stretch of any stream. *)
LEMMA RunEmpty == \A from : Run(<<>>, from) /\ Len(<<>>) = 0
  BY DEF Run

(* The next byte continues a stretch. *)
LEMMA RunAppend ==
    ASSUME NEW s, NEW from \in Nat, Run(s, from)
    PROVE  /\ Run(Append(s, from + Len(s) + 1), from)
           /\ Len(Append(s, from + Len(s) + 1)) = Len(s) + 1
<1> DEFINE b == from + Len(s) + 1
<1>1. s \in Seq(Nat) /\ Len(s) \in Nat /\ b \in Nat
  BY DEF Run
<1> HIDE DEF b
<1>2. /\ Append(s, b) \in Seq(Nat) /\ Len(Append(s, b)) = Len(s) + 1
      /\ Append(s, b)[Len(s) + 1] = b
      /\ \A i \in 1..Len(s) : Append(s, b)[i] = s[i]
  BY <1>1
<1>3. \A i \in 1..(Len(s) + 1) : i \in 1..Len(s) \/ i = Len(s) + 1
  BY <1>1
<1>4. b = from + (Len(s) + 1)
  BY <1>1 DEF b
<1> QED BY <1>2, <1>3, <1>4, Zenon DEF Run, b

(* Two stretches that follow each other are one. *)
LEMMA RunConcat ==
    ASSUME NEW s, NEW t, NEW from \in Nat, Run(s, from), Run(t, from + Len(s))
    PROVE  Run(s \o t, from) /\ Len(s \o t) = Len(s) + Len(t)
<1>1. s \in Seq(Nat) /\ t \in Seq(Nat) /\ Len(s) \in Nat /\ Len(t) \in Nat
  BY DEF Run
<1>2. /\ s \o t \in Seq(Nat) /\ Len(s \o t) = Len(s) + Len(t)
      /\ \A i \in 1..(Len(s) + Len(t)) :
            (s \o t)[i] = IF i <= Len(s) THEN s[i] ELSE t[i - Len(s)]
  BY <1>1, ConcatProperties
<1>3. ASSUME NEW i \in 1..(Len(s) + Len(t)) PROVE (s \o t)[i] = from + i
  <2>1. CASE i <= Len(s)
    BY <1>1, <1>2, <2>1 DEF Run
  <2>2. CASE i > Len(s)
    <3>1. i - Len(s) \in 1..Len(t) /\ (from + Len(s)) + (i - Len(s)) = from + i /\ ~(i <= Len(s))
      BY <1>1, <2>2
    <3> QED BY <1>2, <3>1, Zenon DEF Run
  <2> QED BY <1>1, <2>1, <2>2
<1> QED BY <1>2, <1>3, Zenon DEF Run

(* A part of a stretch is a stretch. *)
LEMMA RunPart ==
    ASSUME NEW s, NEW from \in Nat, Run(s, from),
           NEW a \in Nat, NEW b \in Nat, 1 <= a, a <= b + 1, b <= Len(s),
           NEW first, first = from + a - 1
    PROVE  Run(SubSeq(s, a, b), first) /\ Len(SubSeq(s, a, b)) = b + 1 - a
<1>1. s \in Seq(Nat) /\ Len(s) \in Nat
  BY DEF Run
<1>2. /\ SubSeq(s, a, b) \in Seq(Nat)
      /\ Len(SubSeq(s, a, b)) = b + 1 - a
      /\ \A i \in 1..(b + 1 - a) : SubSeq(s, a, b)[i] = s[a + i - 1]
  BY <1>1, SubSeqProperties
<1>3. \A i \in 1..(b + 1 - a) :
         a + i - 1 \in 1..Len(s) /\ from + (a + i - 1) = first + i
  BY <1>1
<1> QED BY <1>2, <1>3, Zenon DEF Run

IsPart(s, a, b, first) == Run(SubSeq(s, a, b), first) /\ Len(SubSeq(s, a, b)) = b + 1 - a

(* The same, as one fact. *)
LEMMA RunHasPart ==
    ASSUME NEW s, NEW from \in Nat, Run(s, from),
           NEW a \in Nat, NEW b \in Nat, 1 <= a, a <= b + 1, b <= Len(s),
           NEW first, first = from + a - 1
    PROVE  IsPart(s, a, b, first)
  BY RunPart, Zenon DEF IsPart

(* A stretch from the start of the stream is its first bytes. *)
LEMMA RunIsPrefix ==
    ASSUME NEW s, Run(s, 0)
    PROVE  s = [i \in 1..Len(s) |-> i] /\ Len(s) \in Nat
  BY DEF Run

(* A stretch is told by its length. *)
LEMMA RunUnique ==
    ASSUME NEW s, NEW t, NEW from, Run(s, from), Run(t, from), Len(s) = Len(t)
    PROVE  s = t
<1>1. s \in Seq(Nat) /\ t \in Seq(Nat)
  BY DEF Run
<1> QED BY <1>1, SeqEqual, Zenon DEF Run
-----------------------------------------------------------------------------
Direction == [buffer : Seq(Nat), write_pos : Nat, bytes : Nat,
              eof : BOOLEAN, shutdown_complete : BOOLEAN]

Shape ==
    /\ sent \in [Dirs -> Nat] /\ fin \in [Dirs -> BOOLEAN]
    /\ wire \in [Dirs -> Seq(Nat)] /\ delivered \in [Dirs -> Seq(Nat)]
    /\ unread \in [Dirs -> 0..Window] /\ dir \in [Dirs -> Direction]
    /\ pending \in Seq(Nat)

(* What the writer of direction d has accepted and not written yet. *)
Kept(d) == IF d = "up" THEN pending ELSE <<>>

(* One direction: D was written, K is kept, then comes what is left of the *)
(* buffer, and then what is still on the wire; nothing is missing, twice   *)
(* or out of order.                                                        *)
StreamOf(D, K, s, w, k) ==
    /\ Run(D, 0) /\ Run(K, Len(D))
    /\ s.bytes = Len(D) + Len(K)
    /\ s.write_pos \in Nat /\ s.write_pos <= s.bytes /\ s.write_pos <= Len(s.buffer)
    /\ Run(s.buffer, s.bytes - s.write_pos)
    /\ Run(w, s.bytes - s.write_pos + Len(s.buffer))
    /\ k = s.bytes - s.write_pos + Len(s.buffer) + Len(w)

Stream(d) == StreamOf(delivered[d], Kept(d), dir[d], wire[d], sent[d])

(* The end of direction d is seen behind its last byte, and passed on      *)
(* behind it.                                                              *)
EndOf(d) ==
    /\ dir[d].eof => fin[d] /\ wire[d] = <<>>
    /\ dir[d].shutdown_complete => dir[d].eof /\ ~Unwritten(dir[d])

(* How far the future has come. *)
Control ==
    /\ pc \in {"Idle", "Up", "Down", "Deadline", "Rest", "Done"}
    /\ first_closed \in {"None", "Client", "Server"}
    /\ pc \in {"Up", "Down"} => first_closed = "None"
    /\ pc \in {"Deadline", "Rest"} => first_closed # "None"
    /\ upstream # "HttpOnly" => pending = <<>>
    /\ deadline # "None" => first_closed # "None"
    /\ IF pc = "Done" THEN report.kind # "Open"
       ELSE /\ report = [kind |-> "Open", up |-> 0, down |-> 0]
            /\ \A d \in Dirs : dir[d].shutdown_complete <=> first_closed = Source(d)

(* poll_direction has returned for d in this poll. *)
Left(d) == pc = "Idle" \/ (pc = "Down" /\ d = "up")

(* Nothing can be done in direction d, and the event that changes this has *)
(* a waker.                                                                *)
Blocked(d) ==
    IF Unwritten(dir[d]) \/ dir[d].eof
    THEN /\ Room(d) = 0 /\ Sink(d) \notin reset
         /\ Unwritten(dir[d]) /\ Buffers(d) => pending # <<>>
         /\ <<"write", d>> \in waits
    ELSE /\ wire[d] = <<>> /\ ~fin[d] /\ Source(d) \notin reset
         /\ <<"read", d>> \in waits

(* A direction without progress can only have seen the end of its source. *)
Progress ==
    /\ ~Polling => steps = 0 /\ made_progress = FALSE
    /\ made_progress \/ steps = 0 \/
          (steps = 1 /\ dir[Current].eof /\ ~Unwritten(dir[Current]))

Timer ==
    pc \in {"Rest", "Idle"} =>
        /\ deadline = "Armed" => woken \/ <<"timer", "drain">> \in waits
        /\ deadline = "Elapsed" => woken

Asleep ==
    \A d \in Dirs : Left(d) /\ first_closed # Source(d) => woken \/ Blocked(d)

WakeInv == steps \in Nat /\ made_progress \in BOOLEAN /\ Progress /\ Timer /\ Asleep
-----------------------------------------------------------------------------
(* The sums of lengths are numbers. *)
LEMMA PlusIsNat == \A a, b \in Nat : a + b \in Nat /\ a + 1 \in Nat
  OBVIOUS

(* The lengths in a direction are numbers that can be subtracted. *)
LEMMA StreamNumbers ==
    ASSUME NEW D, NEW K, NEW s, NEW w, NEW k, StreamOf(D, K, s, w, k)
    PROVE  /\ Len(D) \in Nat /\ Len(K) \in Nat /\ Len(s.buffer) \in Nat /\ Len(w) \in Nat
           /\ s.bytes \in Nat /\ s.write_pos \in Nat /\ s.bytes - s.write_pos \in Nat
<1>1. D \in Seq(Nat) /\ K \in Seq(Nat) /\ s.buffer \in Seq(Nat) /\ w \in Seq(Nat)
  BY Zenon DEF StreamOf, Run
<1>2. Len(D) \in Nat /\ Len(K) \in Nat /\ Len(s.buffer) \in Nat /\ Len(w) \in Nat
  BY <1>1, LenProperties, Zenon
<1>3. /\ s.bytes = Len(D) + Len(K)
      /\ s.write_pos \in Nat /\ s.write_pos <= s.bytes
  BY Zenon DEF StreamOf
<1> QED BY <1>2, <1>3

(* poll_write takes n bytes of the buffer. *)
LEMMA StreamWrites ==
    ASSUME NEW D, NEW s, NEW w, NEW k, NEW s2, NEW n \in Nat,
           StreamOf(D, <<>>, s, w, k), s.write_pos + n <= Len(s.buffer),
           s2.buffer = s.buffer, s2.write_pos = s.write_pos + n, s2.bytes = s.bytes + n
    PROVE  StreamOf(D \o SubSeq(s.buffer, s.write_pos + 1, s.write_pos + n), <<>>, s2, w, k)
<1> DEFINE B == s.buffer  p == s.write_pos  y == s.bytes
           C == SubSeq(B, p + 1, p + n)
<1>1. Len(D) \in Nat /\ Len(B) \in Nat /\ Len(w) \in Nat /\ y \in Nat /\ p \in Nat /\ y - p \in Nat
  BY StreamNumbers, Zenon
<1>2. /\ Run(D, 0) /\ y = Len(D) + Len(<<>>) /\ p <= y /\ p <= Len(B)
      /\ Run(B, y - p) /\ Run(w, y - p + Len(B)) /\ k = y - p + Len(B) + Len(w)
  BY Zenon DEF StreamOf
<1> HIDE DEF B, p, y
<1>3. p + n <= Len(B) /\ s2.buffer = B /\ s2.write_pos = p + n /\ s2.bytes = y + n
  BY Zenon DEF B, p, y
<1>4. y = Len(D) /\ y = 0 + Len(D)
  BY <1>1, <1>2, RunEmpty
<1>5. Run(C, y) /\ Len(C) = n
  <2>1. PICK a \in Nat, b \in Nat, f \in Nat : a = p + 1 /\ b = p + n /\ f = y - p
    BY <1>1, Zenon, PlusIsNat
  <2>2. 1 <= a /\ a <= b + 1 /\ b <= Len(B) /\ y = f + a - 1 /\ b + 1 - a = n
    BY <1>1, <1>3, <2>1
  <2>3. Run(B, f) /\ C = SubSeq(B, a, b)
    BY <1>2, <2>1, Zenon
  <2>4. Run(SubSeq(B, a, b), y) /\ Len(SubSeq(B, a, b)) = b + 1 - a
    BY <2>2, <2>3, RunPart
  <2> QED BY <2>2, <2>3, <2>4, Zenon
<1>6. Run(D \o C, 0) /\ Len(D \o C) = Len(D) + Len(C)
  BY <1>2, <1>4, <1>5, RunConcat, Zenon
<1> HIDE DEF C
<1>7. /\ y + n = Len(D \o C) + Len(<<>>)
      /\ p + n \in Nat /\ p + n <= y + n /\ (y + n) - (p + n) = y - p
  <2>1. Len(D \o C) = y + n
    BY <1>4, <1>5, <1>6, Zenon
  <2>2. Len(<<>>) = 0
    BY RunEmpty, Zenon
  <2>3. y + n = (y + n) + 0 /\ p + n \in Nat /\ p + n <= y + n /\ (y + n) - (p + n) = y - p
    BY <1>1, <1>2
  <2> QED BY <2>1, <2>2, <2>3, Zenon
<1>8. StreamOf(D \o C, <<>>, s2, w, k)
  BY <1>2, <1>3, <1>6, <1>7, RunEmpty, Zenon DEF StreamOf
<1> QED BY <1>8 DEF C, B, p

(* poll_flush writes n of the bytes that are kept. *)
LEMMA StreamFlushes ==
    ASSUME NEW D, NEW K, NEW s, NEW w, NEW k, NEW n \in Nat,
           StreamOf(D, K, s, w, k), n <= Len(K)
    PROVE  StreamOf(D \o SubSeq(K, 1, n), SubSeq(K, n + 1, Len(K)), s, w, k)
<1> DEFINE A == SubSeq(K, 1, n)  B == SubSeq(K, n + 1, Len(K))
<1>1. Len(D) \in Nat /\ Len(K) \in Nat
  BY StreamNumbers, Zenon
<1>2. Run(D, 0) /\ Run(K, Len(D)) /\ s.bytes = Len(D) + Len(K)
  BY Zenon DEF StreamOf
<1>3. Run(A, Len(D)) /\ Len(A) = n
  BY <1>1, <1>2, RunPart
<1>4. Run(B, Len(D) + n) /\ Len(B) = Len(K) - n
  BY <1>1, <1>2, RunPart
<1> HIDE DEF A, B
<1>5. Len(D) = 0 + Len(D) /\ Len(D) + n = Len(D) + Len(A)
  BY <1>1, <1>3
<1>6. Run(D \o A, 0) /\ Len(D \o A) = Len(D) + Len(A)
  BY <1>2, <1>3, <1>5, RunConcat, Zenon
<1>7. s.bytes = Len(D \o A) + Len(B)
  <2>1. \A x, y \in Nat : x + y = x + n + (y - n)
    BY <1>1
  <2>2. Len(D) + Len(K) = Len(D) + n + (Len(K) - n)
    BY <1>1, <2>1, Zenon
  <2> QED BY <1>2, <1>4, <1>5, <1>6, <2>2, Zenon
<1>8. StreamOf(D \o A, B, s, w, k)
  BY <1>4, <1>5, <1>6, <1>7, Zenon DEF StreamOf
<1> QED BY <1>8 DEF A, B

(* HttpOnlyStream::poll_write keeps the rest of the buffer. *)
LEMMA StreamKeeps ==
    ASSUME NEW D, NEW s, NEW w, NEW k, NEW s2, StreamOf(D, <<>>, s, w, k),
           s2.buffer = s.buffer, s2.write_pos = Len(s.buffer),
           s2.bytes = s.bytes + Len(s.buffer) - s.write_pos
    PROVE  StreamOf(D, SubSeq(s.buffer, s.write_pos + 1, Len(s.buffer)), s2, w, k)
<1> DEFINE B == s.buffer  p == s.write_pos  y == s.bytes  C == SubSeq(B, p + 1, Len(B))
<1>1. Len(D) \in Nat /\ Len(B) \in Nat /\ Len(w) \in Nat /\ y \in Nat /\ p \in Nat /\ y - p \in Nat
  BY StreamNumbers, Zenon
<1>2. /\ Run(D, 0) /\ y = Len(D) + Len(<<>>) /\ p <= y /\ p <= Len(B)
      /\ Run(B, y - p) /\ Run(w, y - p + Len(B)) /\ k = y - p + Len(B) + Len(w)
  BY Zenon DEF StreamOf
<1> HIDE DEF B, p, y
<1>3. s2.buffer = B /\ s2.write_pos = Len(B) /\ s2.bytes = y + Len(B) - p
  BY Zenon DEF B, p, y
<1>4. Run(C, y) /\ Len(C) = Len(B) - p
  <2>1. PICK a \in Nat, f \in Nat : a = p + 1 /\ f = y - p
    BY <1>1, Zenon, PlusIsNat
  <2>2. /\ 1 <= a /\ a <= Len(B) + 1 /\ Len(B) <= Len(B) /\ y = f + a - 1
        /\ Len(B) + 1 - a = Len(B) - p
    BY <1>1, <1>2, <2>1
  <2>3. Run(B, f) /\ C = SubSeq(B, a, Len(B))
    BY <1>2, <2>1, Zenon
  <2>4. Run(SubSeq(B, a, Len(B)), y) /\ Len(SubSeq(B, a, Len(B))) = Len(B) + 1 - a
    <3>1. IsPart(B, a, Len(B), y)
      BY <1>1, <2>1, <2>2, <2>3, RunHasPart, Zenon
    <3> QED BY <3>1, Zenon DEF IsPart
  <2> QED BY <2>2, <2>3, <2>4, Zenon
<1>e. Len(<<>>) = 0
  BY RunEmpty, Zenon
<1> HIDE DEF C
<1>5. /\ y = Len(D) /\ y + Len(B) - p = Len(D) + Len(C)
      /\ Len(B) <= y + Len(B) - p /\ (y + Len(B) - p) - Len(B) = y - p /\ Len(B) <= Len(B)
  BY <1>1, <1>2, <1>4, <1>e
<1>6. StreamOf(D, C, s2, w, k)
  BY <1>1, <1>2, <1>3, <1>4, <1>5, Zenon DEF StreamOf
<1> QED BY <1>6 DEF C, B, p

(* poll_read fills the empty buffer with the first n bytes on the wire;    *)
(* with n = 0, it only empties the buffer.                                 *)
LEMMA StreamReads ==
    ASSUME NEW D, NEW K, NEW s, NEW w, NEW k, NEW s2, NEW n \in Nat,
           StreamOf(D, K, s, w, k), ~Unwritten(s), n <= Len(w),
           s2.buffer = SubSeq(w, 1, n), s2.write_pos = 0, s2.bytes = s.bytes
    PROVE  StreamOf(D, K, s2, SubSeq(w, n + 1, Len(w)), k)
<1> DEFINE B == SubSeq(w, 1, n)  v == SubSeq(w, n + 1, Len(w))  y == s.bytes
<1>1. /\ Len(s.buffer) \in Nat /\ Len(w) \in Nat /\ y \in Nat /\ s.write_pos \in Nat
      /\ s.write_pos <= Len(s.buffer) /\ ~(s.write_pos < Len(s.buffer))
  BY StreamNumbers, Zenon DEF StreamOf, Unwritten
<1>2. /\ Run(D, 0) /\ Run(K, Len(D)) /\ y = Len(D) + Len(K)
      /\ Run(w, y - s.write_pos + Len(s.buffer))
      /\ k = y - s.write_pos + Len(s.buffer) + Len(w)
  BY Zenon DEF StreamOf
<1>3. y - s.write_pos + Len(s.buffer) = y
  BY <1>1
<1>4. Run(w, y) /\ k = y + Len(w)
  BY <1>2, <1>3, Zenon
<1> HIDE DEF y
<1>5. Run(B, y) /\ Len(B) = n
  <2>1. 1 \in Nat /\ 1 <= 1 /\ 1 <= n + 1 /\ y = y + 1 - 1 /\ n + 1 - 1 = n
    BY <1>1
  <2> QED BY <1>1, <1>4, <2>1, RunPart
<1>6. Run(v, y + n) /\ Len(v) = Len(w) - n
  <2>1. PICK a \in Nat, f \in Nat : a = n + 1 /\ f = y + n
    BY <1>1, Zenon, PlusIsNat
  <2>2. /\ 1 <= a /\ a <= Len(w) + 1 /\ Len(w) <= Len(w) /\ f = y + a - 1
        /\ Len(w) + 1 - a = Len(w) - n
    BY <1>1, <2>1
  <2>3. v = SubSeq(w, a, Len(w))
    BY <2>1, Zenon
  <2>4. Run(SubSeq(w, a, Len(w)), f) /\ Len(SubSeq(w, a, Len(w))) = Len(w) + 1 - a
    <3>1. IsPart(w, a, Len(w), f)
      BY <1>1, <1>4, <2>1, <2>2, RunHasPart, Zenon
    <3> QED BY <3>1, Zenon DEF IsPart
  <2> QED BY <2>1, <2>2, <2>3, <2>4, Zenon
<1> HIDE DEF B, v
<1>8. s2.buffer = B /\ s2.write_pos = 0 /\ s2.bytes = y
  BY Zenon DEF y, B
<1>9. /\ y = y - 0 /\ 0 \in Nat /\ 0 <= y /\ 0 <= Len(B)
      /\ y + n = y - 0 + Len(B) /\ k = y - 0 + Len(B) + Len(v)
  BY <1>1, <1>4, <1>5, <1>6 DEF y
<1>10. StreamOf(D, K, s2, v, k)
  BY <1>2, <1>5, <1>6, <1>8, <1>9, Zenon DEF StreamOf
<1> QED BY <1>10 DEF v

(* The buffer that is written out is emptied. *)
LEMMA StreamEmptied ==
    ASSUME NEW D, NEW K, NEW s, NEW w, NEW k, NEW s2,
           StreamOf(D, K, s, w, k), ~Unwritten(s),
           s2.buffer = <<>>, s2.write_pos = 0, s2.bytes = s.bytes
    PROVE  StreamOf(D, K, s2, w, k)
<1>1. /\ Len(s.buffer) \in Nat /\ Len(w) \in Nat /\ s.bytes \in Nat /\ s.write_pos \in Nat
      /\ s.write_pos <= Len(s.buffer) /\ ~(s.write_pos < Len(s.buffer))
  BY StreamNumbers, Zenon DEF StreamOf, Unwritten
<1>2. s.bytes - s.write_pos + Len(s.buffer) = s.bytes - 0 + Len(<<>>) /\ 0 <= s.bytes
  BY <1>1, RunEmpty
<1>3. 0 \in Nat /\ 0 <= Len(<<>>)
  BY RunEmpty
<1> QED BY <1>2, <1>3, RunEmpty, Zenon DEF StreamOf

(* The sender writes the next byte. *)
LEMMA StreamSends ==
    ASSUME NEW D, NEW K, NEW s, NEW w, NEW k, StreamOf(D, K, s, w, k)
    PROVE  StreamOf(D, K, s, Append(w, k + 1), k + 1)
<1> DEFINE f == s.bytes - s.write_pos + Len(s.buffer)
<1>0. s.bytes - s.write_pos \in Nat /\ Len(s.buffer) \in Nat /\ Len(w) \in Nat
  BY StreamNumbers, Zenon
<1>1. f \in Nat /\ Len(w) \in Nat /\ k = f + Len(w) /\ Run(w, f)
  <2>1. f \in Nat
    BY <1>0
  <2> QED BY <1>0, <2>1, Zenon DEF StreamOf
<1> HIDE DEF f
<1>2. Run(Append(w, f + Len(w) + 1), f) /\ Len(Append(w, f + Len(w) + 1)) = Len(w) + 1
  BY <1>1, RunAppend, Zenon
<1>3. f + (Len(w) + 1) = k + 1 /\ f + Len(w) + 1 = k + 1
  BY <1>1
<1> QED BY <1>2, <1>3, Zenon DEF StreamOf, f

(* What was accepted of a direction is its first `bytes` bytes. *)
LEMMA StreamPrefix ==
    ASSUME NEW D, NEW K, NEW s, NEW w, NEW k, StreamOf(D, K, s, w, k)
    PROVE  D \o K = [i \in 1..s.bytes |-> i]
<1>0. Len(D) \in Nat
  BY StreamNumbers, Zenon
<1>1. 0 + Len(D) = Len(D) /\ 0 \in Nat
  BY <1>0
<1>a. Run(D, 0) /\ Run(K, Len(D)) /\ s.bytes = Len(D) + Len(K)
  BY Zenon DEF StreamOf
<1>2. Run(D \o K, 0) /\ Len(D \o K) = s.bytes
  BY <1>1, <1>a, RunConcat, Zenon
<1> QED BY <1>2, RunIsPrefix, Zenon
-----------------------------------------------------------------------------
(* An iteration of poll_direction's loop that does not find the budget     *)
(* spent.                                                                  *)
Turn == PollWrite \/ PollWriteHttpOnly \/ PollShutdown \/ PollRead

(* What an iteration for direction d leaves alone. *)
TurnFrame(d) ==
    /\ sent' = sent /\ fin' = fin /\ reset' = reset /\ upstream' = upstream
    /\ half_close' = half_close
    /\ wire' \in [Dirs -> Seq(Nat)] /\ delivered' \in [Dirs -> Seq(Nat)]
    /\ unread' \in [Dirs -> 0..Window] /\ dir' \in [Dirs -> Direction]
    /\ pending' \in Seq(Nat) /\ (upstream # "HttpOnly" => pending' = pending)
    /\ \A e \in Dirs \ {d} :
          /\ wire'[e] = wire[e] /\ delivered'[e] = delivered[e] /\ unread'[e] = unread[e]
          /\ dir'[e] = dir[e] /\ Kept(e)' = Kept(e)

(* The four ways it ends: another round, Pending, an error, Complete. *)
GoesOn(d) ==
    /\ UNCHANGED <<woken, waits>>
    /\ dir'[d].bytes >= dir[d].bytes /\ dir'[d].shutdown_complete = FALSE
    /\ \/ Continue(TRUE)
       \/ Continue(FALSE) /\ ~dir[d].eof /\ dir'[d].eof /\ ~Unwritten(dir'[d])

Parks(d) ==
    /\ dir'[d].bytes = dir[d].bytes /\ dir'[d].shutdown_complete = FALSE
    /\ \E event : LeaveWaker(event)
    /\ Blocked(d)'

Fails(d) ==
    /\ UNCHANGED <<woken, waits>>
    /\ dir'[d].bytes = dir[d].bytes /\ dir'[d].shutdown_complete = FALSE
    /\ Finish("Failed")

Completes(d) ==
    /\ UNCHANGED <<woken, waits>>
    /\ dir'[d].bytes = dir[d].bytes /\ dir'[d].shutdown_complete = TRUE
    /\ dir[d].eof /\ ~Unwritten(dir[d])
    /\ CompleteDirection

TurnEffect(d) ==
    /\ TurnFrame(d) /\ Stream(d)' /\ EndOf(d)'
    /\ GoesOn(d) \/ Parks(d) \/ Fails(d) \/ Completes(d)

(* The direction that is polled is one whose end was not passed on yet. *)
LEMMA CurrentOpen ==
    ASSUME Control, Shape, Polling
    PROVE  /\ Current \in Dirs /\ first_closed # Source(Current)
           /\ dir[Current].shutdown_complete = FALSE /\ pc # "Done"
<1>1. pc # "Done" /\ Current \in Dirs /\ first_closed # Source(Current)
  BY DEF Control, Polling, Current, Dirs, Source
<1>2. dir[Current] \in Direction
  BY <1>1, Zenon DEF Shape
<1>3. dir[Current].shutdown_complete \in BOOLEAN
  BY <1>2 DEF Direction
<1>4. dir[Current].shutdown_complete <=> first_closed = Source(Current)
  BY <1>1, Zenon DEF Control
<1> QED BY <1>1, <1>3, <1>4, Zenon

(* A socket keeps nothing. *)
LEMMA SocketKeepsNothing ==
    ASSUME Control, NEW d \in Dirs, ~Buffers(d)
    PROVE  Kept(d) = <<>>
  BY DEF Control, Buffers, Kept, Dirs

(* What poll_write takes fits both sides. *)
LEMMA TakesSome ==
    \A room, have, at \in Nat : \A n \in 1..LeastOf(room, have - at) :
        n \in Nat /\ n <= room /\ at + n <= have /\ n >= 1
  BY DEF LeastOf

(* write_pos and bytes of one direction are set, all else stays. *)
Advances(f, g, d, n, m) == g = [f EXCEPT ![d].write_pos = n, ![d].bytes = m]

(* What that does to the directions. *)
LEMMA Advance ==
    ASSUME NEW f, NEW g, NEW d, NEW n, NEW m, Advances(f, g, d, n, m),
           f \in [Dirs -> Direction], d \in Dirs, n \in Nat, m \in Nat
    PROVE  /\ g \in [Dirs -> Direction] /\ \A e \in Dirs \ {d} : g[e] = f[e]
           /\ g[d].write_pos = n /\ g[d].bytes = m /\ g[d].buffer = f[d].buffer
           /\ g[d].eof = f[d].eof /\ g[d].shutdown_complete = f[d].shutdown_complete
<1> DEFINE s == [f[d] EXCEPT !.write_pos = n]
<1>1. f[d] \in Direction
  OBVIOUS
<1>2. /\ s \in Direction /\ s.write_pos = n /\ s.buffer = f[d].buffer
      /\ s.eof = f[d].eof /\ s.shutdown_complete = f[d].shutdown_complete
  BY <1>1, Zenon DEF Direction
<1> HIDE DEF s
<1> DEFINE h == [f EXCEPT ![d] = s]
<1>3. h \in [Dirs -> Direction] /\ h[d] = s /\ \A e \in Dirs \ {d} : h[e] = f[e]
  BY <1>2
<1> HIDE DEF h
<1>4. g = [h EXCEPT ![d].bytes = m]
  BY Zenon DEF h, s, Advances
<1>5. g = [h EXCEPT ![d] = [s EXCEPT !.bytes = m]]
  BY <1>3, <1>4, Zenon
<1>6. [s EXCEPT !.bytes = m] \in Direction
  <2> SUFFICES [s EXCEPT !.bytes = m] \in
                 [buffer : Seq(Nat), write_pos : Nat, bytes : Nat,
                  eof : BOOLEAN, shutdown_complete : BOOLEAN]
    BY DEF Direction
  <2> QED BY <1>2, Zenon DEF Direction
<1>7. g[d] = [s EXCEPT !.bytes = m] /\ g \in [Dirs -> Direction] /\ \A e \in Dirs \ {d} : g[e] = h[e]
  BY <1>3, <1>5, <1>6
<1> QED BY <1>2, <1>3, <1>7 DEF Direction

(* The first branch: poll_write on a socket. *)
LEMMA WriteEffect ==
    ASSUME Shape, Control, NEW d \in Dirs, d = Current, Stream(d), EndOf(d), PollWrite
    PROVE  TurnEffect(d)
<1> DEFINE s == dir[d]
<1>0. /\ Polling /\ Unwritten(s) /\ ~Buffers(d) /\ wire' = wire
      /\ UNCHANGED <<sent, fin, reset, half_close, httpOnlyVars>>
  BY Zenon DEF PollWrite
<1>1. pending' = pending /\ upstream' = upstream
  BY <1>0, Zenon DEF httpOnlyVars
<1>2. \A e : Kept(e)' = Kept(e)
  BY <1>1, Zenon DEF Kept
<1>3. s \in Direction /\ s.shutdown_complete = FALSE /\ Kept(d) = <<>>
  BY <1>0, CurrentOpen, SocketKeepsNothing, Zenon DEF Shape
<1>4. unread[d] \in 0..Window /\ delivered[d] \in Seq(Nat) /\ Room(d) \in Nat
  <2>1. unread[d] \in 0..Window /\ delivered[d] \in Seq(Nat)
    BY Zenon DEF Shape
  <2> QED BY <2>1, RelayAssumption DEF Room
<1>5. ASSUME UNCHANGED <<delivered, unread, dir>>
      PROVE  /\ TurnFrame(d) /\ Stream(d)' /\ EndOf(d)'
             /\ dir'[d].bytes = dir[d].bytes /\ dir'[d].shutdown_complete = FALSE
  BY <1>0, <1>1, <1>2, <1>3, <1>5, Zenon DEF TurnFrame, Shape, Stream, EndOf
<1>6. CASE /\ Sink(d) \notin reset /\ Room(d) > 0
           /\ \E n \in 1..LeastOf(Room(d), Len(s.buffer) - s.write_pos) :
                /\ delivered' = [delivered EXCEPT ![d] =
                        @ \o SubSeq(s.buffer, s.write_pos + 1, s.write_pos + n)]
                /\ unread' = [unread EXCEPT ![d] = @ + n]
                /\ dir' = [dir EXCEPT ![d].write_pos = @ + n, ![d].bytes = @ + n]
           /\ Continue(TRUE)
           /\ UNCHANGED <<woken, waits>>
  <2>1. PICK n \in 1..LeastOf(Room(d), Len(s.buffer) - s.write_pos) :
                /\ delivered' = [delivered EXCEPT ![d] =
                        @ \o SubSeq(s.buffer, s.write_pos + 1, s.write_pos + n)]
                /\ unread' = [unread EXCEPT ![d] = @ + n]
                /\ dir' = [dir EXCEPT ![d].write_pos = @ + n, ![d].bytes = @ + n]
    BY <1>6, Zenon
  <2>2. s.buffer \in Seq(Nat) /\ Len(s.buffer) \in Nat /\ s.write_pos \in Nat /\ s.bytes \in Nat
    BY <1>3, LenProperties DEF Direction
  <2>3. n \in Nat /\ n <= Room(d) /\ s.write_pos + n <= Len(s.buffer) /\ n >= 1
    BY <1>4, <2>2, TakesSome, Zenon
  <2> HIDE DEF s
  <2>4. s.write_pos + n \in Nat /\ s.bytes + n \in Nat
    BY <2>2, <2>3, PlusIsNat, Zenon
  <2>5. Advances(dir, dir', d, s.write_pos + n, s.bytes + n)
    BY <2>1, Zenon DEF s, Advances
  <2>6. /\ dir'[d].buffer = s.buffer /\ dir'[d].write_pos = s.write_pos + n
        /\ dir'[d].bytes = s.bytes + n /\ dir'[d].eof = s.eof
        /\ dir'[d].shutdown_complete = s.shutdown_complete
        /\ dir' \in [Dirs -> Direction] /\ \A e \in Dirs \ {d} : dir'[e] = dir[e]
    <3>1. dir \in [Dirs -> Direction]
      BY Zenon DEF Shape
    <3>2. /\ dir' \in [Dirs -> Direction] /\ \A e \in Dirs \ {d} : dir'[e] = dir[e]
          /\ dir'[d].write_pos = s.write_pos + n /\ dir'[d].bytes = s.bytes + n
          /\ dir'[d].buffer = dir[d].buffer /\ dir'[d].eof = dir[d].eof
          /\ dir'[d].shutdown_complete = dir[d].shutdown_complete
      BY <2>4, <2>5, <3>1, Advance
    <3> QED BY <3>2, Zenon DEF s
  <2>7. delivered'[d] = delivered[d] \o SubSeq(s.buffer, s.write_pos + 1, s.write_pos + n)
    BY <2>1, Zenon DEF Shape, s
  <2>8. Stream(d)'
    <3>1. StreamOf(delivered[d], <<>>, s, wire[d], sent[d])
      BY <1>3, Zenon DEF Stream, s
    <3>2. StreamOf(delivered'[d], <<>>, dir'[d], wire[d], sent[d])
      <4>1. PICK D, q, w, k : D = delivered[d] /\ q = dir'[d] /\ w = wire[d] /\ k = sent[d]
        BY Zenon
      <4>2. /\ StreamOf(D, <<>>, s, w, k) /\ q.buffer = s.buffer
            /\ q.write_pos = s.write_pos + n /\ q.bytes = s.bytes + n
        BY <2>6, <3>1, <4>1, Zenon
      <4>3. StreamOf(D \o SubSeq(s.buffer, s.write_pos + 1, s.write_pos + n), <<>>, q, w, k)
        BY <2>3, <4>2, StreamWrites, Zenon
      <4> QED BY <2>7, <4>1, <4>3, Zenon
    <3> QED BY <1>0, <1>2, <1>3, <3>2, Zenon DEF Stream
  <2>9. EndOf(d)'
    BY <1>0, <1>3, <2>6, Zenon DEF EndOf, s
  <2>10. delivered'[d] \in Seq(Nat)
    BY <2>8, Zenon DEF Stream, StreamOf, Run
  <2>11. unread[d] + n \in 0..Window
    <3>1. PICK u \in 0..Window, m \in Nat : u = unread[d] /\ m = n /\ m <= Window - u
      BY <1>4, <2>3, Zenon DEF Room
    <3>2. u + m \in 0..Window
      BY <3>1, RelayAssumption
    <3> QED BY <3>1, <3>2, Zenon
  <2>12. /\ unread' \in [Dirs -> 0..Window] /\ delivered' \in [Dirs -> Seq(Nat)]
         /\ \A e \in Dirs \ {d} : delivered'[e] = delivered[e] /\ unread'[e] = unread[e]
    BY <2>1, <2>7, <2>10, <2>11, Zenon DEF Shape
  <2>14. TurnFrame(d)
    BY <1>0, <1>1, <1>2, <2>6, <2>12, Zenon DEF TurnFrame, Shape
  <2>13. dir'[d].bytes >= dir[d].bytes
    BY <2>2, <2>3, <2>6 DEF s
  <2> QED BY <1>3, <1>6, <2>6, <2>8, <2>9, <2>13, <2>14, Zenon DEF TurnEffect, GoesOn, s
<1>7. CASE /\ Sink(d) \notin reset /\ Room(d) = 0
           /\ LeaveWaker(<<"write", d>>)
           /\ UNCHANGED <<delivered, unread, dir>>
  <2>1. Blocked(d)'
    BY <1>0, <1>1, <1>7 DEF Blocked, LeaveWaker, Room, Buffers, Unwritten
  <2> QED BY <1>5, <1>7, <2>1, Zenon DEF TurnEffect, Parks
<1>8. CASE /\ Sink(d) \in reset
           /\ Finish("Failed")
           /\ UNCHANGED <<delivered, unread, dir, woken, waits>>
  BY <1>5, <1>8, Zenon DEF TurnEffect, Fails
<1> QED BY <1>6, <1>7, <1>8, Zenon DEF PollWrite

(* A sequence without elements is empty. *)
LEMMA NoLength == \A s : s \in Seq(Nat) => (Len(s) = 0 <=> s = <<>>)
  BY EmptySeq

(* What is left of the buffer adds to what was accepted. *)
LEMMA RestIsMore ==
    \A y, l, p \in Nat : p < l => y + l - p \in Nat /\ y + l - p >= y
  OBVIOUS

(* A flush that leaves something behind fills the receiver's window. *)
LEMMA FullWindow ==
    \A used, left \in Nat : left = Window - used => Window - (used + left) = 0
  BY RelayAssumption

(* poll_flush of HttpOnlyStream writes what fits, from the front. *)
LEMMA FlushEffect ==
    ASSUME Shape, NEW d \in Dirs, d = "up", Stream(d), PollFlush(d),
           NEW n, n = LeastOf(Room(d), Len(pending))
    PROVE  /\ n \in Nat /\ n <= Len(pending) /\ n <= Room(d)
           /\ n = Len(pending) \/ n = Room(d)
           /\ StreamOf(delivered'[d], SubSeq(pending, n + 1, Len(pending)),
                       dir[d], wire[d], sent[d])
           /\ delivered' \in [Dirs -> Seq(Nat)] /\ unread' \in [Dirs -> 0..Window]
           /\ \A e \in Dirs \ {d} : delivered'[e] = delivered[e] /\ unread'[e] = unread[e]
           /\ unread'[d] = unread[d] + n
<1>1. unread[d] \in 0..Window /\ Len(pending) \in Nat
  BY LenProperties, Zenon DEF Shape
<1>2. Room(d) \in Nat /\ \A k \in Nat : k <= Room(d) => unread[d] + k \in 0..Window
  BY <1>1, RelayAssumption DEF Room
<1>3. n \in Nat /\ n <= Len(pending) /\ n <= Room(d) /\ (n = Len(pending) \/ n = Room(d))
  BY <1>1, <1>2 DEF LeastOf
<1>4. /\ delivered' = [delivered EXCEPT ![d] = @ \o SubSeq(pending, 1, n)]
      /\ unread' = [unread EXCEPT ![d] = @ + n]
  BY Zenon DEF PollFlush
<1>5. delivered'[d] = delivered[d] \o SubSeq(pending, 1, n)
  BY <1>4, Zenon DEF Shape
<1>6. StreamOf(delivered[d], pending, dir[d], wire[d], sent[d])
  BY Zenon DEF Stream, Kept
<1>7. StreamOf(delivered'[d], SubSeq(pending, n + 1, Len(pending)), dir[d], wire[d], sent[d])
  BY <1>3, <1>5, <1>6, StreamFlushes
<1>8. delivered'[d] \in Seq(Nat)
  BY <1>7, Zenon DEF StreamOf, Run
<1>9. unread[d] + n \in 0..Window
  BY <1>2, <1>3, Zenon
<1>10. /\ delivered' \in [Dirs -> Seq(Nat)] /\ unread' \in [Dirs -> 0..Window]
       /\ \A e \in Dirs \ {d} : delivered'[e] = delivered[e] /\ unread'[e] = unread[e]
       /\ unread'[d] = unread[d] + n
  BY <1>4, <1>5, <1>8, <1>9, Zenon DEF Shape
<1> QED BY <1>3, <1>7, <1>10, Zenon

(* The first branch: HttpOnlyStream::poll_write. *)
LEMMA WriteHttpOnlyEffect ==
    ASSUME Shape, Control, NEW d \in Dirs, d = Current, Stream(d), EndOf(d), PollWriteHttpOnly
    PROVE  TurnEffect(d)
<1> DEFINE s == dir[d]
<1>0. /\ Polling /\ Unwritten(s) /\ Buffers(d) /\ wire' = wire
      /\ sent' = sent /\ fin' = fin /\ reset' = reset /\ half_close' = half_close
      /\ upstream' = upstream
  BY Zenon DEF PollWriteHttpOnly
<1>1. d = "up" /\ upstream = "HttpOnly" /\ Kept(d) = pending /\ Kept(d)' = pending'
  BY <1>0, Zenon DEF Buffers, Kept
<1>2. \A e \in Dirs \ {d} : Kept(e)' = Kept(e)
  BY <1>1, Zenon DEF Kept
<1>3. s \in Direction /\ s.shutdown_complete = FALSE /\ pending \in Seq(Nat)
  BY <1>0, CurrentOpen, Zenon DEF Shape
<1>4. s.buffer \in Seq(Nat) /\ s.write_pos \in Nat /\ s.bytes \in Nat
  BY <1>3, Zenon DEF Direction
<1>5. Len(s.buffer) \in Nat /\ Len(pending) \in Nat /\ unread[d] \in 0..Window
  BY <1>3, <1>4, LenProperties, Zenon DEF Shape
<1>6. s.write_pos < Len(s.buffer) /\ Room(d) \in Nat
  BY <1>0, <1>5, RelayAssumption DEF Unwritten, Room
<1>7. CASE /\ pending = <<>> \/ (Sink(d) \notin reset /\ Len(pending) <= Room(d))
           /\ PollFlush(d)
           /\ pending' = SubSeq(s.buffer, s.write_pos + 1, Len(s.buffer))
           /\ dir' = [dir EXCEPT ![d].write_pos = Len(s.buffer),
                                 ![d].bytes = @ + Len(s.buffer) - s.write_pos]
           /\ Continue(TRUE)
           /\ UNCHANGED <<woken, waits>>
  <2> DEFINE m == s.bytes + Len(s.buffer) - s.write_pos
             n == LeastOf(Room(d), Len(pending))
  <2>1. m \in Nat /\ m >= s.bytes
    BY <1>4, <1>5, <1>6, RestIsMore, Zenon
  <2>2. Advances(dir, dir', d, Len(s.buffer), m)
    BY <1>7, Zenon DEF Advances
  <2>3. n = Len(pending)
    <3>1. pending = <<>> => Len(pending) = 0
      BY <1>3, NoLength, Zenon
    <3> QED BY <1>5, <1>6, <1>7, <3>1 DEF LeastOf
  <2> HIDE DEF m, n, s
  <2>4. /\ dir' \in [Dirs -> Direction] /\ \A e \in Dirs \ {d} : dir'[e] = dir[e]
        /\ dir'[d].write_pos = Len(s.buffer) /\ dir'[d].bytes = m
        /\ dir'[d].buffer = dir[d].buffer /\ dir'[d].eof = dir[d].eof
        /\ dir'[d].shutdown_complete = dir[d].shutdown_complete
    <3>1. dir \in [Dirs -> Direction]
      BY Zenon DEF Shape
    <3> QED BY <1>5, <2>1, <2>2, <3>1, Advance
  <2>5. /\ StreamOf(delivered'[d], SubSeq(pending, n + 1, Len(pending)), s, wire[d], sent[d])
        /\ delivered' \in [Dirs -> Seq(Nat)] /\ unread' \in [Dirs -> 0..Window]
        /\ \A e \in Dirs \ {d} : delivered'[e] = delivered[e] /\ unread'[e] = unread[e]
    BY <1>1, <1>7, FlushEffect, Zenon DEF n, s
  <2>6. SubSeq(pending, n + 1, Len(pending)) = <<>>
    BY <1>5, <2>3, SubSeqEmpty
  <2>7. StreamOf(delivered'[d], <<>>, s, wire[d], sent[d])
    BY <2>5, <2>6, Zenon
  <2>8. /\ dir'[d].buffer = s.buffer /\ dir'[d].write_pos = Len(s.buffer)
        /\ dir'[d].bytes = s.bytes + Len(s.buffer) - s.write_pos
    BY <2>4, Zenon DEF s, m
  <2>9. StreamOf(delivered'[d], pending', dir'[d], wire[d], sent[d])
    BY <1>7, <2>7, <2>8, StreamKeeps, Zenon DEF s
  <2>10. Stream(d)' /\ pending' \in Seq(Nat)
    BY <1>0, <1>1, <2>9, Zenon DEF Stream, StreamOf, Run
  <2>11. EndOf(d)'
    BY <1>0, <1>3, <2>4, Zenon DEF EndOf, s
  <2>12. TurnFrame(d)
    BY <1>0, <1>1, <1>2, <2>4, <2>5, <2>10, Zenon DEF TurnFrame, Shape
  <2>13. dir'[d].bytes >= dir[d].bytes
    BY <2>1, <2>4 DEF s
  <2> QED BY <1>3, <1>7, <2>4, <2>10, <2>11, <2>12, <2>13, Zenon DEF TurnEffect, GoesOn, s
<1>8. CASE /\ Sink(d) \notin reset /\ Len(pending) > Room(d)
           /\ PollFlush(d)
           /\ pending' = SubSeq(pending, Room(d) + 1, Len(pending))
           /\ LeaveWaker(<<"write", d>>)
           /\ UNCHANGED dir
  <2> DEFINE n == LeastOf(Room(d), Len(pending))
  <2>1. n = Room(d)
    BY <1>5, <1>6, <1>8 DEF LeastOf
  <2> HIDE DEF n, s
  <2>2. /\ StreamOf(delivered'[d], SubSeq(pending, n + 1, Len(pending)), s, wire[d], sent[d])
        /\ delivered' \in [Dirs -> Seq(Nat)] /\ unread' \in [Dirs -> 0..Window]
        /\ \A e \in Dirs \ {d} : delivered'[e] = delivered[e] /\ unread'[e] = unread[e]
        /\ unread'[d] = unread[d] + n
    BY <1>1, <1>8, FlushEffect, Zenon DEF n, s
  <2>3. Stream(d)' /\ pending' \in Seq(Nat)
    <3>1. pending' = SubSeq(pending, n + 1, Len(pending))
      BY <1>8, <2>1, Zenon
    <3>2. StreamOf(delivered'[d], pending', s, wire[d], sent[d])
      BY <2>2, <3>1, Zenon
    <3>3. dir'[d] = s
      BY <1>8, Zenon DEF s
    <3>4. Stream(d)'
      BY <1>0, <1>1, <3>2, <3>3, Zenon DEF Stream
    <3> QED BY <3>2, <3>4, Zenon DEF StreamOf, Run
  <2>4. EndOf(d)' /\ TurnFrame(d)
    <3>1. EndOf(d)'
      BY <1>0, <1>8, Zenon DEF EndOf
    <3>2. TurnFrame(d)
      BY <1>0, <1>1, <1>2, <1>8, <2>2, <2>3, Zenon DEF TurnFrame, Shape
    <3> QED BY <3>1, <3>2
  <2>5. Room(d)' = 0
    <3>1. unread[d] \in Nat /\ Room(d) = Window - unread[d]
      BY <1>5 DEF Room
    <3>2. unread'[d] = unread[d] + Room(d)
      BY <2>1, <2>2, Zenon
    <3>3. PICK u \in Nat, a \in Nat : u = unread[d] /\ a = Room(d) /\ a = Window - u
      BY <1>6, <3>1, Zenon
    <3>4. Window - (u + a) = 0
      BY <3>3, FullWindow, Zenon
    <3> QED BY <3>2, <3>3, <3>4, Zenon DEF Room
  <2>6. pending' # <<>>
    <3>1. PICK a \in Nat, l \in Nat : a = Room(d) /\ l = Len(pending) /\ a < l
      BY <1>5, <1>6, <1>8
    <3>2. pending' = SubSeq(pending, a + 1, l)
      BY <1>8, <3>1, Zenon
    <3>3. \A i \in (a + 1)..l : pending[i] \in Nat
      BY <1>3, <3>1
    <3>4. Len(SubSeq(pending, a + 1, l)) # 0
      BY <3>1, <3>3, SubSeqProperties
    <3> QED BY <2>3, <3>2, <3>4, NoLength, Zenon
  <2>7. Blocked(d)'
    BY <1>0, <1>8, <2>5, <2>6, Zenon DEF Blocked, LeaveWaker, s
  <2> QED BY <1>3, <1>8, <2>3, <2>4, <2>7, Zenon DEF TurnEffect, Parks, s
<1>9. CASE /\ Sink(d) \in reset /\ pending # <<>>
           /\ Finish("Failed")
           /\ UNCHANGED <<delivered, unread, pending, rewritten, dir, woken, waits>>
  <2>1. TurnFrame(d) /\ Stream(d)' /\ EndOf(d)'
    BY <1>0, <1>1, <1>2, <1>9, Zenon DEF TurnFrame, Stream, EndOf, Shape
  <2> QED BY <1>3, <1>9, <2>1, Zenon DEF TurnEffect, Fails
<1> QED BY <1>7, <1>8, <1>9, Zenon DEF PollWriteHttpOnly

(* s2 is s with its buffer emptied, and possibly with the end seen or      *)
(* passed on.                                                              *)
EmptiedTo(s, s2, eof, complete) ==
    /\ s2 \in Direction /\ s2.buffer = <<>> /\ s2.write_pos = 0 /\ s2.bytes = s.bytes
    /\ s2.eof = eof /\ s2.shutdown_complete = complete

(* read_len and write_pos go back to 0; eof or shutdown_complete is set. *)
LEMMA EmptiedFields ==
    ASSUME NEW s \in Direction
    PROVE  /\ EmptiedTo(s, Emptied(s), s.eof, s.shutdown_complete)
           /\ EmptiedTo(s, [Emptied(s) EXCEPT !.shutdown_complete = TRUE], s.eof, TRUE)
           /\ EmptiedTo(s, [Emptied(s) EXCEPT !.eof = TRUE], TRUE, s.shutdown_complete)
           /\ \A b \in Seq(Nat) : LET t == [Emptied(s) EXCEPT !.buffer = b] IN
                /\ t \in Direction /\ t.buffer = b /\ t.write_pos = 0 /\ t.bytes = s.bytes
                /\ t.eof = s.eof /\ t.shutdown_complete = s.shutdown_complete
<1> DEFINE m == [s EXCEPT !.buffer = <<>>]  e == Emptied(s)
<1>0. <<>> \in Seq(Nat) /\ 0 \in Nat
  OBVIOUS
<1>1. /\ m \in Direction /\ m.buffer = <<>> /\ m.bytes = s.bytes /\ m.eof = s.eof
      /\ m.shutdown_complete = s.shutdown_complete
  BY <1>0, Zenon DEF Direction
<1> HIDE DEF m
<1>2. e = [m EXCEPT !.write_pos = 0]
  BY Zenon DEF Emptied, m
<1>3. EmptiedTo(s, e, s.eof, s.shutdown_complete)
  BY <1>0, <1>1, <1>2, Zenon DEF EmptiedTo, Direction
<1> HIDE DEF e
<1>4. EmptiedTo(s, [e EXCEPT !.shutdown_complete = TRUE], s.eof, TRUE)
  BY <1>3, Zenon DEF EmptiedTo, Direction
<1>5. EmptiedTo(s, [e EXCEPT !.eof = TRUE], TRUE, s.shutdown_complete)
  BY <1>3, Zenon DEF EmptiedTo, Direction
<1>6. ASSUME NEW b \in Seq(Nat)
      PROVE  LET t == [e EXCEPT !.buffer = b] IN
                /\ t \in Direction /\ t.buffer = b /\ t.write_pos = 0 /\ t.bytes = s.bytes
                /\ t.eof = s.eof /\ t.shutdown_complete = s.shutdown_complete
  BY <1>3, Zenon DEF EmptiedTo, Direction
<1> QED BY <1>3, <1>4, <1>5, <1>6, Zenon DEF e

(* An emptied buffer has nothing unwritten. *)
LEMMA EmptiedIsWritten ==
    ASSUME NEW s, NEW s2, NEW eof, NEW complete, EmptiedTo(s, s2, eof, complete)
    PROVE  ~Unwritten(s2)
  BY RunEmpty DEF EmptiedTo, Unwritten

(* One direction of dir is replaced. *)
LEMMA DirReplaced ==
    ASSUME Shape, NEW d \in Dirs, NEW s2 \in Direction, dir' = [dir EXCEPT ![d] = s2]
    PROVE  /\ dir' \in [Dirs -> Direction] /\ dir'[d] = s2
           /\ \A e \in Dirs \ {d} : dir'[e] = dir[e]
  BY Zenon DEF Shape

(* The second branch: poll_shutdown. *)
LEMMA ShutdownEffect ==
    ASSUME Shape, Control, NEW d \in Dirs, d = Current, Stream(d), EndOf(d), PollShutdown
    PROVE  TurnEffect(d)
<1> DEFINE s == dir[d]
           held == Buffers(d) /\ Sink(d) \notin reset
           n == LeastOf(Room(d), Len(pending))
<1>0. /\ Polling /\ ~Unwritten(s) /\ s.eof
      /\ sent' = sent /\ fin' = fin /\ reset' = reset /\ half_close' = half_close
      /\ upstream' = upstream /\ wire' = wire
      /\ IF held
         THEN PollFlush(d) /\ pending' = SubSeq(pending, n + 1, Len(pending))
         ELSE UNCHANGED <<delivered, unread, pending, rewritten>>
  BY Zenon DEF PollShutdown
<1>1. s \in Direction /\ s.shutdown_complete = FALSE /\ s.eof = TRUE /\ pending \in Seq(Nat)
  <2>1. s \in Direction /\ s.shutdown_complete = FALSE /\ pending \in Seq(Nat)
    BY <1>0, CurrentOpen, Zenon DEF Shape
  <2>2. s.eof \in BOOLEAN
    BY <2>1, Zenon DEF Direction
  <2> QED BY <1>0, <2>1, <2>2, Zenon
<1> HIDE DEF s, n
<1>2. /\ StreamOf(delivered'[d], Kept(d)', s, wire[d], sent[d])
      /\ delivered' \in [Dirs -> Seq(Nat)] /\ unread' \in [Dirs -> 0..Window]
      /\ pending' \in Seq(Nat) /\ (upstream # "HttpOnly" => pending' = pending)
      /\ \A e \in Dirs \ {d} :
            delivered'[e] = delivered[e] /\ unread'[e] = unread[e] /\ Kept(e)' = Kept(e)
  <2>1. CASE held
    <3>1. d = "up" /\ upstream = "HttpOnly"
      BY <2>1, Zenon DEF Buffers
    <3>2. /\ StreamOf(delivered'[d], SubSeq(pending, n + 1, Len(pending)), dir[d], wire[d], sent[d])
          /\ delivered' \in [Dirs -> Seq(Nat)] /\ unread' \in [Dirs -> 0..Window]
          /\ \A e \in Dirs \ {d} : delivered'[e] = delivered[e] /\ unread'[e] = unread[e]
      BY <1>0, <2>1, <3>1, FlushEffect, Zenon DEF n
    <3>3. StreamOf(delivered'[d], pending', s, wire[d], sent[d])
      BY <1>0, <2>1, <3>2, Zenon DEF s
    <3>4. pending' \in Seq(Nat)
      BY <3>3, Zenon DEF StreamOf, Run
    <3> QED BY <3>1, <3>2, <3>3, <3>4, Zenon DEF Kept
  <2>2. CASE ~held
    BY <1>0, <2>2, Zenon DEF Stream, Kept, Shape, s
  <2> QED BY <2>1, <2>2, Zenon
<1>3. ASSUME NEW complete \in BOOLEAN, EmptiedTo(s, dir'[d], TRUE, complete),
             dir' \in [Dirs -> Direction], \A e \in Dirs \ {d} : dir'[e] = dir[e]
      PROVE  /\ TurnFrame(d) /\ Stream(d)' /\ EndOf(d)'
             /\ dir'[d].bytes = dir[d].bytes /\ dir'[d].shutdown_complete = complete
             /\ ~Unwritten(dir'[d]) /\ dir'[d].eof
  <2>1. ~Unwritten(dir'[d])
    BY <1>3, EmptiedIsWritten, Zenon
  <2>2. StreamOf(delivered'[d], Kept(d)', dir'[d], wire[d], sent[d])
    BY <1>0, <1>2, <1>3, StreamEmptied, Zenon DEF EmptiedTo
  <2>3. Stream(d)'
    BY <1>0, <2>2, Zenon DEF Stream
  <2>4. EndOf(d)'
    BY <1>0, <1>3, <2>1, Zenon DEF EndOf, EmptiedTo, s
  <2>5. TurnFrame(d)
    BY <1>0, <1>2, <1>3, Zenon DEF TurnFrame, Shape
  <2> QED BY <1>3, <2>1, <2>3, <2>4, <2>5, Zenon DEF EmptiedTo, s
<1>4. EmptiedTo(s, Emptied(s), TRUE, FALSE)
  BY <1>1, EmptiedFields, Zenon
<1>5. EmptiedTo(s, [Emptied(s) EXCEPT !.shutdown_complete = TRUE], TRUE, TRUE)
  BY <1>1, EmptiedFields, Zenon
<1>6. CASE /\ held => Len(pending) <= Room(d)
           /\ dir' = [dir EXCEPT ![d] = [Emptied(s) EXCEPT !.shutdown_complete = TRUE]]
           /\ CompleteDirection
           /\ UNCHANGED <<woken, waits>>
  <2>1. /\ dir'[d] = [Emptied(s) EXCEPT !.shutdown_complete = TRUE]
        /\ dir' \in [Dirs -> Direction] /\ \A e \in Dirs \ {d} : dir'[e] = dir[e]
    BY <1>5, <1>6, DirReplaced, Zenon DEF EmptiedTo
  <2>2. EmptiedTo(s, dir'[d], TRUE, TRUE) /\ TRUE \in BOOLEAN
    BY <1>5, <2>1, Zenon
  <2> QED BY <1>0, <1>3, <1>6, <2>1, <2>2, Zenon DEF TurnEffect, Completes, s
<1>7. ASSUME dir' = [dir EXCEPT ![d] = Emptied(s)]
      PROVE  /\ TurnFrame(d) /\ Stream(d)' /\ EndOf(d)'
             /\ dir'[d].bytes = dir[d].bytes /\ dir'[d].shutdown_complete = FALSE
             /\ ~Unwritten(dir'[d]) /\ dir'[d].eof
  <2>1. /\ dir'[d] = Emptied(s)
        /\ dir' \in [Dirs -> Direction] /\ \A e \in Dirs \ {d} : dir'[e] = dir[e]
    BY <1>4, <1>7, DirReplaced, Zenon DEF EmptiedTo
  <2>2. EmptiedTo(s, dir'[d], TRUE, FALSE) /\ FALSE \in BOOLEAN
    BY <1>4, <2>1, Zenon
  <2> QED BY <1>3, <2>1, <2>2, Zenon
<1>8. CASE /\ Sink(d) \in reset
           /\ dir' = [dir EXCEPT ![d] = Emptied(s)]
           /\ Finish("Failed")
           /\ UNCHANGED <<woken, waits>>
  BY <1>7, <1>8, Zenon DEF TurnEffect, Fails
<1>9. CASE /\ Sink(d) \notin reset
           /\ IF held THEN Len(pending) >= Room(d) ELSE Room(d) = 0
           /\ dir' = [dir EXCEPT ![d] = Emptied(s)]
           /\ LeaveWaker(<<"write", d>>)
  <2>1. Room(d)' = 0
    <3>1. CASE held
      <4>1. d = "up"
        BY <3>1, Zenon DEF Buffers
      <4>2. /\ n \in Nat /\ n <= Len(pending) /\ n <= Room(d) /\ (n = Len(pending) \/ n = Room(d))
            /\ unread'[d] = unread[d] + n
        BY <1>0, <3>1, <4>1, FlushEffect, Zenon DEF n
      <4>3. Len(pending) \in Nat /\ unread[d] \in 0..Window
        BY <1>1, LenProperties, Zenon DEF Shape
      <4>4. unread[d] \in Nat /\ Room(d) = Window - unread[d] /\ Room(d) \in Nat
        BY <4>3, RelayAssumption DEF Room
      <4>5. n = Room(d)
        BY <1>9, <3>1, <4>2, <4>3, <4>4
      <4>6. unread'[d] = unread[d] + Room(d)
        BY <4>2, <4>5, Zenon
      <4>7. Window - unread'[d] = 0
        BY <4>4, <4>6, FullWindow
      <4> QED BY <4>7, Zenon DEF Room
    <3>2. CASE ~held
      BY <1>0, <1>9, <3>2, Zenon DEF Room
    <3> QED BY <3>1, <3>2, Zenon
  <2>2. <<"write", d>> \in waits'
    BY <1>9 DEF LeaveWaker
  <2>3. Blocked(d)'
    BY <1>0, <1>7, <1>9, <2>1, <2>2, Zenon DEF Blocked
  <2> QED BY <1>7, <1>9, <2>3, Zenon DEF TurnEffect, Parks
<1> QED BY <1>6, <1>8, <1>9, Zenon DEF PollShutdown, s

(* The first bytes of a sequence, and the rest, are sequences. *)
LEMMA PartTyped ==
    ASSUME NEW w \in Seq(Nat), NEW n \in Nat, n <= Len(w)
    PROVE  SubSeq(w, 1, n) \in Seq(Nat) /\ SubSeq(w, n + 1, Len(w)) \in Seq(Nat)
<1>1. Len(w) \in Nat /\ \A i \in 1..Len(w) : w[i] \in Nat
  OBVIOUS
<1>2. \A i \in 1..n : w[i] \in Nat
  BY <1>1
<1>3. \A i \in (n + 1)..Len(w) : w[i] \in Nat
  BY <1>1
<1> QED BY <1>1, <1>2, <1>3, SubSeqProperties

(* The third branch: poll_read. *)
LEMMA ReadEffect ==
    ASSUME Shape, Control, NEW d \in Dirs, d = Current, Stream(d), EndOf(d), PollRead
    PROVE  TurnEffect(d)
<1> DEFINE s == dir[d]
<1>0. /\ Polling /\ ~Unwritten(s) /\ ~s.eof
      /\ sent' = sent /\ fin' = fin /\ reset' = reset /\ half_close' = half_close
      /\ delivered' = delivered /\ unread' = unread
      /\ UNCHANGED httpOnlyVars
  BY Zenon DEF PollRead
<1>1. pending' = pending /\ upstream' = upstream /\ \A e : Kept(e)' = Kept(e)
  BY <1>0, Zenon DEF httpOnlyVars, Kept
<1>2. /\ s \in Direction /\ s.shutdown_complete = FALSE /\ s.eof = FALSE
      /\ wire[d] \in Seq(Nat)
  <2>1. s \in Direction /\ s.shutdown_complete = FALSE /\ wire[d] \in Seq(Nat)
    BY <1>0, CurrentOpen, Zenon DEF Shape
  <2>2. s.eof \in BOOLEAN
    BY <2>1, Zenon DEF Direction
  <2> QED BY <1>0, <2>1, <2>2, Zenon
<1> HIDE DEF s
<1>3. StreamOf(delivered'[d], Kept(d)', s, wire[d], sent[d])
  BY <1>0, <1>1, Zenon DEF Stream, s
<1>4. ASSUME dir' \in [Dirs -> Direction], \A e \in Dirs \ {d} : dir'[e] = dir[e],
             wire' \in [Dirs -> Seq(Nat)], \A e \in Dirs \ {d} : wire'[e] = wire[e]
      PROVE  TurnFrame(d)
  BY <1>0, <1>1, <1>4, Zenon DEF TurnFrame, Shape
<1>5. ASSUME NEW eof \in BOOLEAN, NEW s2, dir' = [dir EXCEPT ![d] = s2], wire' = wire,
             EmptiedTo(s, s2, eof, FALSE), eof => wire[d] = <<>> /\ fin[d]
      PROVE  /\ TurnFrame(d) /\ Stream(d)' /\ EndOf(d)'
             /\ dir'[d].bytes = dir[d].bytes /\ dir'[d].shutdown_complete = FALSE
             /\ ~Unwritten(dir'[d]) /\ dir'[d].eof = eof
  <2>1. /\ dir'[d] = s2
        /\ dir' \in [Dirs -> Direction] /\ \A e \in Dirs \ {d} : dir'[e] = dir[e]
    BY <1>5, DirReplaced, Zenon DEF EmptiedTo
  <2>2. ~Unwritten(s2)
    BY <1>5, EmptiedIsWritten, Zenon
  <2>3. StreamOf(delivered'[d], Kept(d)', s2, wire[d], sent[d])
    BY <1>0, <1>3, <1>5, StreamEmptied, Zenon DEF EmptiedTo
  <2>4. Stream(d)'
    BY <1>0, <1>5, <2>1, <2>3, Zenon DEF Stream
  <2>5. EndOf(d)'
    BY <1>0, <1>5, <2>1, Zenon DEF EndOf, EmptiedTo
  <2>6. TurnFrame(d)
    BY <1>4, <1>5, <2>1, Zenon DEF Shape
  <2> QED BY <1>5, <2>1, <2>2, <2>4, <2>5, <2>6, Zenon DEF EmptiedTo, s
<1>6. EmptiedTo(s, Emptied(s), FALSE, FALSE) /\ FALSE \in BOOLEAN
  BY <1>2, EmptiedFields, Zenon
<1>7. EmptiedTo(s, [Emptied(s) EXCEPT !.eof = TRUE], TRUE, FALSE) /\ TRUE \in BOOLEAN
  BY <1>2, EmptiedFields, Zenon
<1>8. CASE /\ Source(d) \notin reset /\ wire[d] # <<>>
           /\ \E n \in 1..LeastOf(BufferSize, Len(wire[d])) :
                 /\ dir' = [dir EXCEPT ![d] =
                         [Emptied(s) EXCEPT !.buffer = SubSeq(wire[d], 1, n)]]
                 /\ wire' = [wire EXCEPT ![d] = SubSeq(@, n + 1, Len(@))]
           /\ Continue(TRUE)
           /\ UNCHANGED <<woken, waits>>
  <2>1. PICK n \in 1..LeastOf(BufferSize, Len(wire[d])) :
                 /\ dir' = [dir EXCEPT ![d] =
                         [Emptied(s) EXCEPT !.buffer = SubSeq(wire[d], 1, n)]]
                 /\ wire' = [wire EXCEPT ![d] = SubSeq(@, n + 1, Len(@))]
    BY <1>8, Zenon
  <2>2. n \in Nat /\ n <= Len(wire[d])
    <3>1. Len(wire[d]) \in Nat
      BY <1>2, LenProperties, Zenon
    <3> QED BY <3>1, RelayAssumption DEF LeastOf
  <2> DEFINE t == [Emptied(s) EXCEPT !.buffer = SubSeq(wire[d], 1, n)]
             v == SubSeq(wire[d], n + 1, Len(wire[d]))
             B == SubSeq(wire[d], 1, n)
  <2>3. B \in Seq(Nat) /\ v \in Seq(Nat)
    BY <1>2, <2>2, PartTyped, Zenon
  <2>4. /\ t \in Direction /\ t.buffer = B /\ t.write_pos = 0 /\ t.bytes = s.bytes
        /\ t.eof = FALSE /\ t.shutdown_complete = FALSE
    BY <1>2, <2>3, EmptiedFields, Zenon
  <2>5. wire' = [wire EXCEPT ![d] = v] /\ dir' = [dir EXCEPT ![d] = t]
    BY <2>1, Zenon
  <2> HIDE DEF t, v
  <2>6. /\ dir'[d] = t
        /\ dir' \in [Dirs -> Direction] /\ \A e \in Dirs \ {d} : dir'[e] = dir[e]
    BY <2>4, <2>5, DirReplaced, Zenon
  <2>7. wire'[d] = v /\ wire' \in [Dirs -> Seq(Nat)] /\ \A e \in Dirs \ {d} : wire'[e] = wire[e]
    BY <2>3, <2>5, Zenon DEF Shape
  <2>8. StreamOf(delivered'[d], Kept(d)', t, v, sent[d])
    BY <1>0, <1>3, <2>2, <2>4, StreamReads, ZenonT(30) DEF v
  <2>9. Stream(d)'
    BY <1>0, <2>6, <2>7, <2>8, Zenon DEF Stream
  <2>10. EndOf(d)'
    BY <2>4, <2>6, Zenon DEF EndOf
  <2>11. TurnFrame(d)
    BY <1>4, <2>6, <2>7, Zenon
  <2>12. dir'[d].bytes >= dir[d].bytes
    <3>1. dir'[d].bytes = dir[d].bytes /\ dir[d].bytes \in Nat
      BY <1>2, <2>4, <2>6, Zenon DEF s, Direction
    <3> QED BY <3>1
  <2> QED BY <1>8, <2>4, <2>6, <2>9, <2>10, <2>11, <2>12, Zenon DEF TurnEffect, GoesOn
<1>9. CASE /\ Source(d) \notin reset /\ wire[d] = <<>> /\ fin[d]
           /\ dir' = [dir EXCEPT ![d] = [Emptied(s) EXCEPT !.eof = TRUE]]
           /\ Continue(FALSE)
           /\ UNCHANGED <<wire, woken, waits>>
  <2>1. /\ TurnFrame(d) /\ Stream(d)' /\ EndOf(d)'
        /\ dir'[d].bytes = dir[d].bytes /\ dir'[d].shutdown_complete = FALSE
        /\ ~Unwritten(dir'[d]) /\ dir'[d].eof = TRUE
    BY <1>5, <1>7, <1>9, Zenon
  <2>2. dir'[d].bytes >= dir[d].bytes
    <3>1. dir[d].bytes \in Nat
      BY <1>2, Zenon DEF s, Direction
    <3> QED BY <2>1, <3>1
  <2>3. ~dir[d].eof
    BY Zenon DEF PollRead
  <2> QED BY <1>9, <2>1, <2>2, <2>3, Zenon DEF TurnEffect, GoesOn
<1>10. CASE /\ Source(d) \notin reset /\ wire[d] = <<>> /\ ~fin[d]
            /\ dir' = [dir EXCEPT ![d] = Emptied(s)]
            /\ LeaveWaker(<<"read", d>>)
            /\ UNCHANGED wire
  <2>1. /\ TurnFrame(d) /\ Stream(d)' /\ EndOf(d)'
        /\ dir'[d].bytes = dir[d].bytes /\ dir'[d].shutdown_complete = FALSE
        /\ ~Unwritten(dir'[d]) /\ dir'[d].eof = FALSE
    BY <1>5, <1>6, <1>10, Zenon
  <2>2. <<"read", d>> \in waits'
    BY <1>10 DEF LeaveWaker
  <2>3. Blocked(d)'
    BY <1>0, <1>10, <2>1, <2>2, Zenon DEF Blocked
  <2> QED BY <1>10, <2>1, <2>3, Zenon DEF TurnEffect, Parks
<1>11. CASE /\ Source(d) \in reset
            /\ dir' = [dir EXCEPT ![d] = Emptied(s)]
            /\ Finish("Failed")
            /\ UNCHANGED <<wire, woken, waits>>
  <2>1. /\ TurnFrame(d) /\ Stream(d)' /\ EndOf(d)'
        /\ dir'[d].bytes = dir[d].bytes /\ dir'[d].shutdown_complete = FALSE
    BY <1>5, <1>6, <1>11, Zenon
  <2> QED BY <1>11, <2>1, Zenon DEF TurnEffect, Fails
<1> QED BY <1>8, <1>9, <1>10, <1>11, Zenon DEF PollRead, s

(* Every iteration does one of the four. *)
LEMMA TurnHasEffect ==
    ASSUME Shape, Control, \A e \in Dirs : Stream(e) /\ EndOf(e), Turn
    PROVE  Polling /\ \E d \in Dirs : d = Current /\ TurnEffect(d)
<1>1. Polling
  BY Zenon DEF Turn, PollWrite, PollWriteHttpOnly, PollShutdown, PollRead
<1>2. Current \in Dirs
  BY <1>1, CurrentOpen, Zenon
<1>3. \A d \in Dirs : d = Current => TurnEffect(d)
  BY WriteEffect, WriteHttpOnlyEffect, ShutdownEffect, ReadEffect, Zenon DEF Turn
<1> QED BY <1>1, <1>2, <1>3, Zenon
-----------------------------------------------------------------------------
(* The bytes of both directions, where they are. *)
Streams == Shape /\ \A d \in Dirs : Stream(d) /\ EndOf(d)

(* The steps that move no byte. *)
Quiet ==
    \/ StartPoll \/ BudgetSpent \/ PollDeadline \/ DropFuture \/ DeadlineElapses \/ Returned
    \/ \E side \in Sides : Reset(side)

(* Every step is one of these. *)
LEMMA StepKinds ==
    ASSUME [Next]_vars
    PROVE  \/ Turn \/ Quiet \/ UNCHANGED vars
           \/ \E d \in Dirs : Send(d) \/ Close(d) \/ Consume(d)
  BY Zenon DEF Next, TaskStep, Turn, Quiet

(* What such a step leaves alone. *)
LEMMA QuietFrame ==
    ASSUME Quiet \/ UNCHANGED vars
    PROVE  UNCHANGED <<sent, fin, wire, delivered, unread, upstream, pending, dir, half_close>>
<1>1. CASE StartPoll
  BY <1>1, Zenon DEF StartPoll, peerVars, httpOnlyVars
<1>2. CASE BudgetSpent
  BY <1>2, Zenon DEF BudgetSpent, peerVars, httpOnlyVars
<1>3. CASE PollDeadline
  BY <1>3, Zenon DEF PollDeadline, peerVars, httpOnlyVars
<1>4. CASE DropFuture
  BY <1>4, Zenon DEF DropFuture, peerVars, httpOnlyVars
<1>5. CASE DeadlineElapses
  BY <1>5, Zenon DEF DeadlineElapses, httpOnlyVars
<1>6. CASE \E side \in Sides : Reset(side)
  BY <1>6, Zenon DEF Reset, httpOnlyVars
<1>7. CASE UNCHANGED vars
  BY <1>7, Zenon DEF vars, httpOnlyVars
<1> QED BY <1>1, <1>2, <1>3, <1>4, <1>5, <1>6, <1>7, Zenon DEF Quiet, Returned

(* What the peers' steps leave alone. *)
LEMMA PeerFrame ==
    ASSUME NEW d, Send(d) \/ Close(d) \/ Consume(d)
    PROVE  UNCHANGED <<delivered, upstream, pending, dir, half_close, reset, first_closed,
                       deadline, report, pc, steps, made_progress>>
<1>1. CASE Send(d)
  BY <1>1, Zenon DEF Send, httpOnlyVars, pollVars
<1>2. CASE Close(d)
  BY <1>2, Zenon DEF Close, httpOnlyVars, pollVars
<1>3. CASE Consume(d)
  BY <1>3, Zenon DEF Consume, httpOnlyVars, pollVars
<1> QED BY <1>1, <1>2, <1>3, Zenon

(* No byte is lost, repeated or reordered by any step. *)
LEMMA StreamsStep ==
    ASSUME Streams, Control, [Next]_vars
    PROVE  Streams'
<1>1. CASE Turn
  <2>1. PICK d \in Dirs : TurnFrame(d) /\ Stream(d)' /\ EndOf(d)'
    BY <1>1, TurnHasEffect, Zenon DEF Streams, TurnEffect
  <2>2. Shape'
    BY <2>1, Zenon DEF TurnFrame, Shape, Streams
  <2>3. \A e \in Dirs \ {d} : Stream(e)' /\ EndOf(e)'
    BY <2>1, Zenon DEF TurnFrame, Streams, Stream, EndOf
  <2> QED BY <2>1, <2>2, <2>3, Zenon DEF Streams
<1>2. CASE Quiet \/ UNCHANGED vars
  <2>1. UNCHANGED <<sent, fin, wire, delivered, unread, pending, dir>>
    BY <1>2, QuietFrame, Zenon
  <2>2. \A e : Kept(e)' = Kept(e)
    BY <2>1, Zenon DEF Kept
  <2> QED BY <2>1, <2>2, Zenon DEF Streams, Shape, Stream, EndOf
<1>3. ASSUME NEW d \in Dirs, Send(d) PROVE Streams'
  <2>1. /\ sent' = [sent EXCEPT ![d] = @ + 1] /\ wire' = [wire EXCEPT ![d] = Append(@, sent[d] + 1)]
        /\ fin' = fin /\ unread' = unread /\ ~fin[d]
    BY <1>3, Zenon DEF Send
  <2>2. UNCHANGED <<delivered, pending, dir>>
    BY <1>3, PeerFrame, Zenon
  <2>3. \A e : Kept(e)' = Kept(e)
    BY <2>2, Zenon DEF Kept
  <2>4. sent[d] \in Nat /\ wire[d] \in Seq(Nat)
    BY Zenon DEF Streams, Shape
  <2>5. sent[d] + 1 \in Nat
    BY <2>4
  <2>6. Append(wire[d], sent[d] + 1) \in Seq(Nat)
    BY <2>4, <2>5
  <2>7. /\ sent'[d] = sent[d] + 1 /\ wire'[d] = Append(wire[d], sent[d] + 1)
        /\ \A e \in Dirs \ {d} : sent'[e] = sent[e] /\ wire'[e] = wire[e]
        /\ sent' \in [Dirs -> Nat] /\ wire' \in [Dirs -> Seq(Nat)]
    BY <2>1, <2>5, <2>6, Zenon DEF Streams, Shape
  <2>8. Stream(d)'
    BY <2>2, <2>3, <2>7, StreamSends, Zenon DEF Streams, Stream
  <2>9. EndOf(d)'
    BY <2>1, <2>2, Zenon DEF Streams, EndOf
  <2>10. \A e \in Dirs \ {d} : Stream(e)' /\ EndOf(e)'
    BY <2>1, <2>2, <2>3, <2>7, Zenon DEF Streams, Stream, EndOf
  <2>11. Shape'
    BY <2>1, <2>2, <2>7, Zenon DEF Streams, Shape
  <2> QED BY <2>8, <2>9, <2>10, <2>11, Zenon DEF Streams
<1>4. ASSUME NEW d \in Dirs, Close(d) PROVE Streams'
  <2>1. /\ fin' = [fin EXCEPT ![d] = TRUE] /\ sent' = sent /\ wire' = wire /\ unread' = unread
    BY <1>4, Zenon DEF Close
  <2>2. UNCHANGED <<delivered, pending, dir>>
    BY <1>4, PeerFrame, Zenon
  <2>3. \A e : Kept(e)' = Kept(e)
    BY <2>2, Zenon DEF Kept
  <2>4. fin' \in [Dirs -> BOOLEAN] /\ \A e \in Dirs : fin[e] => fin'[e]
    BY <2>1, Zenon DEF Streams, Shape
  <2>5. Shape'
    BY <2>1, <2>2, <2>4, Zenon DEF Streams, Shape
  <2>6. \A e \in Dirs : Stream(e)' /\ EndOf(e)'
    BY <2>1, <2>2, <2>3, <2>4, Zenon DEF Streams, Stream, EndOf
  <2> QED BY <2>5, <2>6, Zenon DEF Streams
<1>5. ASSUME NEW d \in Dirs, Consume(d) PROVE Streams'
  <2>1. /\ unread' = [unread EXCEPT ![d] = @ - 1] /\ unread[d] > 0
        /\ UNCHANGED <<sent, fin, wire>>
    BY <1>5, Zenon DEF Consume
  <2>2. UNCHANGED <<delivered, pending, dir>>
    BY <1>5, PeerFrame, Zenon
  <2>3. \A e : Kept(e)' = Kept(e)
    BY <2>2, Zenon DEF Kept
  <2>4. unread[d] - 1 \in 0..Window
    <3>1. unread[d] \in 0..Window
      BY Zenon DEF Streams, Shape
    <3> QED BY <2>1, <3>1, RelayAssumption
  <2>5. unread' \in [Dirs -> 0..Window]
    BY <2>1, <2>4, Zenon DEF Streams, Shape
  <2>6. Shape'
    BY <2>1, <2>2, <2>5, Zenon DEF Streams, Shape
  <2>7. \A e \in Dirs : Stream(e)' /\ EndOf(e)'
    BY <2>1, <2>2, <2>3, Zenon DEF Streams, Stream, EndOf
  <2> QED BY <2>6, <2>7, Zenon DEF Streams
<1> QED BY <1>1, <1>2, <1>3, <1>4, <1>5, StepKinds, Zenon

(* The streams are empty when the relay starts. *)
LEMMA InitStreams == Init => Streams /\ Control
<1> SUFFICES ASSUME Init PROVE Streams /\ Control
  OBVIOUS
<1>0. /\ sent = [d \in Dirs |-> 0] /\ fin = [d \in Dirs |-> FALSE]
      /\ wire = [d \in Dirs |-> <<>>] /\ delivered = [d \in Dirs |-> <<>>]
      /\ unread = [d \in Dirs |-> 0] /\ pending = <<>>
      /\ dir = [d \in Dirs |-> FreshDirection]
      /\ first_closed = "None" /\ deadline = "None" /\ pc = "Idle"
      /\ report = [kind |-> "Open", up |-> 0, down |-> 0]
  BY Zenon DEF Init
<1>1. /\ FreshDirection \in Direction /\ FreshDirection.buffer = <<>>
      /\ FreshDirection.write_pos = 0 /\ FreshDirection.bytes = 0
      /\ FreshDirection.eof = FALSE /\ FreshDirection.shutdown_complete = FALSE
  BY DEF FreshDirection, Direction
<1>2. <<>> \in Seq(Nat) /\ 0 \in Nat /\ 0 \in 0..Window /\ FALSE \in BOOLEAN
  BY RelayAssumption
<1>3. Shape
  BY <1>0, <1>1, <1>2, Zenon DEF Shape
<1>4. StreamOf(<<>>, <<>>, FreshDirection, <<>>, 0)
  <2>1. /\ 0 = Len(<<>>) + Len(<<>>) /\ 0 <= 0 /\ 0 <= Len(<<>>)
        /\ 0 = 0 - 0 + Len(<<>>) + Len(<<>>)
    BY RunEmpty
  <2> QED BY <1>1, <1>2, <2>1, RunEmpty, Zenon DEF StreamOf
<1>5. \A d \in Dirs : /\ delivered[d] = <<>> /\ Kept(d) = <<>> /\ dir[d] = FreshDirection
                      /\ wire[d] = <<>> /\ sent[d] = 0
  BY <1>0, Zenon DEF Kept
<1>6. \A d \in Dirs : Stream(d) /\ EndOf(d)
  BY <1>1, <1>4, <1>5, Zenon DEF Stream, EndOf
<1>7. Control
  BY <1>0, <1>1, <1>5, Zenon DEF Control, Source
<1> QED BY <1>3, <1>6, <1>7, Zenon DEF Streams

(* Where the future is after a step that is no iteration of the loop. *)
LEMMA QuietControl ==
    ASSUME Control, Shape, Quiet
    PROVE  Control'
<1>0. UNCHANGED <<upstream, pending, dir>>
  BY QuietFrame, Zenon
<1>1. ASSUME UNCHANGED <<pc, first_closed, deadline, report>>
      PROVE  Control'
  BY <1>0, <1>1, Zenon DEF Control
<1>2. CASE StartPoll
  <2>1. /\ pc = "Idle" /\ pc' = IF first_closed = "None" THEN "Up" ELSE "Deadline"
        /\ UNCHANGED <<first_closed, deadline, report>>
    BY <1>2, Zenon DEF StartPoll
  <2> QED BY <1>0, <2>1 DEF Control
<1>3. CASE BudgetSpent
  <2>1. /\ Polling /\ pc' = IF pc = "Up" THEN "Down" ELSE "Idle"
        /\ UNCHANGED <<first_closed, deadline, report>>
    BY <1>3, Zenon DEF BudgetSpent, LeaveDirection
  <2> QED BY <1>0, <2>1 DEF Control, Polling
<1>4. CASE PollDeadline
  <2>1. /\ pc = "Deadline" /\ UNCHANGED <<first_closed, deadline>>
        /\ \/ pc' = "Rest" /\ report' = report
           \/ pc' = "Done" /\ Finish("TimedOut")
    BY <1>4, Zenon DEF PollDeadline, Finish
  <2>2. CASE pc' = "Rest" /\ report' = report
    BY <1>0, <2>1, <2>2 DEF Control
  <2>3. CASE pc' = "Done" /\ Finish("TimedOut")
    <3>1. report'.kind # "Open"
      BY <2>3 DEF Finish
    <3> QED BY <1>0, <2>1, <2>3, <3>1, Zenon DEF Control
  <2> QED BY <2>1, <2>2, <2>3, Zenon
<1>5. CASE DropFuture
  <2>1. pc' = "Done" /\ Finish("Dropped") /\ UNCHANGED <<first_closed, deadline>>
    BY <1>5, Zenon DEF DropFuture, Finish
  <2>2. report'.kind # "Open"
    BY <2>1 DEF Finish
  <2> QED BY <1>0, <2>1, <2>2, Zenon DEF Control
<1>6. CASE DeadlineElapses
  <2>1. deadline # "None" /\ UNCHANGED <<pc, first_closed, report>>
    BY <1>6, Zenon DEF DeadlineElapses, pollVars
  <2> QED BY <1>0, <2>1, Zenon DEF Control
<1>7. CASE \E side \in Sides : Reset(side)
  BY <1>1, <1>7, Zenon DEF Reset, pollVars
<1>8. CASE Returned
  BY <1>1, <1>8, Zenon DEF Returned, vars
<1> QED BY <1>2, <1>3, <1>4, <1>5, <1>6, <1>7, <1>8, Zenon DEF Quiet

(* Where it is after an iteration. *)
LEMMA TurnControl ==
    ASSUME Control, Shape, Polling, NEW d \in Dirs, d = Current, TurnEffect(d)
    PROVE  Control'
<1>0. /\ upstream' = upstream /\ (upstream # "HttpOnly" => pending' = pending)
      /\ \A e \in Dirs \ {d} : dir'[e] = dir[e]
  BY Zenon DEF TurnEffect, TurnFrame
<1>1. first_closed # Source(d) /\ dir[d].shutdown_complete = FALSE /\ pc # "Done"
  BY CurrentOpen, Zenon
<1>2. upstream' # "HttpOnly" => pending' = <<>>
  BY <1>0, Zenon DEF Control
<1>3. ASSUME dir'[d].shutdown_complete = FALSE, first_closed' = first_closed
      PROVE  \A e \in Dirs : dir'[e].shutdown_complete <=> first_closed' = Source(e)
  <2>1. \A e \in Dirs : dir[e].shutdown_complete <=> first_closed = Source(e)
    BY <1>1, Zenon DEF Control
  <2> QED BY <1>0, <1>1, <1>3, <2>1, Zenon
<1>4. CASE GoesOn(d)
  <2>1. dir'[d].shutdown_complete = FALSE /\ UNCHANGED <<pc, first_closed, deadline, report>>
    BY <1>4, Zenon DEF GoesOn, Continue
  <2> QED BY <1>2, <1>3, <2>1, Zenon DEF Control
<1>5. CASE Parks(d)
  <2>1. /\ dir'[d].shutdown_complete = FALSE /\ UNCHANGED <<first_closed, deadline, report>>
        /\ pc' = IF pc = "Up" THEN "Down" ELSE "Idle"
    BY <1>5, Zenon DEF Parks, LeaveWaker, LeaveDirection
  <2>2. \A e \in Dirs : dir'[e].shutdown_complete <=> first_closed' = Source(e)
    BY <1>3, <2>1, Zenon
  <2>3. /\ pc' \in {"Down", "Idle"} /\ (pc' = "Down" => first_closed = "None")
    BY <2>1 DEF Control
  <2>4. pc' # "Done" /\ pc' \notin {"Deadline", "Rest", "Up"}
    BY <2>3
  <2> QED BY <1>1, <1>2, <2>1, <2>2, <2>3, <2>4, Zenon DEF Control
<1>6. ASSUME NEW kind, kind # "Open", Finish(kind) PROVE Control'
  <2>1. pc' = "Done" /\ UNCHANGED <<first_closed, deadline>> /\ report'.kind = kind
    BY <1>6 DEF Finish
  <2> QED BY <1>2, <1>6, <2>1, Zenon DEF Control
<1>7. CASE Fails(d)
  <2>1. "Failed" # "Open"
    OBVIOUS
  <2> QED BY <1>6, <1>7, <2>1, Zenon DEF Fails
<1>8. CASE Completes(d)
  <2>1. CASE first_closed = "None"
    <3>1. /\ first_closed' = Source(d) /\ pc' = "Deadline" /\ report' = report
      BY <1>8, <2>1, Zenon DEF Completes, CompleteDirection, StartDrain
    <3>2. first_closed' \in {"Client", "Server"} /\ first_closed' # "None"
      BY <3>1 DEF Source
    <3>3. \A e \in Dirs \ {d} : ~dir'[e].shutdown_complete /\ first_closed' # Source(e)
      <4>1. \A e \in Dirs \ {d} : Source(e) # Source(d) /\ Source(e) # "None"
        BY DEF Dirs, Source
      <4> QED BY <1>0, <1>1, <2>1, <3>1, <4>1, Zenon DEF Control
    <3>4. dir'[d].shutdown_complete
      BY <1>8, Zenon DEF Completes
    <3> QED BY <1>1, <1>2, <3>1, <3>2, <3>3, <3>4, Zenon DEF Control
  <2>2. CASE first_closed # "None"
    <3>1. "Closed" # "Open"
      OBVIOUS
    <3> QED BY <1>6, <1>8, <2>2, <3>1, Zenon DEF Completes, CompleteDirection
  <2> QED BY <2>1, <2>2
<1> QED BY <1>4, <1>5, <1>7, <1>8, Zenon DEF TurnEffect

(* Where the future is, after every step. *)
LEMMA ControlStep ==
    ASSUME Streams, Control, [Next]_vars
    PROVE  Control'
<1>1. CASE Turn
  BY <1>1, TurnHasEffect, TurnControl, Zenon DEF Streams
<1>2. CASE Quiet
  BY <1>2, QuietControl, Zenon DEF Streams
<1>3. CASE UNCHANGED vars
  BY <1>3, Zenon DEF Control, vars, httpOnlyVars
<1>4. CASE \E d \in Dirs : Send(d) \/ Close(d) \/ Consume(d)
  <2>1. UNCHANGED <<upstream, pending, dir, first_closed, deadline, report, pc>>
    BY <1>4, PeerFrame, Zenon
  <2> QED BY <2>1, Zenon DEF Control
<1> QED BY <1>1, <1>2, <1>3, <1>4, StepKinds, Zenon

(* The streams and the state of the future, always. *)
LEMMA RelayInductive == Spec => [](Streams /\ Control)
<1>1. Streams /\ Control /\ [Next]_vars => (Streams /\ Control)'
  BY StreamsStep, ControlStep, Zenon
<1> QED BY <1>1, InitStreams, PTL DEF Spec
-----------------------------------------------------------------------------
(* The refinement mapping: the bytes the streams have accepted, and the    *)
(* ends that were passed on.                                               *)
Accepted == [delivered EXCEPT !["up"] = @ \o pending]
Passed == [d \in Dirs |-> dir[d].shutdown_complete]

Prefix(n) == [i \in 1..n |-> i]

AcceptedInOrder ==
    /\ Accepted = [d \in Dirs |-> Prefix(dir[d].bytes)]
    /\ \A d \in Dirs : dir[d].bytes \in Nat /\ Len(Prefix(dir[d].bytes)) = dir[d].bytes

(* The accepted bytes of each direction are its first `bytes` bytes. *)
LEMMA AcceptedIs ==
    Streams => AcceptedInOrder
<1> SUFFICES ASSUME Streams
             PROVE  AcceptedInOrder
  BY Zenon
<1>1. \A d \in Dirs : StreamOf(delivered[d], Kept(d), dir[d], wire[d], sent[d])
  BY Zenon DEF Streams, Stream
<1>2. \A d \in Dirs : delivered[d] \o Kept(d) = Prefix(dir[d].bytes)
  BY <1>1, StreamPrefix, Zenon DEF Prefix
<1>3. Accepted["up"] = delivered["up"] \o Kept("up") /\ "up" \in Dirs /\ "down" \in Dirs
  BY Zenon DEF Accepted, Kept, Dirs, Streams, Shape
<1>4. Accepted["down"] = delivered["down"] /\ DOMAIN Accepted = Dirs /\ Kept("down") = <<>>
  BY DEF Accepted, Kept, Dirs, Streams, Shape
<1>5. delivered["down"] \o <<>> = delivered["down"]
  <2>1. delivered["down"] \in Seq(Nat)
    BY <1>3, Zenon DEF Streams, Shape
  <2> QED BY <2>1, ConcatEmptySeq, Zenon
<1>6. \A d \in Dirs : d = "up" \/ d = "down"
  BY DEF Dirs
<1>7. \A d \in Dirs : Accepted[d] = Prefix(dir[d].bytes)
  BY <1>2, <1>3, <1>4, <1>5, <1>6, Zenon
<1>8. Accepted = [d \in Dirs |-> Accepted[d]]
  BY <1>4, Zenon DEF Accepted
<1>9. \A d \in Dirs : dir[d].bytes \in Nat
  BY DEF Streams, Shape, Direction
<1>10. \A n \in Nat : Len(Prefix(n)) = n
  BY DEF Prefix
<1> QED BY <1>7, <1>8, <1>9, <1>10, Zenon DEF AcceptedInOrder

(* What was accepted and is still on its way adds up to what was sent. *)
LEMMA AcceptedOfSent ==
    ASSUME Streams, NEW d \in Dirs
    PROVE  /\ dir[d].bytes <= sent[d]
           /\ ~Unwritten(dir[d]) /\ wire[d] = <<>> => dir[d].bytes = sent[d]
<1> DEFINE s == dir[d]
<1>1. StreamOf(delivered[d], Kept(d), s, wire[d], sent[d])
  BY Zenon DEF Streams, Stream
<1>2. Len(s.buffer) \in Nat /\ Len(wire[d]) \in Nat /\ s.bytes \in Nat /\ s.write_pos \in Nat
  BY <1>1, StreamNumbers, Zenon
<1>3. /\ s.write_pos <= Len(s.buffer)
      /\ sent[d] = s.bytes - s.write_pos + Len(s.buffer) + Len(wire[d])
  BY <1>1, Zenon DEF StreamOf
<1>4. wire[d] = <<>> => Len(wire[d]) = 0
  BY RunEmpty, Zenon
<1> HIDE DEF s
<1>5. PICK y \in Nat, p \in Nat, l \in Nat, n \in Nat :
        y = s.bytes /\ p = s.write_pos /\ l = Len(s.buffer) /\ n = Len(wire[d])
  BY <1>2, Zenon
<1>6. p <= l => y <= y - p + l + n /\ (~(p < l) /\ n = 0 => y = y - p + l + n)
  OBVIOUS
<1> QED BY <1>3, <1>4, <1>5, <1>6, Zenon DEF s, Unwritten

WithinSent == \A d \in Dirs : dir[d].bytes <= sent[d]

(* No more is accepted than was sent. *)
LEMMA AcceptedWithinSent == Streams => WithinSent
  BY AcceptedOfSent, Zenon DEF WithinSent

(* A step of the pipe, in the words of the relay. *)
Delivers(d) ==
    /\ dir[d].shutdown_complete = FALSE
    /\ dir'[d].bytes > dir[d].bytes /\ dir'[d].bytes <= sent[d]
    /\ \A e \in Dirs \ {d} : dir'[e].bytes = dir[e].bytes
    /\ \A e \in Dirs : dir'[e].shutdown_complete = dir[e].shutdown_complete
    /\ UNCHANGED <<sent, fin, report>>

Passes(d) ==
    /\ fin[d] /\ dir[d].shutdown_complete = FALSE /\ dir'[d].shutdown_complete = TRUE
    /\ dir[d].bytes = sent[d]
    /\ \A e \in Dirs \ {d} : dir'[e].shutdown_complete = dir[e].shutdown_complete
    /\ \A e \in Dirs : dir'[e].bytes = dir[e].bytes
    /\ report' = IF dir[Opposite(d)].shutdown_complete
                 THEN [kind |-> "Closed", up |-> dir["up"].bytes, down |-> dir["down"].bytes]
                 ELSE report
    /\ UNCHANGED <<sent, fin>>

Idles ==
    /\ \A e \in Dirs : /\ dir'[e].bytes = dir[e].bytes
                       /\ dir'[e].shutdown_complete = dir[e].shutdown_complete
    /\ UNCHANGED <<sent, fin>>

Reports(kind) ==
    /\ Idles
    /\ kind = "TimedOut" => \E d \in Dirs : /\ dir[d].shutdown_complete
                                            /\ ~dir[Opposite(d)].shutdown_complete
    /\ report' = [kind |-> kind, up |-> dir["up"].bytes, down |-> dir["down"].bytes]

(* Steps so described are steps of the pipe. *)
LEMMA PipeSteps ==
    ASSUME Streams, Streams'
    PROVE  /\ Idles /\ report' = report => UNCHANGED Pipe!pipeVars
           /\ \A d \in Dirs : Delivers(d) => \E n \in 1..sent[d] : Pipe!Deliver(d, n)
           /\ \A d \in Dirs : Passes(d) => Pipe!PassEnd(d)
           /\ \A kind : Reports(kind) => Pipe!GiveUp(kind)
<1>1. /\ Accepted = [d \in Dirs |-> Prefix(dir[d].bytes)]
      /\ \A d \in Dirs : dir[d].bytes \in Nat /\ Len(Prefix(dir[d].bytes)) = dir[d].bytes
  BY AcceptedIs, Zenon DEF AcceptedInOrder
<1>2. Accepted' = [d \in Dirs |-> Prefix(dir'[d].bytes)] /\ \A d \in Dirs : dir'[d].bytes \in Nat
  <2>1. AcceptedInOrder'
    BY AcceptedIs, PTL
  <2> QED BY <2>1, Zenon DEF AcceptedInOrder, Prefix
<1>3. (\A e \in Dirs : dir'[e].bytes = dir[e].bytes) => Accepted' = Accepted
  BY <1>1, <1>2, Zenon
<1>4. (\A e \in Dirs : dir'[e].shutdown_complete = dir[e].shutdown_complete) => Passed' = Passed
  BY Zenon DEF Passed
<1>5. "up" \in Dirs /\ "down" \in Dirs
  BY DEF Dirs
<1>6. Len(Accepted["up"]) = dir["up"].bytes /\ Len(Accepted["down"]) = dir["down"].bytes
  BY <1>1, <1>5, Zenon
<1>7. Idles /\ report' = report => UNCHANGED Pipe!pipeVars
  <2>1. Idles => Accepted' = Accepted /\ Passed' = Passed /\ sent' = sent /\ fin' = fin
    BY <1>3, <1>4, Zenon DEF Idles
  <2> QED BY <2>1 DEF Pipe!pipeVars, Accepted, Passed
<1>8. ASSUME NEW d \in Dirs, Delivers(d)
      PROVE  \E n \in 1..sent[d] : Pipe!Deliver(d, n)
  <2> DEFINE n == dir'[d].bytes
  <2>1. n \in 1..sent[d] /\ n > Len(Accepted[d])
    <3>1. PICK m, b, t : /\ m = dir'[d].bytes /\ b = dir[d].bytes /\ t = sent[d]
                         /\ m \in Nat /\ b \in Nat /\ m > b /\ m <= t
      BY <1>8, <1>1, <1>2, Zenon DEF Delivers
    <3>2. m \in 1..t
      BY <3>1
    <3> QED BY <1>1, <3>1, <3>2, Zenon
  <2>2. Accepted' = [Accepted EXCEPT ![d] = Prefix(n)]
    BY <1>8, <1>1, <1>2, Zenon DEF Delivers
  <2>3. Passed' = Passed /\ sent' = sent /\ fin' = fin /\ report' = report
    BY <1>8, <1>4, Zenon DEF Delivers
  <2>4. Passed[d] = FALSE
    BY <1>8, Zenon DEF Delivers, Passed
  <2> HIDE DEF n
  <2>5. Pipe!Deliver(d, n)
    BY <2>1, <2>2, <2>3, <2>4 DEF Pipe!Deliver, Accepted, Passed, Prefix
  <2> QED BY <2>1, <2>5, Zenon
<1>9. ASSUME NEW d \in Dirs, Passes(d)
      PROVE  Pipe!PassEnd(d)
  <2>1. Accepted' = Accepted /\ sent' = sent /\ fin' = fin
    BY <1>9, <1>3, Zenon DEF Passes
  <2>2. fin[d] /\ Passed[d] = FALSE /\ Len(Accepted[d]) = sent[d]
    BY <1>9, <1>1, Zenon DEF Passes, Passed
  <2>3. Passed' = [Passed EXCEPT ![d] = TRUE]
    BY <1>9, Zenon DEF Passes, Passed
  <2>4. Opposite(d) \in Dirs /\ Opposite(d) = Pipe!Opposite(d)
    BY DEF Opposite, Dirs, Pipe!Opposite
  <2>5. report' = IF Passed[Opposite(d)]
                  THEN [kind |-> "Closed", up |-> Len(Accepted["up"]), down |-> Len(Accepted["down"])]
                  ELSE report
    BY <1>9, <1>6, <2>4, Zenon DEF Passes, Passed
  <2>6. report' = IF Passed[Opposite(d)] THEN Pipe!Ended("Closed") ELSE report
    BY <2>5, Zenon DEF Pipe!Ended, Accepted
  <2>7. /\ fin[d] /\ ~Passed[d] /\ Len(Accepted[d]) = sent[d]
        /\ Passed' = [Passed EXCEPT ![d] = TRUE]
        /\ report' = IF Passed[Pipe!Opposite(d)] THEN Pipe!Ended("Closed") ELSE report
        /\ sent' = sent /\ fin' = fin /\ Accepted' = Accepted
    BY <2>1, <2>2, <2>3, <2>4, <2>6, Zenon
  <2> QED BY <2>7, Zenon DEF Pipe!PassEnd, Accepted, Passed
<1>10. ASSUME NEW kind, Reports(kind)
       PROVE  Pipe!GiveUp(kind)
  <2>1. Accepted' = Accepted /\ Passed' = Passed /\ sent' = sent /\ fin' = fin
    BY <1>10, <1>3, <1>4, Zenon DEF Reports, Idles
  <2>2. report' = Pipe!Ended(kind)
    BY <1>10, <1>6, Zenon DEF Reports, Pipe!Ended, Accepted
  <2>3. \A d \in Dirs : Opposite(d) \in Dirs /\ Opposite(d) = Pipe!Opposite(d)
    BY DEF Opposite, Dirs, Pipe!Opposite
  <2>4. Dirs = Pipe!Dirs
    BY DEF Dirs, Pipe!Dirs
  <2>5. kind = "TimedOut" => \E d \in Pipe!Dirs : Passed[d] /\ ~Passed[Pipe!Opposite(d)]
    BY <1>10, <2>3, <2>4, Zenon DEF Reports, Passed
  <2> QED BY <2>1, <2>2, <2>5, Zenon DEF Pipe!GiveUp, Accepted, Passed
<1> QED BY <1>7, <1>8, <1>9, <1>10, Zenon

(* An iteration of poll_direction is a delivery, an end passed on, a       *)
(* failure, or nothing to the peers.                                       *)
LEMMA TurnRefines ==
    ASSUME Streams, Control, Streams', Polling, NEW d \in Dirs, d = Current, TurnEffect(d)
    PROVE  \/ Idles /\ report' = report
           \/ Delivers(d) \/ Passes(d) \/ Reports("Failed")
<1>0. /\ sent' = sent /\ fin' = fin /\ (\A e \in Dirs \ {d} : dir'[e] = dir[e])
  BY Zenon DEF TurnEffect, TurnFrame
<1>1. /\ first_closed # Source(d) /\ dir[d].shutdown_complete = FALSE /\ pc # "Done"
      /\ \A e \in Dirs : dir[e].shutdown_complete <=> first_closed = Source(e)
  BY CurrentOpen, Zenon DEF Control, Streams
<1>2. dir'[d].bytes = dir[d].bytes /\ dir'[d].shutdown_complete = FALSE => Idles
  BY <1>0, <1>1, Zenon DEF Idles
<1>3. CASE GoesOn(d)
  <2>1. /\ dir'[d].bytes >= dir[d].bytes /\ dir'[d].shutdown_complete = FALSE /\ report' = report
    BY <1>3, Zenon DEF GoesOn, Continue
  <2>2. WithinSent'
    BY AcceptedWithinSent, PTL
  <2>3. dir'[d].bytes <= sent[d]
    BY <1>0, <2>2, Zenon DEF WithinSent
  <2>4. dir[d].bytes \in Nat /\ dir'[d].bytes \in Nat
    <3>1. AcceptedInOrder /\ AcceptedInOrder'
      BY AcceptedIs, PTL
    <3> QED BY <3>1, Zenon DEF AcceptedInOrder
  <2>5. dir'[d].bytes = dir[d].bytes \/ dir'[d].bytes > dir[d].bytes
    BY <2>1, <2>4
  <2> QED BY <1>0, <1>1, <1>2, <2>1, <2>3, <2>5, Zenon DEF Delivers
<1>4. CASE Parks(d)
  BY <1>2, <1>4, Zenon DEF Parks, LeaveWaker, LeaveDirection
<1>5. CASE Fails(d)
  <2>1. "Failed" # "TimedOut"
    OBVIOUS
  <2> QED BY <1>2, <1>5, <2>1, Zenon DEF Fails, Reports, Finish
<1>6. CASE Completes(d)
  <2>1. /\ dir'[d].bytes = dir[d].bytes /\ dir'[d].shutdown_complete = TRUE
        /\ dir[d].eof /\ ~Unwritten(dir[d]) /\ CompleteDirection
    BY <1>6, Zenon DEF Completes
  <2>2. fin[d] /\ dir[d].bytes = sent[d]
    BY <2>1, AcceptedOfSent, Zenon DEF Streams, EndOf
  <2>3. report' = IF first_closed = "None" THEN report
                  ELSE [kind |-> "Closed", up |-> dir["up"].bytes, down |-> dir["down"].bytes]
    BY <2>1, Zenon DEF CompleteDirection, StartDrain, Finish
  <2>4. dir[Opposite(d)].shutdown_complete <=> first_closed # "None"
    <3>1. Opposite(d) \in Dirs
      BY DEF Opposite, Dirs
    <3>2. first_closed = Source(Opposite(d)) <=> first_closed # "None"
      BY <1>1 DEF Control, Source, Opposite, Dirs
    <3> QED BY <1>1, <3>1, <3>2, Zenon
  <2>5. report' = IF dir[Opposite(d)].shutdown_complete
                  THEN [kind |-> "Closed", up |-> dir["up"].bytes, down |-> dir["down"].bytes]
                  ELSE report
    BY <2>3, <2>4, Zenon
  <2> QED BY <1>0, <1>1, <2>1, <2>2, <2>5, Zenon DEF Passes
<1> QED BY <1>3, <1>4, <1>5, <1>6, Zenon DEF TurnEffect

(* The steps that move no byte end the relay or are nothing to the peers. *)
LEMMA QuietRefines ==
    ASSUME Streams, Control, Quiet
    PROVE  \/ Idles /\ report' = report
           \/ pc # "Done" /\ (Reports("TimedOut") \/ Reports("Dropped"))
<1>0. Idles
  BY QuietFrame, Zenon DEF Idles
<1>1. CASE StartPoll
  BY <1>0, <1>1, Zenon DEF StartPoll
<1>2. CASE BudgetSpent
  BY <1>0, <1>2, Zenon DEF BudgetSpent, LeaveDirection
<1>3. CASE PollDeadline
  <2>1. pc = "Deadline" /\ (report' = report \/ Finish("TimedOut"))
    BY <1>3, Zenon DEF PollDeadline
  <2>2. CASE Finish("TimedOut")
    <3>1. pc # "Done" /\ first_closed \in {"Client", "Server"}
      BY <2>1 DEF Control
    <3>2. PICK d \in Dirs : first_closed = Source(d) /\ first_closed # Source(Opposite(d))
                            /\ Opposite(d) \in Dirs
      BY <3>1 DEF Dirs, Source, Opposite
    <3>3. dir[d].shutdown_complete /\ ~dir[Opposite(d)].shutdown_complete
      BY <3>1, <3>2, Zenon DEF Control
    <3> QED BY <1>0, <2>2, <3>1, <3>3, Zenon DEF Reports, Finish
  <2> QED BY <1>0, <2>1, <2>2, Zenon
<1>4. CASE DropFuture
  <2>1. pc # "Done" /\ "Dropped" # "TimedOut"
    BY <1>4 DEF DropFuture
  <2> QED BY <1>0, <1>4, <2>1, Zenon DEF DropFuture, Finish, Reports
<1>5. CASE DeadlineElapses
  BY <1>0, <1>5, Zenon DEF DeadlineElapses
<1>6. CASE \E side \in Sides : Reset(side)
  BY <1>0, <1>6, Zenon DEF Reset
<1>7. CASE Returned
  BY <1>0, <1>7, Zenon DEF Returned, vars
<1> QED BY <1>1, <1>2, <1>3, <1>4, <1>5, <1>6, <1>7, Zenon DEF Quiet

(* What the peers do they do to the pipe. *)
LEMMA PeerRefines ==
    ASSUME NEW d \in Dirs, Send(d) \/ Close(d) \/ Consume(d)
    PROVE  \/ Idles /\ report' = report
           \/ Running /\ (Pipe!Write(d) \/ Pipe!CloseHalf(d))
<1>0. UNCHANGED <<delivered, pending, dir, report>>
  BY PeerFrame, Zenon
<1>1. CASE Send(d)
  BY <1>0, <1>1, Zenon DEF Send, Pipe!Write
<1>2. CASE Close(d)
  BY <1>0, <1>2, Zenon DEF Close, Pipe!CloseHalf
<1>3. CASE Consume(d)
  BY <1>0, <1>3, Zenon DEF Consume, Idles
<1> QED BY <1>1, <1>2, <1>3, Zenon

(* Every step of the relay is a step of the pipe, or nothing to it. *)
LEMMA StepRefines ==
    ASSUME Streams, Control, Streams', [Next]_vars
    PROVE  [Pipe!PipeNext]_(Pipe!pipeVars)
<1>0. /\ pc # "Done" => report = Pipe!Open
      /\ Running => report = Pipe!Open
  <2>1. pc # "Done" => report = Pipe!Open
    BY Zenon DEF Control, Pipe!Open
  <2>2. Running => pc # "Done"
    BY Zenon DEF Control, Running
  <2> QED BY <2>1, <2>2, Zenon
<1>1. Idles /\ report' = report => UNCHANGED Pipe!pipeVars
  BY PipeSteps, Zenon
<1>2. Dirs = Pipe!Dirs
  BY DEF Dirs, Pipe!Dirs
<1>3. CASE Turn
  <2>1. PICK d \in Dirs : Polling /\ d = Current /\ TurnEffect(d)
    BY <1>3, TurnHasEffect, Zenon DEF Streams
  <2>2. pc # "Done"
    BY <2>1 DEF Polling
  <2>3. CASE Delivers(d)
    <3>1. \E n \in 1..sent[d] : Pipe!Deliver(d, n)
      BY <2>3, PipeSteps, Zenon
    <3> QED BY <1>0, <1>2, <2>2, <3>1, Zenon DEF Pipe!PipeNext
  <2>4. CASE Passes(d)
    <3>1. Pipe!PassEnd(d)
      BY <2>4, PipeSteps, Zenon
    <3> QED BY <1>0, <1>2, <2>2, <3>1, Zenon DEF Pipe!PipeNext
  <2>5. CASE Reports("Failed")
    <3>1. Pipe!GiveUp("Failed")
      BY <2>5, PipeSteps, Zenon
    <3> QED BY <1>0, <2>2, <3>1, Zenon DEF Pipe!PipeNext
  <2> QED BY <1>1, <2>1, <2>3, <2>4, <2>5, TurnRefines, Zenon
<1>4. CASE Quiet
  <2>1. ASSUME NEW kind \in {"TimedOut", "Dropped"}, pc # "Done", Reports(kind)
        PROVE  Pipe!PipeNext
    <3>1. Pipe!GiveUp(kind) /\ kind \in {"TimedOut", "Failed", "Dropped"}
      BY <2>1, PipeSteps, Zenon
    <3> QED BY <1>0, <2>1, <3>1, Zenon DEF Pipe!PipeNext
  <2> QED BY <1>1, <1>4, <2>1, QuietRefines, Zenon
<1>5. CASE UNCHANGED vars
  <2>1. UNCHANGED <<dir, sent, fin, report>>
    BY <1>5, Zenon DEF vars
  <2> QED BY <1>1, <2>1, Zenon DEF Idles
<1>6. ASSUME NEW d \in Dirs, Send(d) \/ Close(d) \/ Consume(d)
      PROVE  [Pipe!PipeNext]_(Pipe!pipeVars)
  <2>1. CASE Running /\ (Pipe!Write(d) \/ Pipe!CloseHalf(d))
    BY <1>0, <1>2, <2>1, Zenon DEF Pipe!PipeNext
  <2> QED BY <1>1, <1>6, <2>1, PeerRefines, Zenon
<1> QED BY <1>3, <1>4, <1>5, <1>6, StepKinds, Zenon

(* The relay starts as the pipe does. *)
LEMMA InitRefines == Init => Pipe!PipeInit
<1> SUFFICES ASSUME Init PROVE Pipe!PipeInit
  OBVIOUS
<1>1. /\ sent = [d \in Dirs |-> 0] /\ fin = [d \in Dirs |-> FALSE]
      /\ delivered = [d \in Dirs |-> <<>>] /\ pending = <<>>
      /\ dir = [d \in Dirs |-> FreshDirection]
      /\ report = [kind |-> "Open", up |-> 0, down |-> 0]
  BY Zenon DEF Init
<1>2. Dirs = Pipe!Dirs
  BY DEF Dirs, Pipe!Dirs
<1>3. [delivered EXCEPT !["up"] = @ \o pending] = [d \in Dirs |-> <<>>]
  <2>1. <<>> \o <<>> = <<>>
    OBVIOUS
  <2> QED BY <1>1, <2>1, Zenon
<1>4. FreshDirection.shutdown_complete = FALSE
  BY DEF FreshDirection
<1>5. [d \in Dirs |-> dir[d].shutdown_complete] = [d \in Dirs |-> FALSE]
  BY <1>1, <1>4, Zenon
<1> QED BY <1>1, <1>2, <1>3, <1>5, Zenon DEF Pipe!PipeInit, Pipe!Open

(* The relay (RelayFuture::poll with its two directions) implements the    *)
(* two half-closing pipes: under every interleaving of partial reads and   *)
(* writes, wake-ups, resets, the drain deadline and a drop, each stream    *)
(* accepts its bytes in order and once, the shutdown comes behind the last *)
(* byte, and the reported termination and byte counts are what happened.   *)
THEOREM RelayImplementsPipe == Spec => ImplementsPipe
<1>1. (Streams /\ Control) /\ (Streams /\ Control)' /\ [Next]_vars => [Pipe!PipeNext]_(Pipe!pipeVars)
  BY StepRefines, Zenon
<1> QED BY <1>1, InitRefines, RelayInductive, PTL DEF Spec, ImplementsPipe, Pipe!PipeSpec
-----------------------------------------------------------------------------
(* A direction that waits goes on waiting while nothing of it changes. *)
LEMMA BlockedKept ==
    ASSUME NEW e, Blocked(e), dir'[e] = dir[e], wire'[e] = wire[e], unread'[e] = unread[e],
           fin'[e] = fin[e], reset' = reset, upstream' = upstream, Kept(e)' = Kept(e),
           waits \subseteq waits'
    PROVE  Blocked(e)'
<1>1. Room(e)' = Room(e)
  BY Zenon DEF Room
<1>2. Buffers(e)' = Buffers(e) /\ (Buffers(e) => pending' = pending)
  BY Zenon DEF Buffers, Kept
<1> QED BY <1>1, <1>2, Zenon DEF Blocked

(* The wakers of a poll that has ended or moved on. *)
LEMMA NotLeft ==
    ASSUME pc' \in {"Done", "Deadline", "Up", "Rest"}
    PROVE  /\ \A e \in Dirs : ~Left(e)'
           /\ pc' \in {"Done", "Deadline", "Up"} => Timer'
<1>1. \A e \in Dirs : ~Left(e)'
  BY DEF Left
<1>2. pc' \in {"Done", "Deadline", "Up"} => Timer'
  BY DEF Timer
<1> QED BY <1>1, <1>2, Zenon

(* A poll that returned or starts over has no iterations behind it. *)
LEMMA NoSteps ==
    ASSUME steps' = 0, made_progress' = FALSE
    PROVE  steps' \in Nat /\ made_progress' \in BOOLEAN /\ Progress'
  BY Zenon DEF Progress

(* One iteration leaves no direction asleep that could go on. *)
LEMMA TurnWakes ==
    ASSUME Streams, Control, WakeInv, Polling, NEW d \in Dirs, d = Current, TurnEffect(d)
    PROVE  WakeInv'
<1>0. /\ sent' = sent /\ fin' = fin /\ reset' = reset /\ upstream' = upstream
      /\ \A e \in Dirs \ {d} : /\ wire'[e] = wire[e] /\ unread'[e] = unread[e]
                               /\ dir'[e] = dir[e] /\ Kept(e)' = Kept(e)
  BY Zenon DEF TurnEffect, TurnFrame
<1>1. first_closed # Source(d)
  BY CurrentOpen, Zenon DEF Streams
<1>2. ASSUME NEW e \in Dirs \ {d}, Blocked(e), waits \subseteq waits'
      PROVE  Blocked(e)'
  BY <1>0, <1>2, BlockedKept, Zenon
<1>3. \/ pc = "Up" /\ d = "up" /\ first_closed = "None"
      \/ pc = "Down" /\ d = "down" /\ first_closed = "None"
      \/ pc = "Rest" /\ \A e \in Dirs \ {d} : first_closed = Source(e)
  BY <1>1 DEF Control, Polling, Current, Dirs, Source
<1>4. ASSUME pc' \in {"Done", "Deadline"}, steps' = 0, made_progress' = FALSE
      PROVE  WakeInv'
  <2>1. (\A e \in Dirs : ~Left(e)') /\ Timer'
    BY <1>4, NotLeft, Zenon
  <2> QED BY <1>4, <2>1, NoSteps, Zenon DEF WakeInv, Asleep
<1>5. CASE GoesOn(d)
  <2>1. /\ UNCHANGED <<woken, waits, pc, first_closed, deadline>>
        /\ steps' = steps + 1
        /\ \/ made_progress' = TRUE
           \/ /\ made_progress' = made_progress /\ ~dir[d].eof
              /\ dir'[d].eof /\ ~Unwritten(dir'[d])
    <3>1. CASE Continue(TRUE)
      BY <1>5, <3>1, Zenon DEF GoesOn, Continue
    <3>2. CASE Continue(FALSE) /\ ~dir[d].eof /\ dir'[d].eof /\ ~Unwritten(dir'[d])
      <4>1. made_progress \in BOOLEAN
        BY Zenon DEF WakeInv
      <4> QED BY <1>5, <3>2, <4>1, Zenon DEF GoesOn, Continue
    <3> QED BY <1>5, <3>1, <3>2, Zenon DEF GoesOn
  <2>2. Current' = d /\ Polling'
    BY <2>1, Zenon DEF Current, Polling
  <2>3. steps' \in Nat /\ (steps = 0 => steps' = 1)
    BY <2>1 DEF WakeInv
  <2>8. made_progress' \in BOOLEAN
    BY <2>1, Zenon DEF WakeInv
  <2>4. Progress'
    BY <2>1, <2>2, <2>3, Zenon DEF Progress, WakeInv
  <2>5. Timer'
    BY <2>1, Zenon DEF Timer, WakeInv
  <2>6. \A e \in Dirs : Left(e)' => e # d /\ Left(e)
    BY <1>3, <2>1 DEF Left
  <2>7. Asleep'
    BY <1>2, <2>1, <2>6, Zenon DEF Asleep, WakeInv
  <2> QED BY <2>3, <2>4, <2>5, <2>7, <2>8, Zenon DEF WakeInv
<1>6. CASE Parks(d)
  <2>1. /\ waits \subseteq waits' /\ UNCHANGED <<woken, first_closed, deadline>> /\ Blocked(d)'
        /\ pc' = IF pc = "Up" THEN "Down" ELSE "Idle"
        /\ steps' = 0 /\ made_progress' = FALSE
    BY <1>6, Zenon DEF Parks, LeaveWaker, LeaveDirection
  <2>2. \A e \in Dirs \ {d} : Left(e)' /\ first_closed # Source(e) => Left(e)
    BY <1>3, <2>1 DEF Left, Dirs
  <2>3. Asleep'
    BY <1>2, <2>1, <2>2, Zenon DEF Asleep, WakeInv
  <2>4. pc = "Rest" \/ deadline = "None"
    BY <1>3, Zenon DEF Control
  <2>5. Timer'
    <3>1. CASE pc = "Rest"
      BY <2>1, <3>1, Zenon DEF Timer, WakeInv
    <3>2. CASE deadline = "None"
      BY <2>1, <3>2 DEF Timer
    <3> QED BY <2>4, <3>1, <3>2, Zenon
  <2> QED BY <2>1, <2>3, <2>5, NoSteps, Zenon DEF WakeInv
<1>7. CASE Fails(d)
  BY <1>4, <1>7, Zenon DEF Fails, Finish
<1>8. CASE Completes(d)
  BY <1>4, <1>8, Zenon DEF Completes, CompleteDirection, StartDrain, Finish
<1> QED BY <1>5, <1>6, <1>7, <1>8, Zenon DEF TurnEffect

(* An event that wakes the task, or has no waker. *)
LEMMA WakeOrNothing ==
    ASSUME NEW events, Wake(events)
    PROVE  \/ woken' = TRUE
           \/ woken' = FALSE /\ waits' = waits /\ ~woken /\ \A event \in events : event \notin waits
<1>1. CASE woken \/ events \cap waits # {}
  BY <1>1, Zenon DEF Wake
<1>2. CASE ~woken /\ events \cap waits = {}
  <2>1. woken' = FALSE
    BY <1>2, Zenon DEF Wake
  <2>2. waits' = waits
    BY <1>2 DEF Wake
  <2>3. \A event \in events : event \notin waits
    BY <1>2, Zenon
  <2> QED BY <1>2, <2>1, <2>2, <2>3, Zenon
<1> QED BY <1>1, <1>2, Zenon

(* What changes for direction e is among the events. *)
Announced(e, events) ==
    /\ \/ wire'[e] = wire[e] /\ fin'[e] = fin[e] /\ (Source(e) \in reset' => Source(e) \in reset)
       \/ <<"read", e>> \in events
    /\ \/ unread'[e] = unread[e] /\ (Sink(e) \in reset' => Sink(e) \in reset)
       \/ <<"write", e>> \in events

(* What happens outside the task leaves it awake, or changes nothing that  *)
(* a direction waits for.                                                  *)
LEMMA OutsideWakes ==
    ASSUME WakeInv, UNCHANGED <<dir, upstream, pending, first_closed, pc, steps, made_progress>>,
           NEW events, Wake(events),
           deadline' # deadline => /\ deadline = "Armed" /\ deadline' = "Elapsed"
                                   /\ <<"timer", "drain">> \in events,
           \A e \in Dirs : Announced(e, events)
    PROVE  WakeInv'
<1>1. steps' \in Nat /\ made_progress' \in BOOLEAN /\ Progress'
  BY Zenon DEF WakeInv, Progress, Polling, Current
<1>2. CASE woken' = TRUE
  BY <1>1, <1>2, Zenon DEF WakeInv, Timer, Asleep
<1>3. CASE woken' = FALSE /\ waits' = waits /\ ~woken /\ \A event \in events : event \notin waits
  <2>1. Timer'
    BY <1>3, Zenon DEF WakeInv, Timer
  <2>2. ASSUME NEW e \in Dirs, Blocked(e) PROVE Blocked(e)'
    <3>1. Buffers(e)' = Buffers(e)
      BY Zenon DEF Buffers
    <3>2. unread'[e] = unread[e] => Room(e)' = Room(e)
      BY Zenon DEF Room
    <3>3. CASE Unwritten(dir[e]) \/ dir[e].eof
      <4>1. unread'[e] = unread[e] /\ (Sink(e) \in reset' => Sink(e) \in reset)
        BY <1>3, <2>2, <3>3, Zenon DEF Blocked, Announced
      <4> QED BY <1>3, <2>2, <3>1, <3>2, <3>3, <4>1, Zenon DEF Blocked
    <3>4. CASE ~(Unwritten(dir[e]) \/ dir[e].eof)
      <4>1. wire'[e] = wire[e] /\ fin'[e] = fin[e] /\ (Source(e) \in reset' => Source(e) \in reset)
        BY <1>3, <2>2, <3>4, Zenon DEF Blocked, Announced
      <4> QED BY <1>3, <2>2, <3>4, <4>1, Zenon DEF Blocked
    <3> QED BY <3>3, <3>4, Zenon
  <2>3. \A e \in Dirs : Left(e)' = Left(e)
    BY Zenon DEF Left
  <2>4. Asleep'
    BY <1>3, <2>2, <2>3, Zenon DEF WakeInv, Asleep
  <2> QED BY <1>1, <2>1, <2>4, Zenon DEF WakeInv
<1> QED BY <1>2, <1>3, WakeOrNothing, Zenon

(* The wakers are right after every step that is no iteration. *)
LEMMA QuietWakes ==
    ASSUME Streams, Control, WakeInv, Quiet
    PROVE  WakeInv'
<1>0. UNCHANGED <<sent, fin, wire, unread, upstream, pending, dir>>
  BY QuietFrame, Zenon
<1>1. ASSUME pc' \in {"Done", "Deadline", "Up"}, steps' = 0, made_progress' = FALSE
      PROVE  WakeInv'
  <2>1. (\A e \in Dirs : ~Left(e)') /\ Timer'
    BY <1>1, NotLeft, Zenon
  <2> QED BY <1>1, <2>1, NoSteps, Zenon DEF WakeInv, Asleep
<1>2. pc \in {"Idle", "Deadline"} => steps = 0 /\ made_progress = FALSE
  BY DEF WakeInv, Progress, Polling
<1>3. CASE StartPoll
  <2>1. pc = "Idle" /\ pc' \in {"Up", "Deadline"} /\ steps' = steps /\ made_progress' = made_progress
    BY <1>3, Zenon DEF StartPoll
  <2> QED BY <1>1, <1>2, <2>1, Zenon
<1>4. CASE BudgetSpent
  <2>1. /\ Polling /\ steps = Budget /\ woken' = (woken \/ made_progress)
        /\ steps' = 0 /\ made_progress' = FALSE
    BY <1>4, Zenon DEF BudgetSpent, LeaveDirection
  <2>2. steps # 0 /\ steps # 1
    BY <2>1, RelayAssumption
  <2>3. woken'
    BY <2>1, <2>2, Zenon DEF WakeInv, Progress
  <2> QED BY <2>1, <2>3, NoSteps, Zenon DEF WakeInv, Timer, Asleep
<1>5. CASE PollDeadline
  <2>1. pc = "Deadline"
    BY <1>5, Zenon DEF PollDeadline
  <2>2. CASE Finish("TimedOut")
    BY <1>1, <2>2, Zenon DEF Finish
  <2>3. CASE /\ deadline # "Elapsed" /\ pc' = "Rest"
             /\ waits' = IF deadline = "Armed" THEN waits \cup {<<"timer", "drain">>} ELSE waits
             /\ UNCHANGED <<steps, made_progress, first_closed, deadline, report>>
    <3>1. Timer'
      BY <2>3, Zenon DEF Timer
    <3>2. \A e \in Dirs : ~Left(e)'
      BY <2>3, NotLeft, Zenon
    <3> QED BY <1>2, <2>1, <2>3, <3>1, <3>2, NoSteps, Zenon DEF WakeInv, Asleep
  <2> QED BY <1>5, <2>2, <2>3, Zenon DEF PollDeadline
<1>6. CASE DropFuture
  BY <1>1, <1>6, Zenon DEF DropFuture, Finish
<1>7. CASE DeadlineElapses
  <2>1. /\ deadline = "Armed" /\ deadline' = "Elapsed" /\ Wake({<<"timer", "drain">>})
        /\ UNCHANGED <<reset, first_closed, pc, steps, made_progress>>
    BY <1>7, Zenon DEF DeadlineElapses, pollVars
  <2>2. \A e \in Dirs : Announced(e, {<<"timer", "drain">>})
    BY <1>0, <2>1, Zenon DEF Announced
  <2> QED BY <1>0, <2>1, <2>2, OutsideWakes, Zenon
<1>8. ASSUME NEW side \in Sides, Reset(side) PROVE WakeInv'
  <2> DEFINE events == {<<"read", FedBy(side)>>, <<"write", Opposite(FedBy(side))>>}
  <2>1. /\ reset' = reset \cup {side} /\ Wake(events)
        /\ UNCHANGED <<first_closed, deadline, pc, steps, made_progress>>
    BY <1>8, Zenon DEF Reset, pollVars
  <2>2. ASSUME NEW e \in Dirs
        PROVE  /\ Source(e) = side => <<"read", e>> \in events
               /\ Sink(e) = side => <<"write", e>> \in events
    BY DEF Dirs, Sides, Source, Sink, FedBy, Opposite
  <2> HIDE DEF events
  <2>3. \A e \in Dirs : Announced(e, events)
    BY <1>0, <2>1, <2>2, Zenon DEF Announced
  <2>4. deadline' = deadline /\ UNCHANGED <<dir, upstream, pending, first_closed, pc, steps, made_progress>>
    BY <1>0, <2>1, Zenon
  <2> QED BY <2>1, <2>3, <2>4, OutsideWakes, Zenon
<1>9. CASE Returned
  BY <1>9, Zenon DEF Returned, vars, WakeInv, Progress, Polling, Current, Timer, Asleep, Left, Blocked,
           Room, Buffers, httpOnlyVars
<1> QED BY <1>3, <1>4, <1>5, <1>6, <1>7, <1>8, <1>9, Zenon DEF Quiet

(* The peers wake the relay when they do what it waits for. *)
LEMMA PeerWakes ==
    ASSUME Streams, WakeInv, NEW d \in Dirs, Send(d) \/ Close(d) \/ Consume(d)
    PROVE  WakeInv'
<1>0. UNCHANGED <<upstream, pending, dir, reset, first_closed, deadline, pc, steps, made_progress>>
  BY PeerFrame, Zenon
<1>1. CASE Send(d)
  <2>1. /\ Wake({<<"read", d>>}) /\ fin' = fin /\ unread' = unread
        /\ \A e \in Dirs \ {d} : wire'[e] = wire[e]
    BY <1>1, Zenon DEF Send, Streams, Shape
  <2>2. \A e \in Dirs : Announced(e, {<<"read", d>>})
    BY <1>0, <2>1, Zenon DEF Announced
  <2> QED BY <1>0, <2>1, <2>2, OutsideWakes, Zenon
<1>2. CASE Close(d)
  <2>1. /\ Wake({<<"read", d>>}) /\ wire' = wire /\ unread' = unread
        /\ \A e \in Dirs \ {d} : fin'[e] = fin[e]
    BY <1>2, Zenon DEF Close, Streams, Shape
  <2>2. \A e \in Dirs : Announced(e, {<<"read", d>>})
    BY <1>0, <2>1, Zenon DEF Announced
  <2> QED BY <1>0, <2>1, <2>2, OutsideWakes, Zenon
<1>3. CASE Consume(d)
  <2>1. /\ Wake({<<"write", d>>}) /\ wire' = wire /\ fin' = fin
        /\ \A e \in Dirs \ {d} : unread'[e] = unread[e]
    BY <1>3, Zenon DEF Consume, Streams, Shape
  <2>2. \A e \in Dirs : Announced(e, {<<"write", d>>})
    BY <1>0, <2>1, Zenon DEF Announced
  <2> QED BY <1>0, <2>1, <2>2, OutsideWakes, Zenon
<1> QED BY <1>1, <1>2, <1>3, Zenon

(* The relay starts awake. *)
LEMMA InitWakes == Init => WakeInv
<1>1. Init => /\ steps = 0 /\ made_progress = FALSE /\ woken = TRUE /\ pc = "Idle"
  BY Zenon DEF Init
<1>2. 0 \in Nat
  OBVIOUS
<1> QED BY <1>1, <1>2, Zenon DEF WakeInv, Progress, Timer, Asleep

(* A waiting direction has nothing to do. *)
LEMMA BlockedNotReady ==
    ASSUME NEW d \in Dirs, Blocked(d)
    PROVE  ~Ready(d)
<1>1. ~(0 > 0)
  OBVIOUS
<1> QED BY <1>1, Zenon DEF Blocked, Ready

(* No wake-up is lost (the wakers left by poll_read, poll_write and        *)
(* poll_shutdown, the wake_by_ref of poll_direction and the drain timer):  *)
(* however the peers' actions fall between the iterations of a poll, a     *)
(* relay that sleeps and was not woken has nothing it could do.            *)
THEOREM RelayNoLostWakeup == Spec => []NoLostWakeup
<1>1. Streams /\ Control /\ WakeInv /\ [Next]_vars => WakeInv'
  <2> SUFFICES ASSUME Streams, Control, WakeInv, [Next]_vars PROVE WakeInv'
    OBVIOUS
  <2>1. CASE Turn
    BY <2>1, TurnHasEffect, TurnWakes, Zenon DEF Streams
  <2>2. CASE Quiet
    BY <2>2, QuietWakes, Zenon
  <2>3. CASE UNCHANGED vars
    BY <2>3, Zenon DEF vars, WakeInv, Progress, Polling, Current, Timer, Asleep, Left, Blocked,
             Room, Buffers, httpOnlyVars
  <2>4. CASE \E d \in Dirs : Send(d) \/ Close(d) \/ Consume(d)
    BY <2>4, PeerWakes, Zenon
  <2> QED BY <2>1, <2>2, <2>3, <2>4, StepKinds, Zenon
<1>2. WakeInv => NoLostWakeup
  <2> SUFFICES ASSUME WakeInv, pc = "Idle", ~woken
               PROVE  /\ deadline # "Elapsed"
                      /\ \A d \in Dirs : first_closed # Source(d) => ~Ready(d)
    BY Zenon DEF NoLostWakeup
  <2>1. deadline # "Elapsed"
    BY Zenon DEF WakeInv, Timer
  <2>2. \A d \in Dirs : first_closed # Source(d) => Blocked(d)
    BY Zenon DEF WakeInv, Asleep, Left
  <2> QED BY <2>1, <2>2, BlockedNotReady, Zenon
<1> QED BY <1>1, <1>2, InitWakes, RelayInductive, PTL DEF Spec
=============================================================================
