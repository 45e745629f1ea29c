------------------------- MODULE TcpConnectionProofs -------------------------
(***************************************************************************)
(* Between two tcp_connection_automata no byte is lost, repeated or        *)
(* misplaced, whatever the sizes of the buffers and of the kernel's, and   *)
(* however writes are split: StreamIntact for all constants.               *)
(*                                                                         *)
(* The argument.  What is in each place is a piece of the stream, told by  *)
(* where it begins and how long it is; the pieces follow each other.       *)
(***************************************************************************)
EXTENDS TcpConnection, SequenceTheorems, TLAPS

Sending(c) == conn[c].sendState \in {"SCHEDULE_WRITE_READY", "WRITE_READY_WAIT"}
Holding(c) == conn[c].receiveState = "RECEIVE_READY"

\* How many bytes c has still to write, and holds for its user.
Left(c) == IF Sending(c) THEN Len(conn[c].sendBuffer) - conn[c].bytesWritten ELSE 0
Held(c) == IF Holding(c) THEN Len(conn[c].receiveBuffer) ELSE 0

\* The types that matter to the stream.
Members == [alive : BOOLEAN, fd : BOOLEAN, errno : BOOLEAN,
            connectedReported : BOOLEAN, errorReported : BOOLEAN,
            sendState : SendStates, sendBuffer : Seq(Nat), bytesWritten : Nat,
            receiveState : ReceiveStates, receiveBuffer : Seq(Nat)]

StreamTypes ==
    /\ conn \in [Ends -> Members]
    /\ pipe \in [Ends -> Seq(Nat)]
    /\ taken \in [Ends -> Nat]
    /\ got \in [Ends -> Nat]

\* The buffer c is sending is the last piece it took, and not all of it was written.
SendsLast(c) ==
    Sending(c) =>
        /\ Len(conn[c].sendBuffer) <= taken[c]
        /\ conn[c].sendBuffer = Bytes(taken[c] - Len(conn[c].sendBuffer), Len(conn[c].sendBuffer))
        /\ conn[c].bytesWritten <= Len(conn[c].sendBuffer)

\* What c holds comes after what it gave to its user, and the pipe's bytes after that.
HoldsNext(c) ==
    /\ Holding(c) => conn[c].receiveBuffer = Bytes(got[c], Len(conn[c].receiveBuffer))
    /\ pipe[c] = Bytes(got[c] + Held(c), Len(pipe[c]))

\* Nothing is missing in between.
AddsUp(c) ==
    conn[c].alive => got[c] + Held(c) + Len(pipe[c]) + Left(Peer(c)) = taken[Peer(c)]

IInv == StreamTypes /\ \A c \in Ends : SendsLast(c) /\ HoldsNext(c) /\ AddsUp(c)
-----------------------------------------------------------------------------
\* Pieces of a stream.
LEMMA BytesType ==
    ASSUME NEW n \in Nat, NEW k \in Nat
    PROVE  Bytes(n, k) \in Seq(Nat) /\ Len(Bytes(n, k)) = k
BY DEF Bytes

LEMMA BytesNone ==
    ASSUME NEW n \in Nat
    PROVE  Bytes(n, 0) = <<>>
BY BytesType, EmptySeq

LEMMA BytesFollow ==
    ASSUME NEW n \in Nat, NEW k \in Nat, NEW m \in Nat
    PROVE  Bytes(n, k) \o Bytes(n + k, m) = Bytes(n, k + m)
<1>1. n + k \in Nat /\ k + m \in Nat
  OBVIOUS
<1>2. Bytes(n, k) \in Seq(Nat) /\ Len(Bytes(n, k)) = k
  BY BytesType
<1>3. Bytes(n + k, m) \in Seq(Nat) /\ Len(Bytes(n + k, m)) = m
  BY <1>1, BytesType
<1>4. Bytes(n, k + m) \in Seq(Nat) /\ Len(Bytes(n, k + m)) = k + m
  BY <1>1, BytesType
<1> DEFINE both == Bytes(n, k) \o Bytes(n + k, m)
<1>5. both \in Seq(Nat) /\ Len(both) = k + m
  BY <1>2, <1>3, ConcatProperties
<1>6. ASSUME NEW i \in 1..(k + m)
      PROVE  both[i] = Bytes(n, k + m)[i]
  <2>1. both[i] = IF i <= k THEN Bytes(n, k)[i] ELSE Bytes(n + k, m)[i - k]
    BY <1>2, <1>3, ConcatProperties
  <2>2. CASE i <= k
    BY <2>1, <2>2 DEF Bytes
  <2>3. CASE i > k
    BY <2>1, <2>3 DEF Bytes
  <2>4. i <= k \/ i > k
    OBVIOUS
  <2> QED BY <2>2, <2>3, <2>4
<1> HIDE DEF both
<1>7. both = Bytes(n, k + m)
  BY <1>4, <1>5, <1>6, SeqEqual
<1> QED BY <1>7 DEF both

LEMMA BytesEnd ==
    ASSUME NEW n \in Nat, NEW k \in Nat, NEW w \in 0..k
    PROVE  SubSeq(Bytes(n, k), w + 1, k) = Bytes(n + w, k - w)
<1>1. Bytes(n, k) \in Seq(Nat) /\ Len(Bytes(n, k)) = k
  BY BytesType
<1>2. n + w \in Nat /\ k - w \in Nat
  OBVIOUS
<1>3. Bytes(n + w, k - w) \in Seq(Nat) /\ Len(Bytes(n + w, k - w)) = k - w
  BY <1>2, BytesType
<1> DEFINE end == SubSeq(Bytes(n, k), w + 1, k)
<1>4. end \in Seq(Nat) /\ Len(end) = k - w /\ \A i \in 1..(k - w) : end[i] = Bytes(n, k)[w + i]
  BY <1>1, SubSeqProperties
<1>5. \A i \in 1..(k - w) : Bytes(n, k)[w + i] = Bytes(n + w, k - w)[i]
  BY DEF Bytes
<1> HIDE DEF end
<1>6. end = Bytes(n + w, k - w)
  BY <1>3, <1>4, <1>5, SeqEqual
<1> QED BY <1>6 DEF end

LEMMA BytesBegin ==
    ASSUME NEW n \in Nat, NEW k \in Nat, NEW m \in 0..k
    PROVE  SubSeq(Bytes(n, k), 1, m) = Bytes(n, m)
<1>1. Bytes(n, k) \in Seq(Nat) /\ Len(Bytes(n, k)) = k
  BY BytesType
<1>2. Bytes(n, m) \in Seq(Nat) /\ Len(Bytes(n, m)) = m
  BY BytesType
<1> DEFINE begin == SubSeq(Bytes(n, k), 1, m)
<1>3. begin \in Seq(Nat) /\ Len(begin) = m /\ \A i \in 1..m : begin[i] = Bytes(n, k)[i]
  BY <1>1, SubSeqProperties
<1>4. \A i \in 1..m : Bytes(n, k)[i] = Bytes(n, m)[i]
  BY DEF Bytes
<1> HIDE DEF begin
<1>5. begin = Bytes(n, m)
  BY <1>2, <1>3, <1>4, SeqEqual
<1> QED BY <1>5 DEF begin

\* There are two ends.
LEMMA TwoEnds ==
    ASSUME NEW c \in Ends
    PROVE  Peer(c) \in Ends /\ Peer(c) # c /\ Peer(Peer(c)) = c /\ Ends = {c, Peer(c)}
<1>1. \A d \in Ends : Peer(d) \in Ends /\ Peer(d) # d
  BY ConnectionAssumption DEF Peer
<1>2. PICK p \in Ends : Ends = {c, p} /\ p # c
  BY ConnectionAssumption
<1> QED BY <1>1, <1>2
-----------------------------------------------------------------------------
\* The members after the three handlers that change several of them.
Send(r, b, w, s) == [r EXCEPT !.sendBuffer = b, !.bytesWritten = w, !.sendState = s]
Wrote(r, w, s) == [r EXCEPT !.bytesWritten = w, !.sendState = s]
Hold(r, b, s) == [r EXCEPT !.receiveBuffer = b, !.receiveState = s]

LEMMA MembersSend ==
    ASSUME NEW r \in Members, NEW b \in Seq(Nat), NEW w \in Nat, NEW s \in SendStates
    PROVE  /\ Send(r, b, w, s) \in Members
           /\ Send(r, b, w, s).sendBuffer = b
           /\ Send(r, b, w, s).bytesWritten = w
           /\ Send(r, b, w, s).sendState = s
           /\ Send(r, b, w, s).receiveState = r.receiveState
           /\ Send(r, b, w, s).receiveBuffer = r.receiveBuffer
           /\ Send(r, b, w, s).alive = r.alive
BY DEF Members, Send

LEMMA MembersWrite ==
    ASSUME NEW r \in Members, NEW w \in Nat, NEW s \in SendStates
    PROVE  /\ Wrote(r, w, s) \in Members
           /\ Wrote(r, w, s).sendBuffer = r.sendBuffer
           /\ Wrote(r, w, s).bytesWritten = w
           /\ Wrote(r, w, s).sendState = s
           /\ Wrote(r, w, s).receiveState = r.receiveState
           /\ Wrote(r, w, s).receiveBuffer = r.receiveBuffer
           /\ Wrote(r, w, s).alive = r.alive
BY DEF Members, Wrote

LEMMA MembersRead ==
    ASSUME NEW r \in Members, NEW b \in Seq(Nat), NEW s \in ReceiveStates
    PROVE  /\ Hold(r, b, s) \in Members
           /\ Hold(r, b, s).sendBuffer = r.sendBuffer
           /\ Hold(r, b, s).bytesWritten = r.bytesWritten
           /\ Hold(r, b, s).sendState = r.sendState
           /\ Hold(r, b, s).receiveState = s
           /\ Hold(r, b, s).receiveBuffer = b
           /\ Hold(r, b, s).alive = r.alive
BY DEF Members, Hold

\* What a handler leaves of the other end.
LEMMA HandlerMeans ==
    ASSUME StreamTypes, NEW c \in Ends, NEW queue, NEW r \in Members, Handler(c, queue, r)
    PROVE  /\ conn' \in [Ends -> Members]
           /\ conn'[c] = r
           /\ conn'[Peer(c)] = conn[Peer(c)]
BY TwoEnds DEF Handler, StreamTypes

\* A member nobody else touches.
Quiet(r, q) ==
    /\ q \in Members
    /\ q.sendState \in {"SCHEDULE_WRITE_READY", "WRITE_READY_WAIT"}
         <=> r.sendState \in {"SCHEDULE_WRITE_READY", "WRITE_READY_WAIT"}
    /\ q.sendBuffer = r.sendBuffer /\ q.bytesWritten = r.bytesWritten
    /\ q.receiveState = "RECEIVE_READY" <=> r.receiveState = "RECEIVE_READY"
    /\ q.receiveBuffer = r.receiveBuffer
    /\ q.alive => r.alive

\* A step that moves no byte.
MovesNoByte ==
    /\ conn' \in [Ends -> Members] /\ UNCHANGED <<pipe, taken, got>>
    /\ \A d \in Ends : Quiet(conn[d], conn'[d])

LEMMA QuietMeans ==
    ASSUME MovesNoByte, NEW d \in Ends
    PROVE  (Left(d)' = Left(d) /\ Held(d)' = Held(d)) /\ (Sending(d)' <=> Sending(d))
              /\ (Holding(d)' <=> Holding(d))
BY DEF MovesNoByte, Quiet, Left, Held, Sending, Holding

\* It preserves the invariant.
LEMMA QuietKeeps ==
    ASSUME IInv, MovesNoByte
    PROVE  IInv'
<1>0. /\ conn' \in [Ends -> Members] /\ UNCHANGED <<pipe, taken, got>>
      /\ \A d \in Ends : Quiet(conn[d], conn'[d])
  BY DEF MovesNoByte
<1>1. StreamTypes'
  BY <1>0 DEF IInv, StreamTypes
<1>2. ASSUME NEW d \in Ends
      PROVE  (Left(d)' = Left(d) /\ Held(d)' = Held(d)) /\ (Sending(d)' <=> Sending(d))
                /\ (Holding(d)' <=> Holding(d))
  BY QuietMeans
<1>3. ASSUME NEW d \in Ends
      PROVE  SendsLast(d)'
  BY <1>0, <1>2 DEF Quiet, IInv, SendsLast
<1>4. ASSUME NEW d \in Ends
      PROVE  HoldsNext(d)'
  BY <1>0, <1>2 DEF Quiet, IInv, HoldsNext
<1>5. ASSUME NEW d \in Ends
      PROVE  AddsUp(d)'
  BY <1>0, <1>2, TwoEnds DEF Quiet, IInv, AddsUp
<1> QED BY <1>1, <1>3, <1>4, <1>5 DEF IInv

LEMMA MembersQuietHandler ==
    ASSUME IInv, NEW c \in Ends, NEW queue, NEW r, Handler(c, queue, r),
           Quiet(conn[c], r), UNCHANGED <<pipe, taken, got>>
    PROVE  MovesNoByte
<1>1. r \in Members /\ StreamTypes
  BY DEF Quiet, IInv
<1>2. conn' \in [Ends -> Members] /\ conn'[c] = r /\ conn'[Peer(c)] = conn[Peer(c)]
  BY <1>1, HandlerMeans
<1>3. Quiet(conn[Peer(c)], conn'[Peer(c)])
  BY <1>1, <1>2, TwoEnds DEF Quiet, StreamTypes
<1>4. \A d \in Ends : Quiet(conn[d], conn'[d])
  BY <1>2, <1>3, TwoEnds
<1> QED BY <1>2, <1>4 DEF MovesNoByte
-----------------------------------------------------------------------------
LEMMA SendInputKeeps ==
    ASSUME IInv, NEW c \in Ends, NEW n \in Sends[c], SendInput(c, n)
    PROVE  IInv'
<1> DEFINE p == Peer(c)
<1>0. n \in Nat /\ StreamTypes /\ conn[c] \in Members /\ conn[p] \in Members
  BY ConnectionAssumption, TwoEnds DEF IInv, StreamTypes
<1>1. CASE ~conn[c].errno /\ conn[c].sendState = "SEND_WAIT"
  <2> DEFINE r == Send(conn[c], Bytes(taken[c], n), 0, "SCHEDULE_WRITE_READY")
  <2>1. taken[c] \in Nat /\ Bytes(taken[c], n) \in Seq(Nat) /\ Len(Bytes(taken[c], n)) = n
    BY <1>0, BytesType DEF StreamTypes
  <2>a. "SCHEDULE_WRITE_READY" \in SendStates /\ "SEND_COMPLETE_READY" \in SendStates
    BY DEF SendStates
  <2>2. /\ r \in Members
        /\ r.sendBuffer = Bytes(taken[c], n) /\ r.bytesWritten = 0
        /\ r.sendState = "SCHEDULE_WRITE_READY"
        /\ r.receiveState = conn[c].receiveState /\ r.receiveBuffer = conn[c].receiveBuffer
        /\ r.alive = conn[c].alive
    <3> DEFINE b == Bytes(taken[c], n)
    <3>1. b \in Seq(Nat) /\ 0 \in Nat
      BY <2>1
    <3> HIDE DEF b
    <3> DEFINE w == Send(conn[c], b, 0, "SCHEDULE_WRITE_READY")
    <3>2. /\ w \in Members /\ w.sendBuffer = b /\ w.bytesWritten = 0
          /\ w.sendState = "SCHEDULE_WRITE_READY" /\ w.receiveState = conn[c].receiveState
          /\ w.receiveBuffer = conn[c].receiveBuffer /\ w.alive = conn[c].alive
      <4> DEFINE k == conn[c]
      <4>1. k \in Members
        BY <1>0
      <4> HIDE DEF k, w
      <4>2. \A s \in SendStates : /\ Send(k, b, 0, s) \in Members
              /\ Send(k, b, 0, s).sendBuffer = b /\ Send(k, b, 0, s).bytesWritten = 0
              /\ Send(k, b, 0, s).sendState = s /\ Send(k, b, 0, s).receiveState = k.receiveState
              /\ Send(k, b, 0, s).receiveBuffer = k.receiveBuffer /\ Send(k, b, 0, s).alive = k.alive
        BY <3>1, <4>1, MembersSend
      <4> QED BY <2>a, <4>2 DEF k, w
    <3>3. r = w
      BY DEF b
    <3> HIDE DEF w, r
    <3> QED BY <3>2, <3>3 DEF b
  <2>3. Handler(c, sched[c], r)
    BY <1>1 DEF SendInput, Send
  <2> HIDE DEF r
  <2>4. conn' \in [Ends -> Members] /\ conn'[c] = r /\ conn'[p] = conn[p]
    BY <1>0, <2>2, <2>3, HandlerMeans
  <2>5. pipe' = pipe /\ got' = got /\ taken' = [taken EXCEPT ![c] = @ + n]
    BY <1>1 DEF SendInput
  <2>6. taken'[c] = taken[c] + n /\ taken'[p] = taken[p] /\ taken' \in [Ends -> Nat]
    BY <1>0, <2>5, TwoEnds DEF StreamTypes
  <2>7. StreamTypes'
    BY <1>0, <2>4, <2>5, <2>6 DEF StreamTypes
  <2>8. Left(c) = 0 /\ Left(c)' = n /\ Left(p)' = Left(p)
    BY <1>1, <2>1, <2>2, <2>4, <1>0 DEF Left, Sending
  <2>9. /\ Held(c)' = Held(c) /\ Held(p)' = Held(p)
        /\ (Holding(c)' <=> Holding(c)) /\ (Holding(p)' <=> Holding(p))
    BY <2>2, <2>4 DEF Held, Holding
  <2>10. SendsLast(c)'
    BY <2>1, <2>2, <2>4, <2>6 DEF SendsLast, Sending
  <2>11. SendsLast(p)'
    BY <2>4, <2>6, TwoEnds DEF IInv, SendsLast, Sending
  <2>12. HoldsNext(c)' /\ HoldsNext(p)'
    BY <2>2, <2>4, <2>5, <2>9, TwoEnds DEF IInv, HoldsNext
  <2>13. Peer(p) = c /\ p \in Ends
    BY TwoEnds
  <2>14. got[p] \in Nat /\ Held(p) \in Nat /\ Len(pipe[p]) \in Nat
    BY <1>0, <2>13 DEF StreamTypes, Held, Members
  <2>15. AddsUp(c)'
    BY <2>2, <2>4, <2>5, <2>6, <2>8, <2>9 DEF IInv, AddsUp
  <2>16. AddsUp(p)'
    <3>1. conn[p].alive => got[p] + Held(p) + Len(pipe[p]) + Left(c) = taken[c]
      BY <2>13 DEF IInv, AddsUp
    <3> QED BY <3>1, <2>1, <1>0, <2>4, <2>5, <2>6, <2>8, <2>9, <2>13, <2>14 DEF AddsUp
  <2> QED BY <2>7, <2>10, <2>11, <2>12, <2>15, <2>16, TwoEnds DEF IInv
<1>2. CASE ~(~conn[c].errno /\ conn[c].sendState = "SEND_WAIT")
  <2>1. Handler(c, sched[c], conn[c]) /\ UNCHANGED <<pipe, taken, got>>
    BY <1>2 DEF SendInput
  <2>2. Quiet(conn[c], conn[c])
    BY <1>0 DEF Quiet
  <2> QED BY <2>1, <2>2, MembersQuietHandler, QuietKeeps
<1> QED BY <1>1, <1>2

LEMMA WriteKeeps ==
    ASSUME IInv, NEW c \in Ends, NEW n \in 1..Capacity, Write(c, n)
    PROVE  IInv'
<1> DEFINE p == Peer(c)
           k == Len(conn[c].sendBuffer)
           w == conn[c].bytesWritten
           next == IF w + n = k THEN "SEND_COMPLETE_READY" ELSE "SCHEDULE_WRITE_READY"
           r == Wrote(conn[c], w + n, next)
<1>0. n \in Nat /\ StreamTypes /\ conn[c] \in Members /\ conn[p] \in Members
  <2>1. n \in Nat
    <3>1. Capacity \in Nat
      BY ConnectionAssumption
    <3> QED BY <3>1
  <2>2. StreamTypes /\ conn[c] \in Members /\ conn[p] \in Members
    BY TwoEnds DEF IInv, StreamTypes
  <2> QED BY <2>1, <2>2
<1>1. conn[c].sendState = "WRITE_READY_WAIT"
  BY DEF Write, Runs, Precondition
<1>2. k \in Nat /\ w \in 0..k /\ k <= taken[c] /\ taken[c] \in Nat
      /\ conn[c].sendBuffer = Bytes(taken[c] - k, k)
  <2>1. k \in Nat /\ w \in Nat
    BY <1>0 DEF Members
  <2>2. taken[c] \in Nat
    BY <1>0 DEF StreamTypes
  <2>3. k <= taken[c] /\ w <= k /\ conn[c].sendBuffer = Bytes(taken[c] - k, k)
    BY <1>1 DEF IInv, SendsLast, Sending
  <2> QED BY <2>1, <2>2, <2>3
<1>2a. taken[c] - k \in Nat /\ taken[c] - k + w \in Nat /\ k - w \in Nat
  <2> HIDE DEF k, w
  <2> QED BY <1>2
<1>3. Unwritten(c) = Bytes(taken[c] - k + w, k - w)
  <2>1. taken[c] - k \in Nat
    BY <1>2a
  <2>2. SubSeq(Bytes(taken[c] - k, k), w + 1, k) = Bytes((taken[c] - k) + w, k - w)
    BY <1>2, <2>1, BytesEnd
  <2> QED BY <1>2, <2>2 DEF Unwritten
<1>4. Len(Unwritten(c)) = k - w /\ n \in 0..(k - w)
  <2>1. taken[c] - k + w \in Nat /\ k - w \in Nat
    BY <1>2a
  <2>2. Len(Bytes(taken[c] - k + w, k - w)) = k - w
    BY <2>1, BytesType
  <2>3. n <= Len(Unwritten(c))
    BY DEF Write
  <2>4. n <= k - w /\ Len(Unwritten(c)) = k - w
    BY <1>3, <2>2, <2>3
  <2> QED BY <1>0, <2>1, <2>4
<1>5. SubSeq(Unwritten(c), 1, n) = Bytes(taken[c] - k + w, n)
  <2>1. taken[c] - k + w \in Nat /\ k - w \in Nat
    BY <1>2a
  <2> QED BY <1>3, <1>4, <2>1, BytesBegin
<1>6. /\ r \in Members
      /\ r.sendBuffer = conn[c].sendBuffer /\ r.bytesWritten = w + n /\ r.sendState = next
      /\ r.receiveState = conn[c].receiveState /\ r.receiveBuffer = conn[c].receiveBuffer
      /\ r.alive = conn[c].alive
  <2>1. w + n \in Nat
    BY <1>0, <1>2
  <2>2. next \in SendStates
    BY DEF SendStates
  <2> HIDE DEF next, k, w, p
  <2> QED BY <1>0, <2>1, <2>2, MembersWrite
<1>7. Handler(c, sched[c] \ {"write_ready"}, r)
  BY DEF Write, Wrote
<1> HIDE DEF r
<1>8. conn' \in [Ends -> Members] /\ conn'[c] = r /\ conn'[p] = conn[p]
  BY <1>0, <1>6, <1>7, HandlerMeans
<1>9. taken' = taken /\ got' = got
  BY DEF Write
<1>10. p \in Ends /\ p # c /\ Peer(p) = c
  BY TwoEnds
<1>11. /\ ~conn[p].alive => pipe' = pipe
       /\ conn[p].alive => pipe' = [pipe EXCEPT ![p] = @ \o Bytes(taken[c] - k + w, n)]
  BY <1>5 DEF Write
<1>12. Bytes(taken[c] - k + w, n) \in Seq(Nat) /\ Len(Bytes(taken[c] - k + w, n)) = n
  <2>1. taken[c] - k + w \in Nat
    BY <1>2a
  <2> QED BY <1>0, <2>1, BytesType
<1>13. pipe[p] \in Seq(Nat) /\ pipe \in [Ends -> Seq(Nat)] /\ Len(pipe[p]) \in Nat
  BY <1>0, <1>10 DEF StreamTypes
<1>14. pipe[p] \o Bytes(taken[c] - k + w, n) \in Seq(Nat)
       /\ Len(pipe[p] \o Bytes(taken[c] - k + w, n)) = Len(pipe[p]) + n
  BY <1>12, <1>13, ConcatProperties, ZenonT(30)
<1>15. pipe' \in [Ends -> Seq(Nat)] /\ pipe'[c] = pipe[c]
  <2> DEFINE more == pipe[p] \o Bytes(taken[c] - k + w, n)
  <2> HIDE DEF k, w, p
  <2>1. more \in Seq(Nat)
    BY <1>14
  <2>2. pipe' = pipe \/ pipe' = [pipe EXCEPT ![p] = more]
    BY <1>11
  <2> HIDE DEF more
  <2> QED BY <1>10, <1>13, <2>1, <2>2
<1>16. StreamTypes'
  BY <1>0, <1>8, <1>9, <1>15 DEF StreamTypes
<1>17. Left(c) = k - w /\ Left(c)' = k - (w + n) /\ Left(p)' = Left(p)
  BY <1>0, <1>1, <1>2, <1>6, <1>8 DEF Left, Sending
<1>18. /\ Held(c)' = Held(c) /\ Held(p)' = Held(p)
       /\ (Holding(c)' <=> Holding(c)) /\ (Holding(p)' <=> Holding(p))
  BY <1>6, <1>8 DEF Held, Holding
<1>19. SendsLast(c)'
  BY <1>0, <1>2, <1>4, <1>6, <1>8, <1>9 DEF SendsLast, Sending
<1>20. SendsLast(p)'
  BY <1>8, <1>9, <1>10 DEF IInv, SendsLast, Sending
<1>21. HoldsNext(c)'
  BY <1>6, <1>8, <1>9, <1>15, <1>18 DEF IInv, HoldsNext
<1>22. got[p] \in Nat /\ Held(p) \in Nat
  BY <1>0, <1>10 DEF StreamTypes, Held, Members
<1>23. HoldsNext(p)' /\ AddsUp(p)'
  <2>1. (Holding(p) => conn[p].receiveBuffer = Bytes(got[p], Len(conn[p].receiveBuffer)))
        /\ pipe[p] = Bytes(got[p] + Held(p), Len(pipe[p]))
    BY <1>10 DEF IInv, HoldsNext
  <2>2. CASE ~conn[p].alive
    <3>1. pipe' = pipe
      BY <1>11, <2>2
    <3> QED BY <1>8, <1>9, <1>18, <2>1, <2>2, <3>1 DEF HoldsNext, AddsUp
  <2>3. CASE conn[p].alive
    <3>1. got[p] + Held(p) + Len(pipe[p]) + Left(c) = taken[c]
      BY <1>10, <2>3 DEF IInv, AddsUp
    <3>2. taken[c] - k + w = (got[p] + Held(p)) + Len(pipe[p])
      <4>1. k \in Nat /\ w \in Nat /\ taken[c] \in Nat
        BY <1>2
      <4>2. got[p] + Held(p) + Len(pipe[p]) + (k - w) = taken[c]
        BY <1>17, <3>1
      <4>3. got[p] \in Nat /\ Held(p) \in Nat /\ Len(pipe[p]) \in Nat
        BY <1>13, <1>22
      <4> HIDE DEF k, w, p
      <4> QED BY <4>1, <4>2, <4>3, SMTT(30)
    <3>3. pipe'[p] = pipe[p] \o Bytes(taken[c] - k + w, n)
      BY <1>10, <1>11, <1>13, <2>3
    <3>4. Len(pipe'[p]) = Len(pipe[p]) + n
      BY <1>14, <3>3
    <3>5. Bytes(got[p] + Held(p), Len(pipe[p])) \o Bytes((got[p] + Held(p)) + Len(pipe[p]), n)
            = Bytes(got[p] + Held(p), Len(pipe[p]) + n)
      <4>1. got[p] + Held(p) \in Nat
        BY <1>22
      <4> QED BY <1>0, <1>13, <4>1, BytesFollow
    <3>6. pipe'[p] = Bytes(got[p] + Held(p), Len(pipe'[p]))
      BY <2>1, <3>2, <3>3, <3>4, <3>5
    <3>7. HoldsNext(p)'
      BY <1>8, <1>9, <1>18, <2>1, <3>6 DEF HoldsNext
    <3>8. AddsUp(p)'
      <4>1. got[p] + Held(p) + Len(pipe'[p]) + (k - (w + n)) = taken[c]
        <5>1. k \in Nat /\ w \in Nat /\ taken[c] \in Nat
          BY <1>2
        <5>2. got[p] + Held(p) + Len(pipe[p]) + (k - w) = taken[c]
          BY <1>17, <3>1
        <5> HIDE DEF k, w
        <5> QED BY <1>0, <1>13, <1>22, <3>4, <5>1, <5>2
      <4> QED BY <4>1, <1>9, <1>10, <1>17, <1>18 DEF AddsUp
    <3> QED BY <3>7, <3>8
  <2> QED BY <2>2, <2>3
<1>24. AddsUp(c)'
  BY <1>6, <1>8, <1>9, <1>15, <1>17, <1>18 DEF IInv, AddsUp
<1> QED BY <1>16, <1>19, <1>20, <1>21, <1>23, <1>24, TwoEnds DEF IInv

LEMMA ReadKeeps ==
    ASSUME IInv, NEW c \in Ends, Read(c)
    PROVE  IInv'
<1> DEFINE p == Peer(c)
           r == Hold(conn[c], pipe[c], "RECEIVE_READY")
<1>0. StreamTypes /\ conn[c] \in Members /\ conn[p] \in Members /\ pipe[c] \in Seq(Nat)
  BY TwoEnds DEF IInv, StreamTypes
<1>1. conn[c].receiveState = "READ_READY_WAIT"
  BY DEF Read, Runs, Precondition
<1>2. /\ r \in Members
      /\ r.sendBuffer = conn[c].sendBuffer /\ r.bytesWritten = conn[c].bytesWritten
      /\ r.sendState = conn[c].sendState
      /\ r.receiveState = "RECEIVE_READY" /\ r.receiveBuffer = pipe[c]
      /\ r.alive = conn[c].alive
  <2>1. "RECEIVE_READY" \in ReceiveStates
    BY DEF ReceiveStates
  <2> QED BY <1>0, <2>1, MembersRead
<1>3. Handler(c, sched[c] \ {"read_ready"}, r)
  BY DEF Read, Hold
<1> HIDE DEF r
<1>4. conn' \in [Ends -> Members] /\ conn'[c] = r /\ conn'[p] = conn[p]
  BY <1>0, <1>2, <1>3, HandlerMeans
<1>5. taken' = taken /\ got' = got /\ pipe' = [pipe EXCEPT ![c] = <<>>]
  BY DEF Read
<1>6. p \in Ends /\ p # c /\ Peer(p) = c
  BY TwoEnds
<1>7. pipe' \in [Ends -> Seq(Nat)] /\ pipe'[c] = <<>> /\ pipe'[p] = pipe[p]
  <2>1. <<>> \in Seq(Nat)
    OBVIOUS
  <2> QED BY <1>0, <1>5, <1>6, <2>1 DEF StreamTypes
<1>8. StreamTypes'
  BY <1>0, <1>4, <1>5, <1>7 DEF StreamTypes
<1>9. /\ Left(c)' = Left(c) /\ Left(p)' = Left(p)
      /\ (Sending(c)' <=> Sending(c)) /\ (Sending(p)' <=> Sending(p))
  BY <1>2, <1>4 DEF Left, Sending
<1>10. /\ Held(c) = 0 /\ Held(c)' = Len(pipe[c]) /\ Held(p)' = Held(p)
       /\ Holding(c)' /\ (Holding(p)' <=> Holding(p))
  BY <1>1, <1>2, <1>4 DEF Held, Holding
<1>11. SendsLast(c)' /\ SendsLast(p)'
  BY <1>2, <1>4, <1>5, <1>6, <1>9 DEF IInv, SendsLast
<1>12. got[c] \in Nat /\ Len(pipe[c]) \in Nat /\ Len(<<>>) = 0
  BY <1>0 DEF StreamTypes
<1>13. HoldsNext(c)'
  <2>1. pipe[c] = Bytes(got[c], Len(pipe[c]))
    <3>1. pipe[c] = Bytes(got[c] + Held(c), Len(pipe[c]))
      BY DEF IInv, HoldsNext
    <3>2. got[c] + Held(c) = got[c]
      BY <1>10, <1>12
    <3> QED BY <3>1, <3>2
  <2>2. <<>> = Bytes(got[c] + Len(pipe[c]), 0)
    <3>1. got[c] + Len(pipe[c]) \in Nat
      BY <1>12
    <3> QED BY <3>1, BytesNone
  <2> QED BY <1>2, <1>4, <1>5, <1>7, <1>10, <1>12, <2>1, <2>2 DEF HoldsNext
<1>14. HoldsNext(p)'
  BY <1>4, <1>5, <1>6, <1>7, <1>10 DEF IInv, HoldsNext
<1>15. AddsUp(c)'
  <2>1. Left(p) \in Int
    BY <1>0 DEF Left, Members
  <2>2. conn[c].alive => got[c] + Held(c) + Len(pipe[c]) + Left(p) = taken[p]
    BY DEF IInv, AddsUp
  <2>3. conn[c].alive => got[c] + Len(pipe[c]) + Len(<<>>) + Left(p) = taken[p]
    BY <1>10, <1>12, <2>1, <2>2
  <2> QED BY <1>2, <1>4, <1>5, <1>7, <1>9, <1>10, <2>3 DEF AddsUp
<1>16. AddsUp(p)'
  BY <1>4, <1>5, <1>6, <1>7, <1>9, <1>10 DEF IInv, AddsUp
<1> QED BY <1>8, <1>11, <1>13, <1>14, <1>15, <1>16, TwoEnds DEF IInv

LEMMA ReceiveKeeps ==
    ASSUME IInv, NEW c \in Ends, Receive(c)
    PROVE  IInv'
<1> DEFINE p == Peer(c)
           r == [conn[c] EXCEPT !.receiveState = "SCHEDULE_READ_READY"]
<1>0. StreamTypes /\ conn[c] \in Members /\ conn[p] \in Members /\ pipe[c] \in Seq(Nat)
  BY TwoEnds DEF IInv, StreamTypes
<1>1. Holding(c)
  BY DEF Receive, Runs, Precondition, Holding
<1>2. /\ r \in Members
      /\ r.sendBuffer = conn[c].sendBuffer /\ r.bytesWritten = conn[c].bytesWritten
      /\ r.sendState = conn[c].sendState
      /\ r.receiveState = "SCHEDULE_READ_READY"
      /\ r.alive = conn[c].alive
  BY <1>0 DEF Members, ReceiveStates
<1>3. Handler(c, sched[c] \ {"receive"}, r)
  BY DEF Receive
<1> HIDE DEF r
<1>4. conn' \in [Ends -> Members] /\ conn'[c] = r /\ conn'[p] = conn[p]
  BY <1>0, <1>2, <1>3, HandlerMeans
<1>5. taken' = taken /\ pipe' = pipe /\ got' = [got EXCEPT ![c] = @ + Len(conn[c].receiveBuffer)]
  BY DEF Receive
<1>6. p \in Ends /\ p # c /\ Peer(p) = c
  BY TwoEnds
<1>7. got[c] \in Nat /\ Len(conn[c].receiveBuffer) \in Nat /\ Len(pipe[c]) \in Nat
  BY <1>0 DEF StreamTypes, Members
<1>8. /\ got' \in [Ends -> Nat] /\ got'[p] = got[p]
      /\ got'[c] = got[c] + Len(conn[c].receiveBuffer)
  BY <1>0, <1>5, <1>6, <1>7 DEF StreamTypes
<1>9. StreamTypes'
  BY <1>0, <1>4, <1>5, <1>8 DEF StreamTypes
<1>10. /\ Left(c)' = Left(c) /\ Left(p)' = Left(p)
       /\ (Sending(c)' <=> Sending(c)) /\ (Sending(p)' <=> Sending(p))
  BY <1>2, <1>4 DEF Left, Sending
<1>11. /\ Held(c) = Len(conn[c].receiveBuffer) /\ Held(c)' = 0 /\ Held(p)' = Held(p)
       /\ ~Holding(c)' /\ (Holding(p)' <=> Holding(p))
  BY <1>1, <1>2, <1>4 DEF Held, Holding
<1>12. SendsLast(c)' /\ SendsLast(p)'
  BY <1>2, <1>4, <1>5, <1>6, <1>10 DEF IInv, SendsLast
<1>13. got'[c] + Held(c)' = got[c] + Held(c)
  BY <1>7, <1>8, <1>11
<1>14. HoldsNext(c)'
  <2>1. pipe[c] = Bytes(got[c] + Held(c), Len(pipe[c]))
    BY DEF IInv, HoldsNext
  <2> QED BY <1>5, <1>11, <1>13, <2>1 DEF HoldsNext
<1>15. HoldsNext(p)'
  BY <1>4, <1>5, <1>6, <1>8, <1>11 DEF IInv, HoldsNext
<1>16. AddsUp(c)'
  BY <1>2, <1>4, <1>5, <1>10, <1>13 DEF IInv, AddsUp
<1>17. AddsUp(p)'
  BY <1>4, <1>5, <1>6, <1>8, <1>10, <1>11 DEF IInv, AddsUp
<1> QED BY <1>9, <1>12, <1>14, <1>15, <1>16, <1>17, TwoEnds DEF IInv

\* The steps that move no byte.
LEMMA QuietSteps ==
    ASSUME IInv, NEW c \in Ends,
           \/ ScheduleWrite(c) \/ SendComplete(c) \/ ScheduleRead(c)
           \/ Connected(c) \/ Error(c) \/ InitInput(c)
           \/ \E a \in {"read_ready", "write_ready"} : Fail(c, a)
    PROVE  MovesNoByte
<1>0. conn[c] \in Members
  BY DEF IInv, StreamTypes
<1>1. CASE ScheduleWrite(c)
  <2> DEFINE r == [conn[c] EXCEPT !.sendState = "WRITE_READY_WAIT"]
  <2>1. Handler(c, sched[c] \ {"schedule_write"}, r) /\ UNCHANGED <<pipe, taken, got>>
    BY <1>1 DEF ScheduleWrite
  <2>2. conn[c].sendState = "SCHEDULE_WRITE_READY"
    BY <1>1 DEF ScheduleWrite, Runs, Precondition
  <2>3. Quiet(conn[c], r)
    BY <1>0, <2>2 DEF Members, Quiet, SendStates
  <2> QED BY <2>1, <2>3, MembersQuietHandler
<1>2. CASE SendComplete(c)
  <2> DEFINE r == [conn[c] EXCEPT !.sendState = "SEND_WAIT"]
  <2>1. Handler(c, sched[c] \ {"send_complete"}, r) /\ UNCHANGED <<pipe, taken, got>>
    BY <1>2 DEF SendComplete
  <2>2. conn[c].sendState = "SEND_COMPLETE_READY"
    BY <1>2 DEF SendComplete, Runs, Precondition
  <2>3. Quiet(conn[c], r)
    BY <1>0, <2>2 DEF Members, Quiet, SendStates
  <2> QED BY <2>1, <2>3, MembersQuietHandler
<1>3. CASE ScheduleRead(c)
  <2> DEFINE r == [conn[c] EXCEPT !.receiveState = "READ_READY_WAIT"]
  <2>1. Handler(c, sched[c] \ {"schedule_read"}, r) /\ UNCHANGED <<pipe, taken, got>>
    BY <1>3 DEF ScheduleRead
  <2>2. conn[c].receiveState = "SCHEDULE_READ_READY"
    BY <1>3 DEF ScheduleRead, Runs, Precondition
  <2>3. Quiet(conn[c], r)
    BY <1>0, <2>2 DEF Members, Quiet, ReceiveStates
  <2> QED BY <2>1, <2>3, MembersQuietHandler
<1>4. CASE Connected(c)
  <2> DEFINE r == [conn[c] EXCEPT !.connectedReported = TRUE]
  <2>1. Handler(c, sched[c] \ {"connected"}, r) /\ UNCHANGED <<pipe, taken, got>>
    BY <1>4 DEF Connected
  <2>2. Quiet(conn[c], r)
    BY <1>0 DEF Members, Quiet
  <2> QED BY <2>1, <2>2, MembersQuietHandler
<1>5. CASE Error(c)
  <2> DEFINE r == [conn[c] EXCEPT !.errorReported = TRUE]
  <2>1. Handler(c, sched[c] \ {"error"}, r) /\ UNCHANGED <<pipe, taken, got>>
    BY <1>5 DEF Error
  <2>2. Quiet(conn[c], r)
    BY <1>0 DEF Members, Quiet
  <2> QED BY <2>1, <2>2, MembersQuietHandler
<1>6. CASE InitInput(c)
  <2>1. ASSUME Handler(c, sched[c], conn[c]) PROVE MovesNoByte
    <3>1. Quiet(conn[c], conn[c]) /\ UNCHANGED <<pipe, taken, got>>
      BY <1>0, <1>6 DEF Quiet, InitInput
    <3> QED BY <2>1, <3>1, MembersQuietHandler
  <2>2. ASSUME NEW failed \in BOOLEAN,
               Handler(c, sched[c], [conn[c] EXCEPT !.fd = TRUE, !.errno = @ \/ failed])
        PROVE  MovesNoByte
    <3> DEFINE r == [conn[c] EXCEPT !.fd = TRUE, !.errno = conn[c].errno \/ failed]
    <3>1. Handler(c, sched[c], r) /\ UNCHANGED <<pipe, taken, got>>
      BY <1>6, <2>2 DEF InitInput
    <3>2. (conn[c].errno \/ failed) \in BOOLEAN
      BY <1>0 DEF Members
    <3>3. Quiet(conn[c], r)
      BY <1>0, <3>2 DEF Members, Quiet
    <3> QED BY <3>1, <3>3, MembersQuietHandler
  <2> QED BY <1>6, <2>1, <2>2 DEF InitInput
<1>7. ASSUME NEW a \in {"read_ready", "write_ready"}, Fail(c, a)
      PROVE  MovesNoByte
  <2> DEFINE r == [conn[c] EXCEPT !.errno = TRUE]
  <2>1. Handler(c, sched[c] \ {a}, r) /\ UNCHANGED <<pipe, taken, got>>
    BY <1>7 DEF Fail
  <2>2. Quiet(conn[c], r)
    BY <1>0 DEF Members, Quiet
  <2> QED BY <2>1, <2>2, MembersQuietHandler
<1> QED BY <1>1, <1>2, <1>3, <1>4, <1>5, <1>6, <1>7

\* The destruction of an end, and the steps that leave the members alone.
LEMMA DestroyQuiet ==
    ASSUME IInv, NEW c \in Ends, Destroy(c)
    PROVE  MovesNoByte
<1> DEFINE r == [conn[c] EXCEPT !.alive = FALSE]
<1>1. conn \in [Ends -> Members]
  BY DEF IInv, StreamTypes
<1>2. conn' = [conn EXCEPT ![c] = r] /\ UNCHANGED <<pipe, taken, got>>
  BY DEF Destroy
<1>3. Quiet(conn[c], r) /\ \A d \in Ends : Quiet(conn[d], conn[d])
  BY <1>1 DEF Members, Quiet
<1>4. r \in Members
  BY <1>3 DEF Quiet
<1> HIDE DEF r
<1>5. conn' \in [Ends -> Members] /\ \A d \in Ends : Quiet(conn[d], conn'[d])
  BY <1>1, <1>2, <1>3, <1>4
<1> QED BY <1>2, <1>5 DEF MovesNoByte

LEMMA UnchangedQuiet ==
    ASSUME IInv, UNCHANGED <<conn, pipe, taken, got>>
    PROVE  MovesNoByte
<1>1. conn \in [Ends -> Members]
  BY DEF IInv, StreamTypes
<1>2. \A d \in Ends : Quiet(conn[d], conn'[d])
  BY <1>1 DEF Quiet
<1> QED BY <1>1, <1>2 DEF MovesNoByte
-----------------------------------------------------------------------------
LEMMA InitHolds == ConnInit => IInv
<1> SUFFICES ASSUME ConnInit PROVE IInv
  OBVIOUS
<1>1. NewConnection \in Members
  BY DEF NewConnection, Members, SendStates, ReceiveStates
<1>2. StreamTypes
  BY <1>1 DEF ConnInit, StreamTypes
<1>3. ASSUME NEW c \in Ends
      PROVE  ~Sending(c) /\ ~Holding(c) /\ Left(c) = 0 /\ Held(c) = 0
  BY <1>3 DEF ConnInit, NewConnection, Sending, Holding, Left, Held
<1>4. ASSUME NEW c \in Ends
      PROVE  SendsLast(c) /\ HoldsNext(c) /\ AddsUp(c)
  <2>1. pipe[c] = <<>> /\ got[c] = 0 /\ taken[c] = 0 /\ taken[Peer(c)] = 0
    BY TwoEnds DEF ConnInit
  <2>2. Bytes(0, 0) = <<>> /\ Len(<<>>) = 0
    BY BytesNone
  <2>3. Left(Peer(c)) = 0
    BY <1>3, TwoEnds
  <2> QED BY <1>3, <2>1, <2>2, <2>3 DEF SendsLast, HoldsNext, AddsUp
<1> QED BY <1>2, <1>4 DEF IInv

LEMMA NextKeeps ==
    ASSUME IInv, [ConnSteps \/ ConnInputs]_connVars
    PROVE  IInv'
<1>1. ASSUME NEW c \in Ends, ConnStep(c)
      PROVE  IInv'
  <2>1. ASSUME NEW a \in {"read_ready", "write_ready"}, Ready(c, a) PROVE IInv'
    BY <2>1, UnchangedQuiet, QuietKeeps DEF Ready, Select
  <2>2. CASE RunDisabled(c)
    BY <2>2, UnchangedQuiet, QuietKeeps DEF RunDisabled
  <2> QED BY <1>1, <2>1, <2>2, QuietSteps, QuietKeeps, WriteKeeps, ReadKeeps, ReceiveKeeps DEF ConnStep
<1>2. ASSUME NEW c \in Ends, ConnInput(c)
      PROVE  IInv'
  <2>1. ASSUME NEW o, Bind(c, o) \/ Unbind(c, o) PROVE IInv'
    BY <2>1, UnchangedQuiet, QuietKeeps DEF Bind, Unbind
  <2>2. ASSUME NEW a, Select(c, a) PROVE IInv'
    BY <2>2, UnchangedQuiet, QuietKeeps DEF Select
  <2> QED BY <1>2, <2>1, <2>2, QuietSteps, QuietKeeps, DestroyQuiet, SendInputKeeps DEF ConnInput
<1>3. CASE UNCHANGED connVars
  BY <1>3, UnchangedQuiet, QuietKeeps DEF connVars
<1> QED BY <1>1, <1>2, <1>3 DEF ConnSteps, ConnInputs

\* The pieces follow each other, so together they are the stream.
LEMMA PiecesAreStream == IInv => StreamIntact
<1> SUFFICES ASSUME IInv, NEW c \in Ends
             PROVE  LET p == Peer(c)
                        held == IF conn[c].receiveState = "RECEIVE_READY"
                                THEN conn[c].receiveBuffer ELSE <<>>
                        unsent == IF conn[p].sendState \in {"SCHEDULE_WRITE_READY",
                                                            "WRITE_READY_WAIT"}
                                  THEN Unwritten(p) ELSE <<>>
                    IN  /\ held \o pipe[c] = Bytes(got[c], Len(held) + Len(pipe[c]))
                        /\ conn[c].alive =>
                             held \o pipe[c] \o unsent
                                = Bytes(got[c], Len(held) + Len(pipe[c]) + Len(unsent))
                        /\ conn[c].alive /\ conn[p].alive =>
                             got[c] + Len(held) + Len(pipe[c]) + Len(unsent) = taken[p]
  BY DEF StreamIntact
<1> DEFINE p == Peer(c)
           held == IF conn[c].receiveState = "RECEIVE_READY" THEN conn[c].receiveBuffer ELSE <<>>
           unsent == IF conn[p].sendState \in {"SCHEDULE_WRITE_READY", "WRITE_READY_WAIT"}
                     THEN Unwritten(p) ELSE <<>>
<1>1. /\ p \in Ends /\ conn[c] \in Members /\ conn[p] \in Members
      /\ got[c] \in Nat /\ taken[p] \in Nat /\ pipe[c] \in Seq(Nat) /\ Len(pipe[c]) \in Nat
  BY TwoEnds DEF IInv, StreamTypes
<1>2. Held(c) \in Nat /\ held = Bytes(got[c], Held(c)) /\ Len(held) = Held(c)
  <2>1. CASE Holding(c)
    <3>1. held = conn[c].receiveBuffer /\ Held(c) = Len(conn[c].receiveBuffer)
      BY <2>1 DEF Holding, Held
    <3>2. conn[c].receiveBuffer = Bytes(got[c], Len(conn[c].receiveBuffer))
      BY <2>1 DEF IInv, HoldsNext
    <3>3. Len(conn[c].receiveBuffer) \in Nat
      BY <1>1 DEF Members
    <3> HIDE DEF held
    <3> QED BY <3>1, <3>2, <3>3
  <2>2. CASE ~Holding(c)
    <3>1. held = <<>> /\ Held(c) = 0 /\ Len(<<>>) = 0
      BY <2>2 DEF Holding, Held
    <3>2. Bytes(got[c], 0) = <<>>
      BY <1>1, BytesNone
    <3> HIDE DEF held
    <3> QED BY <3>1, <3>2
  <2> QED BY <2>1, <2>2
<1>3. /\ Left(p) \in Nat /\ taken[p] - Left(p) \in Nat
      /\ unsent = Bytes(taken[p] - Left(p), Left(p)) /\ Len(unsent) = Left(p)
  <2>1. CASE Sending(p)
    <3> DEFINE k == Len(conn[p].sendBuffer)
               w == conn[p].bytesWritten
    <3>1. k \in Nat /\ w \in Nat
      BY <1>1 DEF Members
    <3>2. k <= taken[p] /\ w <= k /\ conn[p].sendBuffer = Bytes(taken[p] - k, k)
      BY <1>1, <2>1 DEF IInv, SendsLast
    <3>3. taken[p] - k \in Nat /\ w \in 0..k
      BY <1>1, <3>1, <3>2
    <3>4. SubSeq(Bytes(taken[p] - k, k), w + 1, k) = Bytes((taken[p] - k) + w, k - w)
      BY <3>1, <3>3, BytesEnd
    <3>5. unsent = Bytes((taken[p] - k) + w, k - w)
      BY <2>1, <3>2, <3>4 DEF Sending, Unwritten
    <3>6. Left(p) = k - w
      BY <2>1 DEF Left
    <3>7. k - w \in Nat /\ taken[p] - (k - w) = (taken[p] - k) + w /\ taken[p] - (k - w) \in Nat
      <4>1. taken[p] \in Nat /\ k <= taken[p] /\ w <= k
        BY <1>1, <3>2
      <4> HIDE DEF k, w, p
      <4> QED BY <3>1, <4>1
    <3>8. Len(Bytes(taken[p] - (k - w), k - w)) = k - w
      BY <3>7, BytesType
    <3> HIDE DEF k, w, unsent
    <3> QED BY <3>5, <3>6, <3>7, <3>8
  <2>2. CASE ~Sending(p)
    <3>1. unsent = <<>> /\ Left(p) = 0 /\ Len(<<>>) = 0
      BY <2>2 DEF Sending, Left
    <3>2. Bytes(taken[p], 0) = <<>> /\ taken[p] - 0 = taken[p]
      BY <1>1, BytesNone
    <3> HIDE DEF unsent
    <3> QED BY <1>1, <3>1, <3>2
  <2> QED BY <2>1, <2>2
<1>4. pipe[c] = Bytes(got[c] + Held(c), Len(pipe[c]))
  BY DEF IInv, HoldsNext
<1> HIDE DEF held, unsent, p
<1>5. held \o pipe[c] = Bytes(got[c], Len(held) + Len(pipe[c]))
  <2>1. Bytes(got[c], Held(c)) \o Bytes(got[c] + Held(c), Len(pipe[c]))
           = Bytes(got[c], Held(c) + Len(pipe[c]))
    BY <1>1, <1>2, BytesFollow
  <2> QED BY <1>2, <1>4, <2>1
<1>6. ASSUME conn[c].alive
      PROVE  got[c] + Len(held) + Len(pipe[c]) + Len(unsent) = taken[p]
  BY <1>2, <1>3, <1>6 DEF IInv, AddsUp, p
<1>7. ASSUME conn[c].alive
      PROVE  held \o pipe[c] \o unsent = Bytes(got[c], Len(held) + Len(pipe[c]) + Len(unsent))
  <2> DEFINE m == Held(c) + Len(pipe[c])
  <2>1. m \in Nat
    BY <1>1, <1>2
  <2>2. taken[p] - Left(p) = got[c] + m
    <3>1. got[c] + Held(c) + Len(pipe[c]) + Left(p) = taken[p]
      BY <1>2, <1>3, <1>6, <1>7
    <3> QED BY <1>1, <1>2, <1>3, <3>1
  <2> HIDE DEF m
  <2>3. Bytes(got[c], m) \o Bytes(got[c] + m, Left(p)) = Bytes(got[c], m + Left(p))
    BY <1>1, <1>3, <2>1, BytesFollow, ZenonT(30)
  <2>4. held \o pipe[c] = Bytes(got[c], m) /\ Len(held) + Len(pipe[c]) = m
    BY <1>2, <1>5 DEF m
  <2> QED BY <1>3, <2>2, <2>3, <2>4
<1> QED BY <1>5, <1>6, <1>7 DEF held, unsent, p

\* Between the two ends of a connection no byte is lost, repeated or misplaced
\* (do_read and write of lib/tcp_connection_automaton.cpp, with resumed writes),
\* for buffers of any size and a kernel that takes any part of a write.
THEOREM BytesInOrder == ConnSpec => []StreamIntact
<1>1. ConnInit => IInv
  BY InitHolds
<1>2. IInv /\ [ConnSteps \/ ConnInputs]_connVars => IInv'
  BY NextKeeps
<1>3. IInv => StreamIntact
  BY PiecesAreStream
<1> QED BY <1>1, <1>2, <1>3, PTL DEF ConnSpec
-----------------------------------------------------------------------------
(* What is enabled is scheduled. *)

\* The actions q of an automaton in the scheduler's queue and m registered, for its
\* members r and its bound outputs b: it waits for its descriptor only once it has
\* one, and what is enabled waits somewhere.
ConnQueued(r, q, m, b) ==
    /\ r.sendState = "WRITE_READY_WAIT" \/ r.receiveState = "READ_READY_WAIT" => r.fd
    /\ ~r.alive => q = {} /\ m = {} /\ b = {}
    /\ r.alive => \A a \in Actions : Precondition(a, r, b) => a \in q \cup m

QueuedTypes ==
    /\ conn \in [Ends -> Members]
    /\ sched \in [Ends -> SUBSET Actions]
    /\ armed \in [Ends -> SUBSET {"read_ready", "write_ready"}]
    /\ bound \in [Ends -> SUBSET Outputs]

QInv == QueuedTypes /\ \A c \in Ends : ConnQueued(conn[c], sched[c], armed[c], bound[c])

LEMMA PreconditionMeans ==
    ASSUME NEW r, NEW b
    PROVE  /\ Precondition("schedule_write", r, b) <=>
                r.fd /\ ~r.errno /\ r.sendState = "SCHEDULE_WRITE_READY"
           /\ Precondition("write_ready", r, b) <=>
                r.fd /\ ~r.errno /\ r.sendState = "WRITE_READY_WAIT"
           /\ Precondition("schedule_read", r, b) <=>
                r.fd /\ ~r.errno /\ r.receiveState = "SCHEDULE_READ_READY"
           /\ Precondition("read_ready", r, b) <=>
                r.fd /\ ~r.errno /\ r.receiveState = "READ_READY_WAIT"
           /\ \A a \in Outputs : Precondition(a, r, b) => a \in b
BY DEF Precondition, Outputs

\* A handler queues all that is enabled, but for what waits for the descriptor.
LEMMA HandlerQueues ==
    ASSUME QInv, NEW c \in Ends, NEW queue \in SUBSET Actions, NEW r \in Members,
           Handler(c, queue, r), NEW m \in SUBSET {"read_ready", "write_ready"},
           armed' = [armed EXCEPT ![c] = m], bound' = bound, r.alive,
           r.sendState = "WRITE_READY_WAIT" =>
              r.fd /\ (~r.errno => "write_ready" \in queue \cup m),
           r.receiveState = "READ_READY_WAIT" =>
              r.fd /\ (~r.errno => "read_ready" \in queue \cup m)
    PROVE  QInv'
<1> DEFINE q == queue \cup Schedule(r, bound[c])
<1>1. QueuedTypes
  BY DEF QInv
<1>2. conn' = [conn EXCEPT ![c] = r] /\ sched' = [sched EXCEPT ![c] = q]
  BY DEF Handler
<1>3. q \subseteq Actions
  BY DEF Schedule
<1>4. ConnQueued(r, q, m, bound[c])
  <2>1. ASSUME NEW a \in Actions, Precondition(a, r, bound[c]) PROVE a \in q \cup m
    <3>1. CASE a = "write_ready"
      BY <2>1, <3>1, PreconditionMeans
    <3>2. CASE a = "read_ready"
      BY <2>1, <3>2, PreconditionMeans
    <3>3. CASE a \notin {"write_ready", "read_ready"}
      BY <2>1, <3>3 DEF Schedule
    <3> QED BY <3>1, <3>2, <3>3
  <2> HIDE DEF q
  <2> QED BY <2>1 DEF ConnQueued
<1> HIDE DEF q
<1>5. QueuedTypes'
  BY <1>1, <1>2, <1>3 DEF QueuedTypes
<1>6. ASSUME NEW d \in Ends PROVE ConnQueued(conn'[d], sched'[d], armed'[d], bound'[d])
  <2>1. CASE d = c
    BY <1>1, <1>2, <1>4, <2>1 DEF QueuedTypes
  <2>2. CASE d # c
    BY <1>1, <1>2, <2>2 DEF QueuedTypes, QInv
  <2> QED BY <2>1, <2>2
<1> QED BY <1>5, <1>6 DEF QInv

\* What runs is that of an automaton that lives.
LEMMA RunsMeans ==
    ASSUME QInv, NEW c \in Ends, NEW a, Runs(c, a)
    PROVE  conn[c] \in Members /\ conn[c].alive /\ Precondition(a, conn[c], bound[c])
BY DEF Runs, QInv, QueuedTypes, ConnQueued

\* The handlers that register nothing.
LEMMA HandlerKeepsQueued ==
    ASSUME QInv, NEW c \in Ends, NEW a, NEW queue \in SUBSET Actions, NEW r \in Members,
           Handler(c, queue, r), sched[c] \ {a} \subseteq queue, UNCHANGED <<armed, bound>>,
           conn[c].alive, r.alive, conn[c].fd => r.fd, ~r.errno => ~conn[c].errno,
           r.sendState = "WRITE_READY_WAIT" =>
              conn[c].sendState = "WRITE_READY_WAIT" /\ (a # "write_ready" \/ r.errno),
           r.receiveState = "READ_READY_WAIT" =>
              conn[c].receiveState = "READ_READY_WAIT" /\ (a # "read_ready" \/ r.errno)
    PROVE  QInv'
<1>1. /\ armed' = [armed EXCEPT ![c] = armed[c]] /\ armed[c] \in SUBSET {"read_ready", "write_ready"}
      /\ ConnQueued(conn[c], sched[c], armed[c], bound[c]) /\ conn[c] \in Members
  BY DEF QInv, QueuedTypes
<1>2. "write_ready" \in Actions /\ "read_ready" \in Actions
  BY DEF Actions
<1>3. r.sendState = "WRITE_READY_WAIT" => r.fd /\ (~r.errno => "write_ready" \in queue \cup armed[c])
  <2> SUFFICES ASSUME r.sendState = "WRITE_READY_WAIT"
               PROVE  r.fd /\ (~r.errno => "write_ready" \in queue \cup armed[c])
    OBVIOUS
  <2>1. conn[c].fd /\ r.fd
    BY <1>1 DEF ConnQueued
  <2>2. ~r.errno => Precondition("write_ready", conn[c], bound[c])
    BY <2>1, PreconditionMeans
  <2>3. ~r.errno => "write_ready" \in sched[c] \cup armed[c]
    BY <1>1, <1>2, <2>2 DEF ConnQueued
  <2> QED BY <2>1, <2>3
<1>4. r.receiveState = "READ_READY_WAIT" => r.fd /\ (~r.errno => "read_ready" \in queue \cup armed[c])
  <2> SUFFICES ASSUME r.receiveState = "READ_READY_WAIT"
               PROVE  r.fd /\ (~r.errno => "read_ready" \in queue \cup armed[c])
    OBVIOUS
  <2>1. conn[c].fd /\ r.fd
    BY <1>1 DEF ConnQueued
  <2>2. ~r.errno => Precondition("read_ready", conn[c], bound[c])
    BY <2>1, PreconditionMeans
  <2>3. ~r.errno => "read_ready" \in sched[c] \cup armed[c]
    BY <1>1, <1>2, <2>2 DEF ConnQueued
  <2> QED BY <2>1, <2>3
<1>5. bound' = bound
  OBVIOUS
<1> QED BY <1>1, <1>3, <1>4, <1>5, HandlerQueues

\* The queues of c change and its members do not.
LEMMA QueuesChange ==
    ASSUME QInv, NEW c \in Ends, NEW q \in SUBSET Actions, NEW m \in SUBSET {"read_ready", "write_ready"},
           NEW b \in SUBSET Outputs, conn' = conn, sched' = [sched EXCEPT ![c] = q],
           armed' = [armed EXCEPT ![c] = m], bound' = [bound EXCEPT ![c] = b], conn[c].alive,
           \A a \in Actions : Precondition(a, conn[c], b) => a \in q \cup m
    PROVE  QInv'
<1>1. QueuedTypes /\ ConnQueued(conn[c], sched[c], armed[c], bound[c])
  BY DEF QInv
<1>2. QueuedTypes'
  BY <1>1 DEF QueuedTypes
<1>3. ConnQueued(conn[c], q, m, b)
  BY <1>1 DEF ConnQueued
<1>4. ASSUME NEW d \in Ends PROVE ConnQueued(conn'[d], sched'[d], armed'[d], bound'[d])
  <2>1. CASE d = c
    BY <1>1, <1>3, <2>1 DEF QueuedTypes
  <2>2. CASE d # c
    BY <1>1, <2>2 DEF QueuedTypes, QInv
  <2> QED BY <2>1, <2>2
<1> QED BY <1>2, <1>4 DEF QInv

\* The descriptor registered is ready, or an action that is not enabled leaves the queue.
LEMMA SchedulerQueues ==
    ASSUME QInv, NEW c \in Ends,
           RunDisabled(c) \/ \E a \in {"read_ready", "write_ready"} : Select(c, a)
    PROVE  QInv'
<1>0. /\ QueuedTypes /\ ConnQueued(conn[c], sched[c], armed[c], bound[c]) /\ conn[c] \in Members
      /\ sched[c] \in SUBSET Actions /\ armed[c] \in SUBSET {"read_ready", "write_ready"}
      /\ bound[c] \in SUBSET Outputs /\ {"read_ready", "write_ready"} \subseteq Actions
      /\ bound' = [bound EXCEPT ![c] = bound[c]] /\ conn' = conn
  BY DEF QInv, QueuedTypes, Actions, RunDisabled, Select
<1>1. CASE RunDisabled(c)
  <2>1. PICK a \in sched[c] : /\ ~Precondition(a, conn[c], bound[c])
                              /\ sched' = [sched EXCEPT ![c] = @ \ {a}]
    BY <1>1 DEF RunDisabled
  <2>2. conn[c].alive /\ armed' = [armed EXCEPT ![c] = armed[c]]
    BY <1>0, <1>1, <2>1 DEF ConnQueued, RunDisabled, QueuedTypes
  <2>3. \A x \in Actions : Precondition(x, conn[c], bound[c]) => x \in (sched[c] \ {a}) \cup armed[c]
    BY <1>0, <2>1, <2>2 DEF ConnQueued
  <2>4. sched[c] \ {a} \in SUBSET Actions
    BY <1>0
  <2> QED BY <1>0, <2>1, <2>2, <2>3, <2>4, QueuesChange
<1>2. ASSUME NEW a \in {"read_ready", "write_ready"}, Select(c, a) PROVE QInv'
  <2> DEFINE q == sched[c] \cup {a}
             m == armed[c] \ {a}
  <2>1. /\ conn[c].alive /\ armed' = [armed EXCEPT ![c] = m]
        /\ sched' = [sched EXCEPT ![c] = q]
    BY <1>0, <1>2 DEF ConnQueued, Select
  <2>2. \A x \in Actions : Precondition(x, conn[c], bound[c]) => x \in q \cup m
    BY <1>0, <2>1 DEF ConnQueued
  <2>3. q \in SUBSET Actions /\ m \in SUBSET {"read_ready", "write_ready"}
    BY <1>0
  <2> HIDE DEF q, m
  <2> QED BY <1>0, <2>1, <2>2, <2>3, QueuesChange
<1> QED BY <1>1, <1>2

LEMMA InputsQueue ==
    ASSUME IInv, QInv, NEW c \in Ends, ConnInput(c)
    PROVE  QInv'
<1>0. /\ QueuedTypes /\ ConnQueued(conn[c], sched[c], armed[c], bound[c]) /\ conn[c] \in Members
      /\ sched[c] \in SUBSET Actions /\ armed[c] \in SUBSET {"read_ready", "write_ready"}
      /\ bound[c] \in SUBSET Outputs /\ Outputs \subseteq Actions
  BY DEF QInv, QueuedTypes, Actions
<1>1. CASE InitInput(c)
  <2>0. UNCHANGED <<armed, bound>> /\ conn[c].alive
    BY <1>1 DEF InitInput
  <2>1. ASSUME Handler(c, sched[c], conn[c]) PROVE QInv'
    BY <1>0, <2>0, <2>1, HandlerKeepsQueued
  <2>2. ASSUME NEW failed \in BOOLEAN,
               Handler(c, sched[c], [conn[c] EXCEPT !.fd = TRUE, !.errno = @ \/ failed])
        PROVE  QInv'
    <3> DEFINE r == [conn[c] EXCEPT !.fd = TRUE, !.errno = conn[c].errno \/ failed]
    <3>1. Handler(c, sched[c], r)
      BY <2>2
    <3>2. (conn[c].errno \/ failed) \in BOOLEAN
      BY <1>0 DEF Members
    <3>3. /\ r \in Members /\ r.alive = conn[c].alive /\ r.fd /\ (~r.errno => ~conn[c].errno)
          /\ r.sendState = conn[c].sendState /\ r.receiveState = conn[c].receiveState
      BY <1>0, <3>2 DEF Members
    <3> HIDE DEF r
    <3> QED BY <1>0, <2>0, <3>1, <3>3, HandlerKeepsQueued
  <2> QED BY <1>1, <2>1, <2>2 DEF InitInput
<1>2. ASSUME NEW n \in Sends[c], SendInput(c, n) PROVE QInv'
  <2>1. CASE ~conn[c].errno /\ conn[c].sendState = "SEND_WAIT"
    <3> DEFINE s == Bytes(taken[c], n)
               r == Send(conn[c], s, 0, "SCHEDULE_WRITE_READY")
    <3>1. Handler(c, sched[c], r) /\ UNCHANGED <<armed, bound>> /\ conn[c].alive
      BY <1>2, <2>1 DEF SendInput, Send
    <3>2. s \in Seq(Nat) /\ 0 \in Nat /\ "SCHEDULE_WRITE_READY" \in SendStates
      BY ConnectionAssumption, BytesType DEF IInv, StreamTypes, SendStates
    <3> HIDE DEF s
    <3>3. r \in Members
      BY <1>0, <3>2 DEF Members, Send
    <3>4. /\ r.fd = conn[c].fd /\ r.errno = conn[c].errno /\ r.alive = conn[c].alive
          /\ r.sendState = "SCHEDULE_WRITE_READY" /\ r.receiveState = conn[c].receiveState
      BY <1>0 DEF Members, Send
    <3> HIDE DEF r
    <3> QED BY <1>0, <3>1, <3>3, <3>4, HandlerKeepsQueued
  <2>2. CASE ~(~conn[c].errno /\ conn[c].sendState = "SEND_WAIT")
    <3>1. Handler(c, sched[c], conn[c]) /\ UNCHANGED <<armed, bound>> /\ conn[c].alive
      BY <1>2, <2>2 DEF SendInput
    <3> QED BY <1>0, <3>1, HandlerKeepsQueued
  <2> QED BY <2>1, <2>2
<1>3. ASSUME NEW o \in Uses[c], Bind(c, o) \/ Unbind(c, o) PROVE QInv'
  <2>1. o \in Outputs
    BY ConnectionAssumption DEF Outputs
  <2>2. conn[c].alive
    BY <1>0, <1>3 DEF Bind, Unbind, ConnQueued
  <2> DEFINE b == bound'[c]
  <2>3. /\ bound' = [bound EXCEPT ![c] = b] /\ b \in SUBSET Outputs /\ b \subseteq bound[c] \cup {o}
        /\ sched' = [sched EXCEPT ![c] = sched[c] \cup {o}] /\ sched[c] \cup {o} \in SUBSET Actions
        /\ conn' = conn /\ armed' = [armed EXCEPT ![c] = armed[c]]
    BY <1>0, <1>3, <2>1 DEF Bind, Unbind, QueuedTypes
  <2> HIDE DEF b
  <2>4. ASSUME NEW a \in Actions, Precondition(a, conn[c], b)
        PROVE  a \in (sched[c] \cup {o}) \cup armed[c]
    <3>1. a = o \/ Precondition(a, conn[c], bound[c])
      BY <2>3, <2>4 DEF Precondition, Actions, Outputs
    <3> QED BY <1>0, <2>2, <3>1 DEF ConnQueued
  <2> QED BY <1>0, <2>2, <2>3, <2>4, QueuesChange
<1>4. CASE Destroy(c)
  <2> DEFINE r == [conn[c] EXCEPT !.alive = FALSE]
  <2>1. /\ conn' = [conn EXCEPT ![c] = r] /\ sched' = [sched EXCEPT ![c] = {}]
        /\ armed' = [armed EXCEPT ![c] = {}] /\ bound' = [bound EXCEPT ![c] = {}]
    BY <1>4 DEF Destroy
  <2>2. /\ r \in Members /\ ~r.alive /\ r.fd = conn[c].fd
        /\ r.sendState = conn[c].sendState /\ r.receiveState = conn[c].receiveState
    BY <1>0 DEF Members
  <2> HIDE DEF r
  <2>3. QueuedTypes'
    BY <1>0, <2>1, <2>2 DEF QueuedTypes
  <2>4. ConnQueued(r, {}, {}, {})
    BY <1>0, <2>2 DEF ConnQueued
  <2>5. ASSUME NEW d \in Ends PROVE ConnQueued(conn'[d], sched'[d], armed'[d], bound'[d])
    <3>1. CASE d = c
      BY <1>0, <2>1, <2>4, <3>1 DEF QueuedTypes
    <3>2. CASE d # c
      BY <1>0, <2>1, <3>2 DEF QueuedTypes, QInv
    <3> QED BY <3>1, <3>2
  <2> QED BY <2>3, <2>5 DEF QInv
<1>5. ASSUME NEW a \in {"read_ready", "write_ready"}, Select(c, a) PROVE QInv'
  BY <1>5, SchedulerQueues
<1> QED BY <1>1, <1>2, <1>3, <1>4, <1>5 DEF ConnInput

LEMMA HandlersQueue ==
    ASSUME IInv, QInv, NEW c \in Ends,
           \/ ScheduleWrite(c) \/ SendComplete(c) \/ ScheduleRead(c)
           \/ Read(c) \/ Receive(c) \/ Connected(c) \/ Error(c)
           \/ \E n \in 1..Capacity : Write(c, n)
           \/ \E a \in {"read_ready", "write_ready"} : Fail(c, a)
    PROVE  QInv'
<1>0. /\ conn[c] \in Members /\ sched[c] \in SUBSET Actions
      /\ armed[c] \in SUBSET {"read_ready", "write_ready"} /\ pipe[c] \in Seq(Nat)
      /\ ConnQueued(conn[c], sched[c], armed[c], bound[c]) /\ {"read_ready", "write_ready"} \subseteq Actions
      /\ bound' = bound
  BY DEF QInv, QueuedTypes, IInv, StreamTypes, Actions, ScheduleWrite, SendComplete, ScheduleRead,
     Read, Receive, Connected, Error, Write, Fail
<1>1. CASE ScheduleWrite(c)
  <2> DEFINE r == [conn[c] EXCEPT !.sendState = "WRITE_READY_WAIT"]
             q == sched[c] \ {"schedule_write"}
             m == armed[c] \cup {"write_ready"}
  <2>1. /\ Handler(c, q, r) /\ Runs(c, "schedule_write")
        /\ armed' = [armed EXCEPT ![c] = m]
    BY <1>1 DEF ScheduleWrite
  <2>2. /\ r \in Members /\ r.alive = conn[c].alive /\ r.errno = conn[c].errno
        /\ r.fd = conn[c].fd /\ r.receiveState = conn[c].receiveState
    BY <1>0 DEF Members, SendStates
  <2> HIDE DEF r
  <2>3. conn[c].alive /\ conn[c].fd
    BY <2>1, RunsMeans, PreconditionMeans
  <2>4. r.receiveState = "READ_READY_WAIT" => r.fd /\ (~r.errno => "read_ready" \in q \cup m)
    BY <1>0, <2>2, <2>3, PreconditionMeans DEF ConnQueued
  <2>5. /\ q \in SUBSET Actions /\ m \in SUBSET {"read_ready", "write_ready"}
        /\ "write_ready" \in q \cup m
    BY <1>0
  <2> HIDE DEF q, m
  <2>6. r.alive /\ bound' = bound
    BY <1>0, <2>2, <2>3
  <2>7. r.sendState = "WRITE_READY_WAIT" => r.fd /\ (~r.errno => "write_ready" \in q \cup m)
    BY <2>2, <2>3, <2>5
  <2> QED BY <2>1, <2>2, <2>4, <2>5, <2>6, <2>7, HandlerQueues
<1>2. CASE ScheduleRead(c)
  <2> DEFINE r == [conn[c] EXCEPT !.receiveState = "READ_READY_WAIT"]
             q == sched[c] \ {"schedule_read"}
             m == armed[c] \cup {"read_ready"}
  <2>1. /\ Handler(c, q, r) /\ Runs(c, "schedule_read")
        /\ armed' = [armed EXCEPT ![c] = m]
    BY <1>2 DEF ScheduleRead
  <2>2. /\ r \in Members /\ r.alive = conn[c].alive /\ r.errno = conn[c].errno
        /\ r.fd = conn[c].fd /\ r.sendState = conn[c].sendState
    BY <1>0 DEF Members, ReceiveStates
  <2> HIDE DEF r
  <2>3. conn[c].alive /\ conn[c].fd
    BY <2>1, RunsMeans, PreconditionMeans
  <2>4. r.sendState = "WRITE_READY_WAIT" => r.fd /\ (~r.errno => "write_ready" \in q \cup m)
    BY <1>0, <2>2, <2>3, PreconditionMeans DEF ConnQueued
  <2>5. /\ q \in SUBSET Actions /\ m \in SUBSET {"read_ready", "write_ready"}
        /\ "read_ready" \in q \cup m
    BY <1>0
  <2> HIDE DEF q, m
  <2>6. r.alive /\ bound' = bound
    BY <1>0, <2>2, <2>3
  <2>7. r.receiveState = "READ_READY_WAIT" => r.fd /\ (~r.errno => "read_ready" \in q \cup m)
    BY <2>2, <2>3, <2>5
  <2> QED BY <2>1, <2>2, <2>4, <2>5, <2>6, <2>7, HandlerQueues
<1>3. ASSUME NEW a \in Actions, Runs(c, a), NEW r \in Members, Handler(c, sched[c] \ {a}, r),
             armed' = armed, r.alive = conn[c].alive, r.fd = conn[c].fd, ~r.errno => ~conn[c].errno,
             r.sendState = "WRITE_READY_WAIT" =>
                conn[c].sendState = "WRITE_READY_WAIT" /\ (a # "write_ready" \/ r.errno),
             r.receiveState = "READ_READY_WAIT" =>
                conn[c].receiveState = "READ_READY_WAIT" /\ (a # "read_ready" \/ r.errno)
      PROVE  QInv'
  <2>1. conn[c].alive
    BY <1>3, RunsMeans
  <2>2. sched[c] \ {a} \in SUBSET Actions
    BY <1>0
  <2>3. bound' = bound /\ r.alive
    BY <1>0, <1>3, <2>1
  <2>4. sched[c] \ {a} \subseteq sched[c] \ {a}
    OBVIOUS
  <2> QED BY <1>3, <2>1, <2>2, <2>3, <2>4, HandlerKeepsQueued
<1>4. CASE SendComplete(c)
  <2> DEFINE r == [conn[c] EXCEPT !.sendState = "SEND_WAIT"]
  <2>1. Handler(c, sched[c] \ {"send_complete"}, r) /\ Runs(c, "send_complete") /\ armed' = armed
    BY <1>4 DEF SendComplete
  <2>2. /\ r \in Members /\ r.alive = conn[c].alive /\ r.errno = conn[c].errno /\ r.fd = conn[c].fd
        /\ r.sendState = "SEND_WAIT" /\ r.receiveState = conn[c].receiveState
    BY <1>0 DEF Members, SendStates
  <2> HIDE DEF r
  <2> QED BY <1>3, <2>1, <2>2 DEF Actions, Outputs
<1>5. CASE Read(c)
  <2> DEFINE r == Hold(conn[c], pipe[c], "RECEIVE_READY")
  <2>1. Handler(c, sched[c] \ {"read_ready"}, r) /\ Runs(c, "read_ready") /\ armed' = armed
    BY <1>5 DEF Read, Hold
  <2>2. /\ r \in Members /\ r.alive = conn[c].alive /\ r.errno = conn[c].errno /\ r.fd = conn[c].fd
        /\ r.sendState = conn[c].sendState /\ r.receiveState = "RECEIVE_READY"
    BY <1>0 DEF Members, ReceiveStates, Hold
  <2> HIDE DEF r
  <2> QED BY <1>0, <1>3, <2>1, <2>2
<1>6. CASE Receive(c)
  <2> DEFINE r == [conn[c] EXCEPT !.receiveState = "SCHEDULE_READ_READY"]
  <2>1. Handler(c, sched[c] \ {"receive"}, r) /\ Runs(c, "receive") /\ armed' = armed
    BY <1>6 DEF Receive
  <2>2. /\ r \in Members /\ r.alive = conn[c].alive /\ r.errno = conn[c].errno /\ r.fd = conn[c].fd
        /\ r.sendState = conn[c].sendState /\ r.receiveState = "SCHEDULE_READ_READY"
    BY <1>0 DEF Members, ReceiveStates
  <2> HIDE DEF r
  <2> QED BY <1>3, <2>1, <2>2 DEF Actions, Outputs
<1>7. CASE Connected(c)
  <2> DEFINE r == [conn[c] EXCEPT !.connectedReported = TRUE]
  <2>1. Handler(c, sched[c] \ {"connected"}, r) /\ Runs(c, "connected") /\ armed' = armed
    BY <1>7 DEF Connected
  <2>2. /\ r \in Members /\ r.alive = conn[c].alive /\ r.errno = conn[c].errno /\ r.fd = conn[c].fd
        /\ r.sendState = conn[c].sendState /\ r.receiveState = conn[c].receiveState
    BY <1>0 DEF Members
  <2> HIDE DEF r
  <2> QED BY <1>3, <2>1, <2>2 DEF Actions, Outputs
<1>8. CASE Error(c)
  <2> DEFINE r == [conn[c] EXCEPT !.errorReported = TRUE]
  <2>1. Handler(c, sched[c] \ {"error"}, r) /\ Runs(c, "error") /\ armed' = armed
    BY <1>8 DEF Error
  <2>2. /\ r \in Members /\ r.alive = conn[c].alive /\ r.errno = conn[c].errno /\ r.fd = conn[c].fd
        /\ r.sendState = conn[c].sendState /\ r.receiveState = conn[c].receiveState
    BY <1>0 DEF Members
  <2> HIDE DEF r
  <2> QED BY <1>3, <2>1, <2>2 DEF Actions, Outputs
<1>9. ASSUME NEW n \in 1..Capacity, Write(c, n) PROVE QInv'
  <2> DEFINE total == conn[c].bytesWritten + n
             next == IF total = Len(conn[c].sendBuffer)
                     THEN "SEND_COMPLETE_READY" ELSE "SCHEDULE_WRITE_READY"
             r == Wrote(conn[c], total, next)
  <2>1. Handler(c, sched[c] \ {"write_ready"}, r) /\ Runs(c, "write_ready") /\ armed' = armed
    BY <1>9 DEF Write, Wrote
  <2>2. total \in Nat
    BY <1>0, ConnectionAssumption DEF Members
  <2>3. next \in SendStates /\ next # "WRITE_READY_WAIT"
    BY DEF SendStates
  <2> HIDE DEF total, next
  <2>4. /\ r \in Members /\ r.alive = conn[c].alive /\ r.errno = conn[c].errno /\ r.fd = conn[c].fd
        /\ r.sendState = next /\ r.receiveState = conn[c].receiveState
    BY <1>0, <2>2, <2>3 DEF Members, Wrote
  <2> HIDE DEF r
  <2> QED BY <1>0, <1>3, <2>1, <2>3, <2>4
<1>10. ASSUME NEW a \in {"read_ready", "write_ready"}, Fail(c, a) PROVE QInv'
  <2> DEFINE r == [conn[c] EXCEPT !.errno = TRUE]
  <2>1. Handler(c, sched[c] \ {a}, r) /\ Runs(c, a) /\ armed' = armed
    BY <1>10 DEF Fail
  <2>2. /\ r \in Members /\ r.alive = conn[c].alive /\ r.errno /\ r.fd = conn[c].fd
        /\ r.sendState = conn[c].sendState /\ r.receiveState = conn[c].receiveState
    BY <1>0 DEF Members
  <2> HIDE DEF r
  <2> QED BY <1>0, <1>3, <2>1, <2>2
<1> QED BY <1>1, <1>2, <1>4, <1>5, <1>6, <1>7, <1>8, <1>9, <1>10

LEMMA QueuedInit == ConnInit => QInv
<1> SUFFICES ASSUME ConnInit PROVE QInv
  OBVIOUS
<1>1. /\ NewConnection \in Members /\ ~NewConnection.fd /\ ~NewConnection.errno
      /\ NewConnection.sendState = "SEND_WAIT" /\ NewConnection.receiveState = "SCHEDULE_READ_READY"
      /\ NewConnection.alive
  BY DEF NewConnection, Members, SendStates, ReceiveStates
<1>2. ConnQueued(NewConnection, {}, {}, {})
  BY <1>1 DEF ConnQueued, Precondition, Actions, Outputs
<1> QED BY <1>1, <1>2 DEF ConnInit, QInv, QueuedTypes

LEMMA NextQueues ==
    ASSUME IInv, QInv, [ConnSteps \/ ConnInputs]_connVars
    PROVE  QInv'
<1>1. ASSUME NEW c \in Ends, ConnStep(c)
      PROVE  QInv'
  BY <1>1, SchedulerQueues, HandlersQueue DEF ConnStep, Ready
<1>2. CASE UNCHANGED connVars
  BY <1>2 DEF connVars, QInv, QueuedTypes
<1> QED BY <1>1, <1>2, InputsQueue DEF ConnSteps, ConnInputs

\* An action of a connection that is enabled is always queued or registered for the
\* descriptor (schedule and the handlers of lib/tcp_connection_automaton.cpp), in
\* whatever order its users bind, unbind, send and destroy.
THEOREM ConnectionNeverForgets == ConnSpec => []ConnEnabledScheduled
<1>1. ConnInit => IInv /\ QInv
  BY InitHolds, QueuedInit
<1>2. IInv /\ QInv /\ [ConnSteps \/ ConnInputs]_connVars => (IInv /\ QInv)'
  BY NextKeeps, NextQueues
<1>3. QInv => ConnEnabledScheduled
  BY DEF QInv, ConnQueued, ConnEnabledScheduled
<1> QED BY <1>1, <1>2, <1>3, PTL DEF ConnSpec
-----------------------------------------------------------------------------
(* Every byte is one of those that were taken. *)

Within(r) ==
    /\ r.sendBuffer \in Seq(1..MaxBytes) /\ Len(r.sendBuffer) <= MaxBytes
    /\ r.bytesWritten <= Len(r.sendBuffer)
    /\ r.receiveBuffer \in Seq(1..MaxBytes)

\* How many bytes c has got so far: its user has some, it holds some, the rest is in the kernel.
Arrived(c) == got[c] + Held(c) + Len(pipe[c])

WInv ==
    /\ \A c \in Ends : Within(conn[c]) /\ taken[c] <= MaxBytes /\ Arrived(c) <= MaxBytes
    /\ unbinds \in 0..MaxUnbinds

LEMMA BytesWithin ==
    ASSUME NEW n \in Nat, NEW k \in Nat, n + k <= MaxBytes
    PROVE  Bytes(n, k) \in Seq(1..MaxBytes)
<1>1. MaxBytes \in Nat
  BY ConnectionAssumption
<1>2. \A i \in 1..k : n + i \in 1..MaxBytes
  BY <1>1
<1> QED BY <1>2 DEF Bytes

\* What arrived at c while it lives was taken at the other end.
LEMMA ArrivedWasTaken ==
    ASSUME IInv', NEW c \in Ends, conn'[c].alive, \A d \in Ends : taken'[d] <= MaxBytes
    PROVE  Arrived(c)' <= MaxBytes
<1> DEFINE p == Peer(c)
           x == Left(p)'
           h == Held(c)'
           g == got'[c]
           q == Len(pipe'[c])
           m == taken'[p]
<1>1. p \in Ends
  BY TwoEnds
<1>2. StreamTypes' /\ SendsLast(p)' /\ AddsUp(c)'
  BY <1>1 DEF IInv
<1>3. conn'[p] \in Members /\ conn'[c] \in Members /\ g \in Nat /\ q \in Nat /\ m \in Nat
  BY <1>1, <1>2 DEF StreamTypes
<1>4. x \in Nat
  BY <1>2, <1>3 DEF Members, Left, SendsLast, Sending
<1>5. h \in Nat
  BY <1>3 DEF Members, Held
<1>6. g + h + q + x = m
  BY <1>2 DEF AddsUp
<1>7. m <= MaxBytes
  BY <1>1
<1>8. Arrived(c)' = g + h + q
  BY DEF Arrived
<1>9. MaxBytes \in Nat
  BY ConnectionAssumption
<1> HIDE DEF p, x, h, g, q, m
<1>10. g + h + q <= MaxBytes
  BY <1>3, <1>4, <1>5, <1>6, <1>7, <1>9
<1> QED BY <1>8, <1>10

LEMMA WithinStays ==
    ASSUME IInv', WInv, unbinds' \in 0..MaxUnbinds,
           \A d \in Ends : /\ Within(conn'[d]) /\ taken'[d] <= MaxBytes
                           /\ conn'[d].alive \/ Arrived(d)' = Arrived(d)
    PROVE  WInv'
<1>1. ASSUME NEW d \in Ends PROVE Arrived(d)' <= MaxBytes
  <2>1. CASE conn'[d].alive
    BY <2>1, ArrivedWasTaken
  <2> QED BY <2>1 DEF WInv
<1> QED BY <1>1 DEF WInv

LEMMA QuietWithin ==
    ASSUME IInv', WInv, MovesNoByte, unbinds' \in 0..MaxUnbinds
    PROVE  WInv'
<1>1. ASSUME NEW d \in Ends PROVE Within(conn'[d]) /\ taken'[d] <= MaxBytes
  BY DEF WInv, MovesNoByte, Quiet, Within
<1>2. ASSUME NEW d \in Ends PROVE Arrived(d)' = Arrived(d)
  BY QuietMeans DEF MovesNoByte, Arrived
<1> QED BY <1>1, <1>2, WithinStays

LEMMA SendInputWithin ==
    ASSUME IInv, IInv', WInv, NEW c \in Ends, NEW n \in Sends[c], SendInput(c, n)
    PROVE  WInv'
<1>0. n \in Nat /\ conn \in [Ends -> Members] /\ conn[c] \in Members /\ taken \in [Ends -> Nat]
      /\ unbinds' = unbinds /\ MaxBytes \in Nat
  BY ConnectionAssumption DEF IInv, StreamTypes, SendInput
<1>1. CASE ~conn[c].errno /\ conn[c].sendState = "SEND_WAIT"
  <2> DEFINE b == Bytes(taken[c], n)
             r == [conn[c] EXCEPT !.sendBuffer = b, !.bytesWritten = 0,
                                  !.sendState = "SCHEDULE_WRITE_READY"]
  <2>1. b \in Seq(1..MaxBytes) /\ Len(b) = n /\ taken[c] + n <= MaxBytes /\ taken[c] \in Nat
    BY <1>0, BytesType, BytesWithin DEF SendInput
  <2>2. conn' = [conn EXCEPT ![c] = r] /\ taken' = [taken EXCEPT ![c] = taken[c] + n]
        /\ pipe' = pipe /\ got' = got
    BY <1>1 DEF SendInput, Handler
  <2> HIDE DEF b
  <2>3. /\ r.sendBuffer = b /\ r.bytesWritten = 0 /\ r.receiveBuffer = conn[c].receiveBuffer
        /\ r.receiveState = conn[c].receiveState
    BY <1>0 DEF Members
  <2> HIDE DEF r
  <2>4. Within(r)
    <3>1. Within(conn[c])
      BY DEF WInv
    <3>2. Len(r.sendBuffer) = n /\ n <= MaxBytes
      BY <1>0, <2>1, <2>3
    <3> QED BY <1>0, <2>1, <2>3, <3>1, <3>2 DEF Within
  <2>5. ASSUME NEW d \in Ends
        PROVE  /\ conn'[d] = IF d = c THEN r ELSE conn[d]
               /\ taken'[d] = IF d = c THEN taken[c] + n ELSE taken[d]
    BY <1>0, <2>2
  <2>6. ASSUME NEW d \in Ends
        PROVE  Within(conn'[d]) /\ taken'[d] <= MaxBytes /\ Arrived(d)' = Arrived(d)
    <3>1. Within(conn'[d]) /\ taken'[d] <= MaxBytes
      BY <2>1, <2>4, <2>5 DEF WInv
    <3>2. conn'[d].receiveState = conn[d].receiveState /\ conn'[d].receiveBuffer = conn[d].receiveBuffer
      BY <2>3, <2>5
    <3> QED BY <2>2, <3>1, <3>2 DEF Arrived, Held, Holding
  <2> QED BY <1>0, <2>6, WithinStays DEF WInv
<1>2. CASE ~(~conn[c].errno /\ conn[c].sendState = "SEND_WAIT")
  <2>1. Handler(c, sched[c], conn[c]) /\ UNCHANGED <<pipe, taken, got>>
    BY <1>2 DEF SendInput
  <2>2. Quiet(conn[c], conn[c])
    BY <1>0 DEF Quiet
  <2>3. unbinds' \in 0..MaxUnbinds
    BY <1>0 DEF WInv
  <2> QED BY <2>1, <2>2, <2>3, MembersQuietHandler, QuietWithin
<1> QED BY <1>1, <1>2

LEMMA WriteWithin ==
    ASSUME IInv, IInv', WInv, NEW c \in Ends, NEW n \in 1..Capacity, Write(c, n)
    PROVE  WInv'
<1> DEFINE b == conn[c].sendBuffer
           w == conn[c].bytesWritten
           s == IF w + n = Len(b) THEN "SEND_COMPLETE_READY" ELSE "SCHEDULE_WRITE_READY"
           r == [conn[c] EXCEPT !.bytesWritten = w + n, !.sendState = s]
<1>0. /\ n \in Nat /\ conn \in [Ends -> Members] /\ conn[c] \in Members /\ Within(conn[c])
      /\ unbinds' = unbinds /\ taken' = taken /\ got' = got /\ pipe \in [Ends -> Seq(Nat)]
  <2>1. Capacity \in Nat
    BY ConnectionAssumption
  <2>2. n \in Nat
    BY <2>1
  <2> QED BY <2>2 DEF IInv, StreamTypes, Write, WInv
<1>1. conn' = [conn EXCEPT ![c] = r]
  BY DEF Write, Handler
<1>2. b \in Seq(Nat) /\ Len(b) \in Nat /\ w \in Nat /\ w <= Len(b)
  BY <1>0 DEF Members, Within
<1>3. w + n <= Len(b)
  <2>1. n <= Len(SubSeq(b, w + 1, Len(b)))
    BY DEF Write, Unwritten
  <2> HIDE DEF b, w
  <2>2. Len(SubSeq(b, w + 1, Len(b))) = Len(b) - w
    BY <1>2, SubSeqProperties
  <2> QED BY <1>0, <1>2, <2>1, <2>2
<1>4. /\ r.sendBuffer = b /\ r.bytesWritten = w + n /\ r.receiveBuffer = conn[c].receiveBuffer
      /\ r.receiveState = conn[c].receiveState /\ r.alive = conn[c].alive
  <2> HIDE DEF s, w
  <2> QED BY <1>0 DEF Members
<1> HIDE DEF r, w, s
<1>5. Within(r)
  BY <1>0, <1>3, <1>4 DEF Within
<1>6. ASSUME NEW d \in Ends
      PROVE  conn'[d] = IF d = c THEN r ELSE conn[d]
  BY <1>0, <1>1
<1>7. ASSUME NEW d \in Ends PROVE Within(conn'[d]) /\ taken'[d] <= MaxBytes
  BY <1>0, <1>5, <1>6 DEF WInv
<1>8. ASSUME NEW d \in Ends, ~conn'[d].alive PROVE Arrived(d)' = Arrived(d)
  <2>1. conn'[d].receiveState = conn[d].receiveState /\ conn'[d].receiveBuffer = conn[d].receiveBuffer
        /\ conn'[d].alive = conn[d].alive
    BY <1>4, <1>6
  <2>2. pipe'[d] = pipe[d]
    BY <1>0, <1>8, <2>1 DEF Write
  <2> QED BY <1>0, <2>1, <2>2 DEF Arrived, Held, Holding
<1> QED BY <1>0, <1>7, <1>8, WithinStays DEF WInv

LEMMA ReadWithin ==
    ASSUME IInv, IInv', WInv, NEW c \in Ends, Read(c)
    PROVE  WInv'
<1> DEFINE r == [conn[c] EXCEPT !.receiveBuffer = pipe[c], !.receiveState = "RECEIVE_READY"]
<1>0. /\ conn \in [Ends -> Members] /\ conn[c] \in Members /\ Within(conn[c])
      /\ unbinds' = unbinds /\ taken' = taken /\ got' = got /\ pipe \in [Ends -> Seq(Nat)]
      /\ pipe[c] \in Seq(Nat) /\ got[c] \in Nat
  BY DEF IInv, StreamTypes, Read, WInv
<1>1. conn' = [conn EXCEPT ![c] = r] /\ pipe' = [pipe EXCEPT ![c] = <<>>]
  BY DEF Read, Handler
<1>2. /\ r.sendBuffer = conn[c].sendBuffer /\ r.bytesWritten = conn[c].bytesWritten
      /\ r.receiveBuffer = pipe[c] /\ r.receiveState = "RECEIVE_READY"
  BY <1>0 DEF Members
<1>3. Held(c) = 0
  BY DEF Read, Runs, Precondition, Held, Holding
<1> HIDE DEF r
<1>4. pipe[c] \in Seq(1..MaxBytes)
  <2>1. pipe[c] = Bytes(got[c] + 0, Len(pipe[c])) /\ got[c] + 0 + Len(pipe[c]) <= MaxBytes
    BY <1>3 DEF IInv, HoldsNext, WInv, Arrived
  <2>2. Len(pipe[c]) \in Nat
    BY <1>0
  <2> QED BY <1>0, <2>1, <2>2, BytesWithin
<1>5. Within(r)
  BY <1>0, <1>2, <1>4 DEF Within
<1>6. ASSUME NEW d \in Ends
      PROVE  /\ conn'[d] = IF d = c THEN r ELSE conn[d]
             /\ pipe'[d] = IF d = c THEN <<>> ELSE pipe[d]
  BY <1>0, <1>1
<1>7. ASSUME NEW d \in Ends PROVE Within(conn'[d]) /\ taken'[d] <= MaxBytes
  BY <1>0, <1>5, <1>6 DEF WInv
<1>8. ASSUME NEW d \in Ends PROVE Arrived(d)' = Arrived(d)
  <2>1. CASE d = c
    <3>1. Held(c)' = Len(pipe[c]) /\ Len(pipe'[c]) = 0 /\ Len(pipe[c]) \in Nat
      BY <1>0, <1>2, <1>6 DEF Held, Holding
    <3> QED BY <1>0, <1>3, <2>1, <3>1 DEF Arrived
  <2>2. CASE d # c
    BY <1>0, <1>6, <2>2 DEF Arrived, Held, Holding
  <2> QED BY <2>1, <2>2
<1> QED BY <1>0, <1>7, <1>8, WithinStays DEF WInv

LEMMA ReceiveWithin ==
    ASSUME IInv, IInv', WInv, NEW c \in Ends, Receive(c)
    PROVE  WInv'
<1> DEFINE r == [conn[c] EXCEPT !.receiveState = "SCHEDULE_READ_READY"]
           k == Len(conn[c].receiveBuffer)
<1>0. /\ conn \in [Ends -> Members] /\ conn[c] \in Members /\ Within(conn[c])
      /\ unbinds' = unbinds /\ taken' = taken /\ pipe' = pipe /\ pipe \in [Ends -> Seq(Nat)]
      /\ got \in [Ends -> Nat] /\ got[c] \in Nat
  BY DEF IInv, StreamTypes, Receive, WInv
<1>1. conn' = [conn EXCEPT ![c] = r] /\ got' = [got EXCEPT ![c] = got[c] + k]
  BY DEF Receive, Handler
<1>2. /\ r.sendBuffer = conn[c].sendBuffer /\ r.bytesWritten = conn[c].bytesWritten
      /\ r.receiveBuffer = conn[c].receiveBuffer /\ r.receiveState = "SCHEDULE_READ_READY"
  BY <1>0 DEF Members
<1>3. Held(c) = k /\ k \in Nat
  BY <1>0 DEF Receive, Runs, Precondition, Held, Holding, Members
<1> HIDE DEF r, k
<1>5. Within(r)
  BY <1>0, <1>2 DEF Within
<1>6. ASSUME NEW d \in Ends
      PROVE  /\ conn'[d] = IF d = c THEN r ELSE conn[d]
             /\ got'[d] = IF d = c THEN got[c] + k ELSE got[d]
  BY <1>0, <1>1
<1>7. ASSUME NEW d \in Ends PROVE Within(conn'[d]) /\ taken'[d] <= MaxBytes
  BY <1>0, <1>5, <1>6 DEF WInv
<1>8. ASSUME NEW d \in Ends PROVE Arrived(d)' = Arrived(d)
  <2>1. CASE d = c
    <3>1. Held(c)' = 0 /\ Len(pipe[c]) \in Nat /\ got'[c] = got[c] + k
      BY <1>0, <1>2, <1>6 DEF Held, Holding
    <3> QED BY <1>0, <1>3, <2>1, <3>1 DEF Arrived
  <2>2. CASE d # c
    BY <1>0, <1>6, <2>2 DEF Arrived, Held, Holding
  <2> QED BY <2>1, <2>2
<1> QED BY <1>0, <1>7, <1>8, WithinStays DEF WInv

LEMMA InitWithin == ConnInit => WInv
<1> SUFFICES ASSUME ConnInit PROVE WInv
  OBVIOUS
<1>0. MaxBytes \in Nat /\ MaxUnbinds \in Nat
  BY ConnectionAssumption
<1>1. Within(NewConnection)
  <2>1. /\ NewConnection.sendBuffer = <<>> /\ NewConnection.bytesWritten = 0
        /\ NewConnection.receiveBuffer = <<>>
    BY DEF NewConnection
  <2>2. <<>> \in Seq(1..MaxBytes) /\ Len(<<>>) = 0
    BY EmptySeq
  <2> QED BY <1>0, <2>1, <2>2 DEF Within
<1>2. ASSUME NEW c \in Ends PROVE conn[c] = NewConnection /\ taken[c] = 0 /\ Arrived(c) = 0
  <2>1. conn[c] = NewConnection /\ taken[c] = 0 /\ got[c] = 0 /\ pipe[c] = <<>>
    BY DEF ConnInit
  <2> QED BY <2>1 DEF NewConnection, Arrived, Held, Holding
<1>3. unbinds = 0
  BY DEF ConnInit
<1> QED BY <1>0, <1>1, <1>2, <1>3 DEF WInv

LEMMA NextWithin ==
    ASSUME IInv, WInv, [ConnSteps \/ ConnInputs]_connVars
    PROVE  WInv'
<1>0. IInv'
  BY NextKeeps
<1>1. unbinds \in 0..MaxUnbinds /\ MaxUnbinds \in Nat
  BY ConnectionAssumption DEF WInv
<1>2. ASSUME NEW c \in Ends, ConnStep(c)
      PROVE  WInv'
  <2>1. unbinds' = unbinds
    BY <1>2 DEF ConnStep, RunDisabled, ScheduleWrite, SendComplete, ScheduleRead, Read, Receive,
       Connected, Error, Write, Ready, Select, Fail
  <2>2. ASSUME MovesNoByte PROVE WInv'
    BY <1>0, <1>1, <2>1, <2>2, QuietWithin
  <2>3. ASSUME NEW a \in {"read_ready", "write_ready"}, Ready(c, a) PROVE MovesNoByte
    BY <2>3, UnchangedQuiet DEF Ready, Select
  <2>4. CASE RunDisabled(c)
    BY <2>2, <2>4, UnchangedQuiet DEF RunDisabled
  <2> QED BY <1>0, <1>2, <2>2, <2>3, <2>4, QuietSteps, WriteWithin, ReadWithin, ReceiveWithin DEF ConnStep
<1>3. ASSUME NEW c \in Ends, ConnInput(c)
      PROVE  WInv'
  <2>1. ASSUME NEW o, Bind(c, o) \/ Unbind(c, o) PROVE WInv'
    <3>1. MovesNoByte
      BY <2>1, UnchangedQuiet DEF Bind, Unbind
    <3>2. unbinds' \in 0..MaxUnbinds
      BY <1>1, <2>1 DEF Bind, Unbind
    <3> QED BY <1>0, <3>1, <3>2, QuietWithin
  <2>2. CASE InitInput(c) \/ Destroy(c)
    <3>1. unbinds' = unbinds
      BY <2>2 DEF InitInput, Destroy
    <3>2. MovesNoByte
      BY <2>2, QuietSteps, DestroyQuiet
    <3> QED BY <1>0, <1>1, <3>1, <3>2, QuietWithin
  <2>3. ASSUME NEW a, Select(c, a) PROVE WInv'
    <3>1. MovesNoByte /\ unbinds' = unbinds
      BY <2>3, UnchangedQuiet DEF Select
    <3> QED BY <1>0, <1>1, <3>1, QuietWithin
  <2> QED BY <1>0, <1>3, <2>1, <2>2, <2>3, SendInputWithin DEF ConnInput
<1>4. CASE UNCHANGED connVars
  <2>1. unbinds' = unbinds /\ MovesNoByte
    BY <1>4, UnchangedQuiet DEF connVars
  <2> QED BY <1>0, <1>1, <2>1, QuietWithin
<1> QED BY <1>2, <1>3, <1>4 DEF ConnSteps, ConnInputs

LEMMA ConnTypesFollow == IInv /\ QInv /\ WInv => ConnTypeOK
<1> SUFFICES ASSUME IInv, QInv, WInv PROVE ConnTypeOK
  OBVIOUS
<1>0. MaxBytes \in Nat
  BY ConnectionAssumption
<1>1. ASSUME NEW c \in Ends
      PROVE  /\ conn[c] \in Members /\ pipe[c] \in Seq(Nat) /\ taken[c] \in 0..MaxBytes /\ got[c] \in Nat
             /\ Len(pipe[c]) \in Nat /\ Held(c) \in Nat /\ Within(conn[c]) /\ Arrived(c) <= MaxBytes
  BY <1>0 DEF IInv, StreamTypes, WInv, Held, Members
<1>2. ASSUME NEW c \in Ends PROVE got[c] \in 0..MaxBytes /\ got[c] + Held(c) + Len(pipe[c]) <= MaxBytes
  BY <1>0, <1>1 DEF Arrived
<1>3. ASSUME NEW c \in Ends PROVE pipe[c] \in Seq(1..MaxBytes)
  <2> DEFINE n == got[c] + Held(c)
  <2>1. pipe[c] = Bytes(n, Len(pipe[c]))
    BY DEF IInv, HoldsNext
  <2>2. n \in Nat /\ n + Len(pipe[c]) <= MaxBytes
    BY <1>1, <1>2
  <2> HIDE DEF n
  <2> QED BY <1>1, <2>1, <2>2, BytesWithin
<1>4. ASSUME NEW c \in Ends PROVE conn[c].bytesWritten \in 0..MaxBytes
  BY <1>0, <1>1 DEF Members, Within
<1>5. ASSUME NEW c \in Ends
      PROVE  conn[c] \in [alive : BOOLEAN, fd : BOOLEAN, errno : BOOLEAN,
                          connectedReported : BOOLEAN, errorReported : BOOLEAN,
                          sendState : SendStates, sendBuffer : Seq(1..MaxBytes),
                          bytesWritten : 0..MaxBytes,
                          receiveState : ReceiveStates,
                          receiveBuffer : Seq(1..MaxBytes)]
  BY <1>1, <1>4 DEF Members, Within
<1>6. conn \in [Ends -> Members] /\ pipe \in [Ends -> Seq(Nat)] /\ taken \in [Ends -> Nat]
      /\ got \in [Ends -> Nat]
  BY DEF IInv, StreamTypes
<1>7. pipe \in [Ends -> Seq(1..MaxBytes)] /\ taken \in [Ends -> 0..MaxBytes] /\ got \in [Ends -> 0..MaxBytes]
  BY <1>1, <1>2, <1>3, <1>6
<1>8. conn \in [Ends -> [alive : BOOLEAN, fd : BOOLEAN, errno : BOOLEAN,
                        connectedReported : BOOLEAN, errorReported : BOOLEAN,
                        sendState : SendStates, sendBuffer : Seq(1..MaxBytes),
                        bytesWritten : 0..MaxBytes,
                        receiveState : ReceiveStates,
                        receiveBuffer : Seq(1..MaxBytes)]]
  BY <1>5, <1>6
<1> QED BY <1>7, <1>8 DEF ConnTypeOK, QInv, QueuedTypes, WInv

\* The types of the two ends: the positions in their buffers and in the kernel are
\* those of bytes that were taken, and nobody gets more bytes than were taken.
THEOREM ConnectionTypes == ConnSpec => []ConnTypeOK
<1>1. ConnInit => IInv /\ QInv /\ WInv
  BY InitHolds, QueuedInit, InitWithin
<1>2. IInv /\ QInv /\ WInv /\ [ConnSteps \/ ConnInputs]_connVars => (IInv /\ QInv /\ WInv)'
  BY NextKeeps, NextQueues, NextWithin
<1> QED BY <1>1, <1>2, ConnTypesFollow, PTL DEF ConnSpec
=============================================================================
