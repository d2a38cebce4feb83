---------------------------- MODULE InputProofs -----------------------------
(***************************************************************************)
(* The ring buffer of scan codes implements the bounded queue, for every   *)
(* size of the buffer, whatever the interrupts and the consumers do.  The  *)
(* argument is about one window of the buffer: the n slots from tail on.   *)
(***************************************************************************)
EXTENDS InputProps, SequenceTheorems, TLAPS

Byte == 0..255

Index == 0 .. Size - 1

Window(b, t, n) == [i \in 1..n |-> b[(t + i - 1) % Size]]

Between(h, t) == IF t <= h THEN h - t ELSE h - t + Size

(***************************************************************************)
(* The inductive invariant: the cursors are indices of the buffer.         *)
(***************************************************************************)
RingOK == buf \in [Index -> Byte] /\ head \in Index /\ tail \in Index

-----------------------------------------------------------------------------
(***************************************************************************)
(* Arithmetic of the cursors: they advance by less than Size, so that %    *)
(* wraps them at most once.                                                *)
(***************************************************************************)
Wrap(a) == IF a < Size THEN a ELSE a - Size

LEMMA WrapOnce ==
  ASSUME NEW a \in 0 .. 2 * Size - 1
  PROVE  a % Size = Wrap(a) /\ Wrap(a) \in Index
<1>0. Size \in Nat /\ Size > 1 /\ a \in Nat /\ a <= 2 * Size - 1
  BY SizeAssumption
<1>1. Wrap(a) \in Index
  BY <1>0 DEF Wrap, Index
<1>2. CASE a < Size
  <2>1. a \in 0 .. Size - 1 /\ Wrap(a) = a
    BY <1>0, <1>2 DEF Wrap
  <2>2. a % Size = a
    BY <1>0, <2>1
  <2> QED BY <1>1, <2>1, <2>2
<1>3. CASE a >= Size
  <2> DEFINE r == a - Size
  <2>1. r \in 0 .. Size - 1 /\ a = r + Size /\ Wrap(a) = r
    BY <1>0, <1>3 DEF Wrap
  <2> HIDE DEF r
  <2>2. (r + Size) % Size = r
    BY <1>0, <2>1
  <2> QED BY <1>1, <2>1, <2>2
<1> QED BY <1>0, <1>1, <1>2, <1>3

(***************************************************************************)
(* Offsets below Size from one cursor reach different slots.               *)
(***************************************************************************)
LEMMA OffsetsDiffer ==
  ASSUME NEW t \in Index, NEW i \in Index, NEW j \in Index, i # j
  PROVE  (t + i) % Size # (t + j) % Size
<1>0. Size \in Nat /\ t \in Nat /\ i \in Nat /\ j \in Nat /\ t < Size /\ i < Size /\ j < Size
  BY SizeAssumption DEF Index
<1>1. t + i \in 0 .. 2 * Size - 1 /\ t + j \in 0 .. 2 * Size - 1
  BY <1>0
<1>2. (t + i) % Size = Wrap(t + i) /\ (t + j) % Size = Wrap(t + j)
  BY <1>1, WrapOnce
<1>3. Wrap(t + i) # Wrap(t + j)
  BY <1>0 DEF Wrap
<1> QED BY <1>2, <1>3

(***************************************************************************)
(* Two advances of a cursor that stay below Size together are one.         *)
(***************************************************************************)
LEMMA OffsetsAdd ==
  ASSUME NEW t \in Index, NEW n \in Nat, NEW k \in Nat, n + k < Size
  PROVE  (((t + n) % Size) + k) % Size = (t + n + k) % Size
<1>0. Size \in Nat /\ t \in Nat /\ t < Size
  BY SizeAssumption DEF Index
<1>1. t + n \in 0 .. 2 * Size - 1 /\ t + n + k \in 0 .. 2 * Size - 1
  BY <1>0
<1>2. (t + n) % Size = Wrap(t + n) /\ (t + n + k) % Size = Wrap(t + n + k)
  BY <1>1, WrapOnce
<1>3. Wrap(t + n) + k \in 0 .. 2 * Size - 1
  BY <1>0 DEF Wrap
<1>4. (Wrap(t + n) + k) % Size = Wrap(Wrap(t + n) + k)
  BY <1>3, WrapOnce
<1>5. Wrap(Wrap(t + n) + k) = Wrap(t + n + k)
  BY <1>0 DEF Wrap
<1> QED BY <1>2, <1>4, <1>5

(***************************************************************************)
(* The number of codes between the cursors.                                *)
(***************************************************************************)
LEMMA BetweenCursors ==
  ASSUME NEW h \in Index, NEW t \in Index
  PROVE  /\ Between(h, t) \in Index
         /\ Between(h, t) = 0 <=> h = t
         /\ (t + Between(h, t)) % Size = h
<1>0. Size \in Nat /\ h \in Nat /\ t \in Nat /\ h < Size /\ t < Size
  BY SizeAssumption DEF Index
<1>1. Between(h, t) \in Index
  BY <1>0 DEF Between, Index
<1>2. Between(h, t) = 0 <=> h = t
  BY <1>0 DEF Between
<1>3. t + Between(h, t) \in 0 .. 2 * Size - 1
  BY <1>0 DEF Between
<1>4. (t + Between(h, t)) % Size = Wrap(t + Between(h, t))
  BY <1>3, WrapOnce
<1>5. Wrap(t + Between(h, t)) = h
  BY <1>0 DEF Between, Wrap
<1> QED BY <1>1, <1>2, <1>4, <1>5

LEMMA OneMore ==
  ASSUME NEW h \in Index, NEW t \in Index
  PROVE  /\ (h + 1) % Size \in Index
         /\ (h + 1) % Size = t => Between(h, t) = Size - 1
         /\ (h + 1) % Size # t => /\ Between((h + 1) % Size, t) = Between(h, t) + 1
                                  /\ Between(h, t) < Size - 1
<1>0. Size \in Nat /\ Size > 1 /\ h \in Nat /\ t \in Nat /\ h < Size /\ t < Size
  BY SizeAssumption DEF Index
<1>1. h + 1 \in 0 .. 2 * Size - 1
  BY <1>0
<1>2. (h + 1) % Size = Wrap(h + 1) /\ Wrap(h + 1) \in Index
  BY <1>1, WrapOnce
<1>3. Wrap(h + 1) = t => Between(h, t) = Size - 1
  BY <1>0 DEF Wrap, Between
<1>4. Wrap(h + 1) # t => /\ Between(Wrap(h + 1), t) = Between(h, t) + 1
                         /\ Between(h, t) < Size - 1
  BY <1>0 DEF Wrap, Between
<1> QED BY <1>2, <1>3, <1>4

LEMMA SomeLess ==
  ASSUME NEW h \in Index, NEW t \in Index, NEW n \in 1 .. Between(h, t)
  PROVE  /\ (t + n) % Size \in Index
         /\ Between(h, (t + n) % Size) = Between(h, t) - n
<1>0. Size \in Nat /\ h \in Nat /\ t \in Nat /\ h < Size /\ t < Size
  BY SizeAssumption DEF Index
<1>1. n \in Nat /\ n <= Between(h, t) /\ n < Size
  BY <1>0 DEF Between
<1>2. t + n \in 0 .. 2 * Size - 1
  BY <1>0, <1>1
<1>3. (t + n) % Size = Wrap(t + n) /\ Wrap(t + n) \in Index
  BY <1>2, WrapOnce
<1>4. Between(h, Wrap(t + n)) = Between(h, t) - n
  BY <1>0, <1>1 DEF Wrap, Between
<1> QED BY <1>3, <1>4

-----------------------------------------------------------------------------
(***************************************************************************)
(* Windows of the buffer.                                                  *)
(***************************************************************************)
LEMMA WindowIsSeq ==
  ASSUME NEW b \in [Index -> Byte], NEW t \in Index, NEW n \in 0 .. Size
  PROVE  /\ Window(b, t, n) \in Seq(Byte) /\ Len(Window(b, t, n)) = n
         /\ \A i \in 1..n : Window(b, t, n)[i] = b[(t + i - 1) % Size]
<1>0. Size \in Nat /\ t \in Nat /\ t < Size /\ n \in Nat /\ n <= Size
  BY SizeAssumption DEF Index
<1>1. ASSUME NEW i \in 1..n
      PROVE  b[(t + i - 1) % Size] \in Byte
  <2>1. t + i - 1 \in 0 .. 2 * Size - 1
    BY <1>0
  <2>2. (t + i - 1) % Size \in Index
    BY <2>1, WrapOnce
  <2> QED BY <2>2
<1>2. Window(b, t, n) \in [1..n -> Byte]
  BY <1>1 DEF Window
<1>3. Window(b, t, n) \in Seq(Byte)
  BY <1>0, <1>2, SeqDef
<1>4. Len(Window(b, t, n)) = n
  BY <1>0, <1>2, <1>3, LenProperties
<1> QED BY <1>3, <1>4 DEF Window

LEMMA WindowAppend ==
  ASSUME NEW b \in [Index -> Byte], NEW t \in Index, NEW n \in Nat, n < Size - 1,
         NEW code \in Byte
  PROVE  Window([b EXCEPT ![(t + n) % Size] = code], t, n + 1) = Append(Window(b, t, n), code)
<1> DEFINE h == (t + n) % Size
           c == [b EXCEPT ![h] = code]
           w == Window(b, t, n)
           v == Window(c, t, n + 1)
           s == Append(w, code)
<1>0. Size \in Nat /\ Size > 1 /\ t \in Nat /\ t < Size
  BY SizeAssumption DEF Index
<1>1. t + n \in 0 .. 2 * Size - 1 /\ n \in 0 .. Size /\ n + 1 \in 0 .. Size /\ n \in Index
  BY <1>0 DEF Index
<1>2. h \in Index
  BY <1>1, WrapOnce
<1>3. c \in [Index -> Byte]
  BY <1>2
<1>4. w \in Seq(Byte) /\ Len(w) = n /\ \A i \in 1..n : w[i] = b[(t + i - 1) % Size]
  BY <1>1, WindowIsSeq
<1> HIDE DEF c
<1>5. v \in Seq(Byte) /\ Len(v) = n + 1 /\ \A i \in 1 .. n + 1 : v[i] = c[(t + i - 1) % Size]
  BY <1>1, <1>3, WindowIsSeq
<1> HIDE DEF w, v
<1>6. s \in Seq(Byte) /\ Len(s) = n + 1 /\ (\A i \in 1..n : s[i] = w[i]) /\ s[n + 1] = code
  BY <1>4
<1> HIDE DEF s
<1>7. ASSUME NEW i \in 1 .. n + 1
      PROVE  v[i] = s[i]
  <2>1. CASE i = n + 1
    <3>1. (t + i - 1) = t + n
      BY <1>0, <2>1
    <3>2. v[i] = c[h]
      BY <1>5, <3>1
    <3>3. c[h] = code
      BY <1>2 DEF c
    <3> QED BY <1>6, <2>1, <3>2, <3>3
  <2>2. CASE i # n + 1
    <3>1. i \in 1..n /\ i - 1 \in Index /\ i - 1 # n /\ t + i - 1 = t + (i - 1)
      BY <1>0, <2>2 DEF Index
    <3>2. (t + (i - 1)) % Size # h
      BY <1>1, <3>1, OffsetsDiffer
    <3>3. t + i - 1 \in 0 .. 2 * Size - 1
      BY <1>0
    <3>4. (t + i - 1) % Size \in Index
      BY <3>3, WrapOnce
    <3>5. (t + i - 1) % Size # h
      BY <3>1, <3>2
    <3> HIDE DEF h
    <3>6. c[(t + i - 1) % Size] = b[(t + i - 1) % Size]
      BY <1>2, <3>4, <3>5 DEF c
    <3> QED BY <1>4, <1>5, <1>6, <3>1, <3>6
  <2> QED BY <2>1, <2>2
<1>8. v = s
  BY <1>5, <1>6, <1>7, SeqEqual
<1> QED BY <1>8 DEF v, s, c, w

LEMMA WindowSplit ==
  ASSUME NEW b \in [Index -> Byte], NEW t \in Index, NEW m \in Nat, m < Size, NEW n \in 1..m
  PROVE  /\ Window(b, t, n) = SubSeq(Window(b, t, m), 1, n)
         /\ Window(b, (t + n) % Size, m - n) = SubSeq(Window(b, t, m), n + 1, m)
<1> DEFINE u == (t + n) % Size
           w == Window(b, t, m)
           v == Window(b, t, n)
           r == Window(b, u, m - n)
           p == SubSeq(w, 1, n)
           q == SubSeq(w, n + 1, m)
<1>0. Size \in Nat /\ Size > 1 /\ t \in Nat /\ t < Size /\ n \in Nat /\ n <= m /\ n > 0
  BY SizeAssumption DEF Index
<1>1. t + n \in 0 .. 2 * Size - 1 /\ n \in 0 .. Size /\ m \in 0 .. Size /\ m - n \in 0 .. Size
  BY <1>0
<1>2. u \in Index
  BY <1>1, WrapOnce
<1>3. w \in Seq(Byte) /\ Len(w) = m /\ \A i \in 1..m : w[i] = b[(t + i - 1) % Size]
  BY <1>1, WindowIsSeq
<1>4. v \in Seq(Byte) /\ Len(v) = n /\ \A i \in 1..n : v[i] = b[(t + i - 1) % Size]
  BY <1>1, WindowIsSeq
<1> HIDE DEF u
<1>5. r \in Seq(Byte) /\ Len(r) = m - n /\ \A i \in 1 .. m - n : r[i] = b[(u + i - 1) % Size]
  BY <1>1, <1>2, WindowIsSeq
<1> HIDE DEF w, v, r
<1>6. p \in Seq(Byte) /\ Len(p) = n /\ \A i \in 1..n : p[i] = w[i]
  BY <1>0, <1>3
<1>7. q \in Seq(Byte) /\ Len(q) = m - n /\ \A i \in 1 .. m - n : q[i] = w[n + i]
  BY <1>0, <1>3
<1> HIDE DEF p, q
<1>8. v = p
  <2>1. \A i \in 1..n : v[i] = p[i]
    BY <1>0, <1>3, <1>4, <1>6
  <2> QED BY <1>4, <1>6, <2>1, SeqEqual
<1>9. r = q
  <2>1. ASSUME NEW i \in 1 .. m - n
        PROVE  r[i] = q[i]
    <3>1. i - 1 \in Nat /\ n + (i - 1) < Size /\ n + i \in 1..m
      BY <1>0
    <3>2. (((t + n) % Size) + (i - 1)) % Size = (t + n + (i - 1)) % Size
      BY <1>0, <3>1, OffsetsAdd
    <3>3. (u + (i - 1)) % Size = (t + n + (i - 1)) % Size
      BY <3>2 DEF u
    <3>4. u + i - 1 = u + (i - 1) /\ t + (n + i) - 1 = t + n + (i - 1)
      BY <1>0, <1>2 DEF Index
    <3>5. r[i] = b[(u + (i - 1)) % Size]
      BY <1>5, <3>4
    <3>6. w[n + i] = b[(t + n + (i - 1)) % Size]
      BY <1>3, <3>1, <3>4
    <3> QED BY <1>7, <3>3, <3>5, <3>6
  <2> QED BY <1>5, <1>7, <2>1, SeqEqual
<1> QED BY <1>8, <1>9 DEF v, p, r, q, w, u

-----------------------------------------------------------------------------
(***************************************************************************)
(* The operations of the buffer are those of the queue.                    *)
(***************************************************************************)
LEMMA Waiting ==
  /\ Oldest(Count) = Window(buf, tail, Between(head, tail))
  /\ Count = Between(head, tail)
BY DEF Oldest, Window, Count, Between

LEMMA WaitingNext == Oldest(Count)' = Window(buf', tail', Between(head', tail'))
BY DEF Oldest, Window, Count, Between

LEMMA RingInit == Init => RingOK /\ Queue!Init
<1> SUFFICES ASSUME Init PROVE RingOK /\ Queue!Init
  OBVIOUS
<1>1. RingOK
  BY SizeAssumption DEF Init, RingOK, Index, Byte
<1>2. Between(head, tail) = 0 /\ taken = <<>>
  BY DEF Init, Between
<1>3. 0 \in 0 .. Size
  BY SizeAssumption
<1>4. Window(buf, tail, 0) \in Seq(Byte) /\ Len(Window(buf, tail, 0)) = 0
  BY <1>1, <1>3, WindowIsSeq DEF RingOK
<1>5. Window(buf, tail, 0) = <<>>
  BY <1>4, EmptySeq
<1> QED BY <1>1, <1>2, <1>5, Waiting DEF Queue!Init

(***************************************************************************)
(* push is Put: it appends, or drops when Size - 1 codes wait.             *)
(***************************************************************************)
LEMMA PushIsPut ==
  ASSUME RingOK, NEW code \in Codes, Push(code), UNCHANGED taken
  PROVE  RingOK' /\ Queue!Put(code)
<1> DEFINE n == Between(head, tail)
           h == (head + 1) % Size
<1>1. code \in Byte /\ buf \in [Index -> Byte] /\ head \in Index /\ tail \in Index
  BY CodesAssumption DEF Byte, RingOK
<1>2. n \in Index /\ (tail + n) % Size = head
  BY <1>1, BetweenCursors
<1>3. /\ h \in Index
      /\ h = tail => n = Size - 1
      /\ h # tail => Between(h, tail) = n + 1 /\ n < Size - 1
  BY <1>1, OneMore
<1> HIDE DEF n
<1>4. n \in Nat /\ n \in 0 .. Size
  BY <1>2, SizeAssumption DEF Index
<1>5. Len(Window(buf, tail, n)) = n
  BY <1>1, <1>4, WindowIsSeq
<1>6. CASE h = tail
  <2>1. UNCHANGED <<buf, head, tail>>
    BY <1>6 DEF Push
  <2>2. Oldest(Count)' = Oldest(Count)
    BY <2>1, Waiting, WaitingNext
  <2>3. Len(Oldest(Count)) = Size - 1
    BY <1>3, <1>5, <1>6, Waiting DEF n
  <2>4. ~(Len(Oldest(Count)) < Size - 1)
    BY <2>3, SizeAssumption
  <2> QED BY <1>1, <2>1, <2>2, <2>4 DEF RingOK, Queue!Put
<1>7. CASE h # tail
  <2>1. buf' = [buf EXCEPT ![head] = code] /\ head' = h /\ tail' = tail
    BY <1>7 DEF Push
  <2> HIDE DEF h
  <2>2. RingOK'
    BY <1>1, <1>3, <2>1 DEF RingOK
  <2>3. Between(head', tail') = n + 1 /\ n < Size - 1
    BY <1>3, <1>7, <2>1
  <2>4. Window([buf EXCEPT ![(tail + n) % Size] = code], tail, n + 1)
          = Append(Window(buf, tail, n), code)
    BY <1>1, <1>4, <2>3, WindowAppend
  <2>5. Oldest(Count)' = Append(Oldest(Count), code)
    BY <1>2, <2>1, <2>3, <2>4, Waiting, WaitingNext DEF n
  <2>6. Len(Oldest(Count)) < Size - 1
    BY <1>5, <2>3, Waiting DEF n
  <2> QED BY <2>2, <2>5, <2>6 DEF Queue!Put
<1> QED BY <1>6, <1>7

(***************************************************************************)
(* pop, repeated n times, is Take.                                         *)
(***************************************************************************)
LEMMA PopIsTake ==
  ASSUME RingOK, NEW n \in 1 .. Count, Pop(n)
  PROVE  RingOK' /\ Queue!Next
<1> DEFINE m == Between(head, tail)
           u == (tail + n) % Size
<1>1. buf \in [Index -> Byte] /\ head \in Index /\ tail \in Index
  BY DEF RingOK
<1>2. m \in Index /\ n \in 1..m
  BY <1>1, BetweenCursors, Waiting
<1>3. u \in Index /\ Between(head, u) = m - n
  BY <1>1, <1>2, SomeLess
<1> HIDE DEF m
<1>4. m \in Nat /\ m < Size /\ m \in 0 .. Size
  BY <1>2, SizeAssumption DEF Index
<1>5. Len(Window(buf, tail, m)) = m
  BY <1>1, <1>4, WindowIsSeq
<1>6. /\ Window(buf, tail, n) = SubSeq(Window(buf, tail, m), 1, n)
      /\ Window(buf, u, m - n) = SubSeq(Window(buf, tail, m), n + 1, m)
  BY <1>1, <1>2, <1>4, WindowSplit
<1>7. Oldest(Count) = Window(buf, tail, m) /\ Count = m
  BY Waiting DEF m
<1>8. tail' = u /\ buf' = buf /\ head' = head
  BY DEF Pop
<1>9. taken' = Window(buf, tail, n)
  BY DEF Pop, Oldest, Window
<1> HIDE DEF u
<1>10. Oldest(Count)' = Window(buf, u, m - n)
  BY <1>3, <1>8, WaitingNext
<1>11. Queue!Take(n)
  BY <1>5, <1>6, <1>7, <1>9, <1>10 DEF Queue!Take
<1>12. n \in 1 .. Len(Oldest(Count))
  BY <1>2, <1>5, <1>7
<1>13. RingOK'
  BY <1>1, <1>3, <1>8 DEF RingOK
<1> QED BY <1>11, <1>12, <1>13 DEF Queue!Next

LEMMA RingStep ==
  ASSUME RingOK, [Next]_vars
  PROVE  RingOK' /\ [Queue!Next]_Queue!vars
<1>1. ASSUME UNCHANGED <<buf, head, tail, taken>>
      PROVE  RingOK' /\ [Queue!Next]_Queue!vars
  <2>1. Oldest(Count)' = Oldest(Count)
    BY <1>1, Waiting, WaitingNext
  <2> QED BY <1>1, <2>1 DEF RingOK, Queue!vars
<1>2. ASSUME NEW code \in Codes, KeyboardInterrupt(code)
      PROVE  RingOK' /\ Queue!Next
  <2>1. RingOK' /\ Queue!Put(code)
    BY <1>2, PushIsPut DEF KeyboardInterrupt
  <2> QED BY <2>1 DEF Queue!Next
<1>3. head # tail => Count \in Nat /\ Count > 0
  <2>1. Between(head, tail) \in Index /\ (Between(head, tail) = 0 <=> head = tail)
    BY BetweenCursors DEF RingOK
  <2> QED BY <2>1, Waiting, SizeAssumption DEF Index
<1>4. ASSUME head # tail, Pop(1)
      PROVE  RingOK' /\ Queue!Next
  <2>1. 1 \in 1 .. Count
    BY <1>3, <1>4
  <2> QED BY <1>4, <2>1, PopIsTake
<1>5. ASSUME NEW n \in 1..MaxRead, DevfsRead(n)
      PROVE  RingOK' /\ Queue!Next
  <2> DEFINE k == IF n < Count THEN n ELSE Count
  <2>1. k \in 1 .. Count
    BY <1>3, <1>5, MaxReadAssumption DEF DevfsRead
  <2>2. Pop(k)
    BY <1>5 DEF DevfsRead
  <2> HIDE DEF k
  <2> QED BY <2>1, <2>2, PopIsTake
<1>6. CASE MouseInterrupt
  BY <1>1, <1>6 DEF MouseInterrupt
<1>7. CASE \E p \in Packets : MouseMoves(p)
  BY <1>1, <1>7 DEF MouseMoves
<1>8. CASE PollKey
  BY <1>4, <1>8 DEF PollKey
<1>9. CASE PollPrefix
  BY <1>4, <1>9 DEF PollPrefix
<1>10. CASE PollMouse
  BY <1>1, <1>10 DEF PollMouse
<1>11. CASE Hung \/ UNCHANGED vars
  BY <1>1, <1>11 DEF Hung, vars
<1> QED BY <1>2, <1>5, <1>6, <1>7, <1>8, <1>9, <1>10, <1>11 DEF Next

(***************************************************************************)
(* ScancodeBuffer with its interrupt handler and its two consumers         *)
(* implements the bounded first-in first-out queue, for every buffer size. *)
(***************************************************************************)
THEOREM BufferImplementsQueue == Spec => ImplementsQueue
<1>1. Init => RingOK /\ Queue!Init
  BY RingInit
<1>2. RingOK /\ [Next]_vars => RingOK' /\ [Queue!Next]_Queue!vars
  BY RingStep
<1> QED BY <1>1, <1>2, PTL DEF Spec, ImplementsQueue, Queue!Spec

-----------------------------------------------------------------------------
(***************************************************************************)
(* The mouse.  The decoder and the wire hold the two parts of the packet   *)
(* that is being sent, so that the decoder is never out of step; then the  *)
(* deltas are the motion no poll reported, as long as nothing was clipped. *)
(***************************************************************************)
Delta == -DeltaMax - 1 .. DeltaMax

Truth == [sent : Seq(Byte), x : Int, y : Int, burst : Int, clipped : BOOLEAN]

InStep ==
  /\ Len(packet) <= 2
  /\ wire = <<>> => packet = <<>>
  /\ wire # <<>> =>
       /\ Len(truth.sent) = 3 /\ Bit(truth.sent[1], 3)
       /\ Len(packet) + Len(wire) = 3
       /\ \A i \in 1 .. Len(packet) : packet[i] = truth.sent[i]
       /\ \A i \in 1 .. Len(wire) : wire[i] = truth.sent[Len(packet) + i]

MotionInv ==
  /\ wire \in Seq(Byte) /\ packet \in Seq(Byte) /\ truth \in Truth
  /\ InStep
  /\ buttons \in 0..7 /\ dx \in Delta /\ dy \in Delta
  /\ MotionConserved

LEMMA PacketIsSeq ==
  ASSUME NEW p \in Packets
  PROVE  p \in Seq(Byte) /\ Len(p) = 3 /\ Bit(p[1], 3)
<1>1. p \in [1..3 -> Byte]
  BY PacketsAssumption DEF Byte
<1>2. p \in Seq(Byte)
  <2>1. \E n \in Nat : p \in [1..n -> Byte]
    BY <1>1
  <2> QED BY <2>1
<1>3. Len(p) \in Nat /\ DOMAIN p = 1 .. Len(p)
  BY <1>2, LenProperties
<1>4. 1 .. Len(p) = 1..3
  BY <1>1, <1>3
<1> DEFINE n == Len(p)
<1>5. n \in Nat /\ \A k \in Int : k \in 1..n <=> k \in 1..3
  BY <1>3, <1>4
<1> HIDE DEF n
<1>6. n = 3
  BY <1>5
<1> QED BY <1>2, <1>6, StatusAssumption DEF n

(***************************************************************************)
(* The motion of a packet is an integer and depends on its three bytes     *)
(* alone; an addition that saturates stays in range, is exact where the    *)
(* sum is in range, and never goes against the sign of what is added.      *)
(***************************************************************************)
LEMMA DeltasOfPacket ==
  ASSUME NEW p \in Seq(Byte), Len(p) = 3
  PROVE  /\ DeltaX(p) \in Int /\ DeltaY(p) \in Int /\ p[1] % 8 \in 0..7
         /\ \A q : (\A i \in 1..3 : q[i] = p[i]) =>
                     DeltaX(q) = DeltaX(p) /\ DeltaY(q) = DeltaY(p) /\ q[1] = p[1]
<1>1. p[1] \in 0..255 /\ p[2] \in 0..255 /\ p[3] \in 0..255
  <2>1. \A i \in 1..3 : p[i] \in Byte
    BY ElementOfSeq
  <2> QED BY <2>1 DEF Byte
<1>2. SignedByte(p[2]) \in Int /\ SignedByte(p[3]) \in Int /\ -SignedByte(p[3]) \in Int
  <2>1. \A b \in 0..255 : SignedByte(b) \in Int /\ -SignedByte(b) \in Int
    BY DEF SignedByte
  <2> QED BY <1>1, <2>1
<1>3. DeltaX(p) \in Int
  <2>1. DeltaX(p) = -256 \/ DeltaX(p) = 255 \/ DeltaX(p) = SignedByte(p[2])
    BY DEF DeltaX
  <2> QED BY <1>2, <2>1
<1>4. DeltaY(p) \in Int
  <2>1. DeltaY(p) = -256 \/ DeltaY(p) = 255 \/ DeltaY(p) = -SignedByte(p[3])
    BY DEF DeltaY
  <2> QED BY <1>2, <2>1
<1>5. \A q : (\A i \in 1..3 : q[i] = p[i]) => q[1] = p[1] /\ q[2] = p[2] /\ q[3] = p[3]
  OBVIOUS
<1>6. \A q : q[1] = p[1] /\ q[2] = p[2] /\ q[3] = p[3] =>
               DeltaX(q) = DeltaX(p) /\ DeltaY(q) = DeltaY(p)
  BY Zenon DEF DeltaX, DeltaY
<1>7. p[1] % 8 \in 0..7
  <2>1. \A b \in 0..255 : b % 8 \in 0..7
    OBVIOUS
  <2> QED BY <1>1, <2>1
<1> QED BY <1>3, <1>4, <1>5, <1>6, <1>7

LEMMA Saturates ==
  ASSUME NEW a \in Delta, NEW b \in Int
  PROVE  /\ SaturatingAdd(a, b) \in Delta
         /\ a + b \in Delta => SaturatingAdd(a, b) = a + b
         /\ b >= 0 => SaturatingAdd(a, b) >= a
         /\ b <= 0 => SaturatingAdd(a, b) <= a
BY DeltaMaxAssumption DEF Delta, SaturatingAdd

(***************************************************************************)
(* on_byte takes the next byte of the packet that is sent; with the last   *)
(* one it adds the motion of that packet.                                  *)
(***************************************************************************)
LEMMA ByteTaken ==
  ASSUME MotionInv, MouseInterrupt
  PROVE  /\ wire' \in Seq(Byte) /\ packet' \in Seq(Byte) /\ truth.sent \in Seq(Byte)
         /\ Len(truth.sent) = 3
         /\ \/ /\ Completes /\ packet' = <<>> /\ buttons' = truth.sent[1] % 8
               /\ dx' = SaturatingAdd(dx, DeltaX(truth.sent))
               /\ dy' = SaturatingAdd(dy, DeltaY(truth.sent))
            \/ /\ ~Completes /\ UNCHANGED <<buttons, dx, dy>>
               /\ wire' # <<>> /\ Len(packet') <= 2 /\ Len(packet') + Len(wire') = 3
               /\ Bit(truth.sent[1], 3)
               /\ \A i \in 1 .. Len(packet') : packet'[i] = truth.sent[i]
               /\ \A i \in 1 .. Len(wire') : wire'[i] = truth.sent[Len(packet') + i]
<1> DEFINE T == truth.sent
           byte == Head(wire)
           n == Len(packet)
<1>1. wire \in Seq(Byte) /\ packet \in Seq(Byte) /\ T \in Seq(Byte)
  BY DEF MotionInv, Truth
<1>2. wire # <<>> /\ OnByte(byte) /\ wire' = Tail(wire)
  BY DEF MouseInterrupt
<1>3. /\ Len(T) = 3 /\ Bit(T[1], 3) /\ n + Len(wire) = 3 /\ n <= 2
      /\ \A i \in 1..n : packet[i] = T[i]
      /\ \A i \in 1 .. Len(wire) : wire[i] = T[n + i]
  BY <1>2 DEF MotionInv, InStep
<1> HIDE DEF T
<1>4. n \in Nat /\ Len(wire) \in Nat /\ Len(wire) >= 1
  BY <1>1, <1>2, EmptySeq, LenProperties
<1>5. byte = wire[1] /\ byte = T[n + 1] /\ byte \in Byte
  BY <1>1, <1>3, <1>4
<1>6. /\ wire' \in Seq(Byte) /\ Len(wire') = Len(wire) - 1
      /\ \A i \in 1 .. Len(wire') : wire'[i] = wire[i + 1]
  BY <1>1, <1>2
<1> DEFINE p == Append(packet, byte)
<1>7. p \in Seq(Byte) /\ Len(p) = n + 1 /\ p[n + 1] = byte /\ \A i \in 1..n : p[i] = packet[i]
  BY <1>1, <1>5
<1> HIDE DEF p, byte
<1>8. \A i \in 1 .. n + 1 : p[i] = T[i]
  BY <1>3, <1>4, <1>5, <1>7
<1>9. ~(packet = <<>> /\ ~Bit(byte, 3))
  <2>1. packet = <<>> => n = 0
    BY EmptySeq
  <2> QED BY <1>3, <1>5, <2>1
<1>10. CASE n = 2
  <2>1. CompletePacket(p)
    BY <1>2, <1>9, <1>10 DEF OnByte, p
  <2>2. \A i \in 1..3 : p[i] = T[i]
    BY <1>8, <1>10
  <2>3. DeltaX(p) = DeltaX(T) /\ DeltaY(p) = DeltaY(T) /\ p[1] = T[1]
    BY <1>1, <1>3, <2>2, DeltasOfPacket
  <2>4. Len(wire) = 1 /\ Len(wire') = 0
    BY <1>3, <1>4, <1>6, <1>10
  <2>5. Completes
    BY <1>6, <2>4, EmptySeq DEF Completes
  <2>6. packet' = <<>> /\ packet' \in Seq(Byte)
    BY <2>1 DEF CompletePacket
  <2> QED BY <1>1, <1>3, <1>6, <2>1, <2>3, <2>5, <2>6 DEF CompletePacket, T
<1>11. CASE n # 2
  <2>1. packet' = p /\ UNCHANGED <<buttons, dx, dy>>
    BY <1>2, <1>9, <1>11 DEF OnByte, p
  <2>2. n \in 0..1 /\ Len(wire) = 3 - n /\ Len(wire') = 2 - n
    <3> HIDE DEF n
    <3>1. n <= 2 /\ n + Len(wire) = 3 /\ Len(wire') = Len(wire) - 1 /\ n # 2
      BY <1>3, <1>6, <1>11
    <3> QED BY <1>4, <3>1
  <2>3. wire' # <<>> /\ ~Completes
    <3>1. Len(wire') # 0 /\ Len(wire) # 1
      <4> HIDE DEF n
      <4> QED BY <2>2
    <3>2. Len(<<>>) = 0
      BY EmptySeq
    <3>3. wire' # <<>>
      BY <3>1, <3>2
    <3> QED BY <3>1, <3>3 DEF Completes
  <2>4. \A i \in 1 .. Len(wire') : wire'[i] = T[Len(packet') + i]
    <3> SUFFICES ASSUME NEW i \in 1 .. Len(wire')
                 PROVE  wire'[i] = T[Len(packet') + i]
      OBVIOUS
    <3>1. wire'[i] = wire[i + 1] /\ i + 1 \in 1 .. Len(wire)
      BY <1>6, <1>4, <2>2
    <3>2. wire[i + 1] = T[n + (i + 1)]
      BY <1>3, <3>1
    <3>3. n + (i + 1) = Len(packet') + i
      BY <1>4, <1>7, <2>1, <2>2
    <3> QED BY <3>1, <3>2, <3>3
  <2> QED BY <1>1, <1>3, <1>6, <1>7, <1>8, <2>1, <2>2, <2>3, <2>4 DEF T
<1> QED BY <1>10, <1>11

(***************************************************************************)
(* Of the steps, a byte of the mouse, a new packet and a poll of the mouse *)
(* change the mouse's state; the others leave it and the wire alone.       *)
(***************************************************************************)
LEMMA OtherSteps ==
  ASSUME [TrackedNext]_allvars
  PROVE  \/ MouseInterrupt /\ Track
         \/ (\E p \in Packets : MouseMoves(p)) /\ Track
         \/ PollMouse /\ Track
         \/ /\ UNCHANGED <<buttons, dx, dy, packet, wire>>
            /\ Track \/ UNCHANGED truth
<1>1. CASE UNCHANGED allvars
  BY <1>1 DEF allvars, vars
<1>2. CASE TrackedNext
  <2>1. Next /\ Track
    BY <1>2 DEF TrackedNext
  <2>2. CASE (\E code \in Codes : KeyboardInterrupt(code)) \/ PollKey \/ PollPrefix
             \/ (\E n \in 1..MaxRead : DevfsRead(n)) \/ Hung
    BY <2>1, <2>2 DEF KeyboardInterrupt, PollKey, PollPrefix, DevfsRead, Hung, vars
  <2> QED BY <2>1, <2>2 DEF Next
<1> QED BY <1>1, <1>2

\* The body of MotionKeepsDirection.
DirectionStep ==
  Completes => /\ DeltaX(truth.sent) >= 0 => dx' >= dx
               /\ DeltaX(truth.sent) <= 0 => dx' <= dx
               /\ DeltaY(truth.sent) >= 0 => dy' >= dy
               /\ DeltaY(truth.sent) <= 0 => dy' <= dy

LEMMA ByteStep ==
  ASSUME MotionInv, MouseInterrupt, Track
  PROVE  MotionInv' /\ DirectionStep
<1>1. /\ wire # <<>> /\ truth \in Truth /\ dx \in Delta /\ dy \in Delta /\ buttons \in 0..7
      /\ ~truth.clipped => dx = truth.x /\ dy = truth.y
  BY DEF MotionInv, MouseInterrupt, MotionConserved
<1>2. /\ wire' \in Seq(Byte) /\ packet' \in Seq(Byte) /\ truth.sent \in Seq(Byte)
      /\ Len(truth.sent) = 3
  BY ByteTaken
<1>3. wire' # wire /\ ~PollMouse
  <2>1. wire \in Seq(Byte) /\ wire' = Tail(wire)
    BY DEF MotionInv, MouseInterrupt
  <2>2. Len(wire') = Len(wire) - 1 /\ Len(wire) \in Nat
    BY <1>1, <2>1
  <2>3. wire' # wire
    BY <2>2
  <2> QED BY <2>3 DEF PollMouse
<1>4. CASE /\ Completes /\ packet' = <<>> /\ buttons' = truth.sent[1] % 8
           /\ dx' = SaturatingAdd(dx, DeltaX(truth.sent))
           /\ dy' = SaturatingAdd(dy, DeltaY(truth.sent))
  <2> DEFINE a == DeltaX(truth.sent)
             b == DeltaY(truth.sent)
             x == truth.x + a
             y == truth.y + b
             clipped == truth.clipped \/ ~InRange(x) \/ ~InRange(y)
  <2>1. a \in Int /\ b \in Int /\ buttons' \in 0..7
    BY <1>2, <1>4, DeltasOfPacket
  <2>2. truth' = AddPacket
    BY <1>1, <1>3, <1>4 DEF Track
  <2>3. truth' = [truth EXCEPT !.x = IF clipped THEN 0 ELSE x, !.y = IF clipped THEN 0 ELSE y,
                               !.clipped = clipped]
    BY <2>2 DEF AddPacket
  <2> HIDE DEF a, b
  <2>4. truth.x \in Int /\ truth.y \in Int /\ truth.clipped \in BOOLEAN
    BY <1>1 DEF Truth
  <2>5. x \in Int /\ y \in Int
    BY <2>1, <2>4
  <2> HIDE DEF clipped, x, y
  <2>6. clipped \in BOOLEAN
    BY <2>4 DEF clipped
  <2>7. /\ truth' \in Truth /\ truth'.clipped = clipped
        /\ truth'.x = IF clipped THEN 0 ELSE x
        /\ truth'.y = IF clipped THEN 0 ELSE y
    <3> DEFINE t1 == [truth EXCEPT !.x = IF clipped THEN 0 ELSE x]
               t2 == [t1 EXCEPT !.y = IF clipped THEN 0 ELSE y]
    <3>1. t1 \in Truth /\ t1.x = IF clipped THEN 0 ELSE x
      BY <1>1, <2>5 DEF Truth
    <3>2. t2 \in Truth /\ t2.x = t1.x /\ t2.y = IF clipped THEN 0 ELSE y
      <4> HIDE DEF t1
      <4> QED BY <2>5, <3>1 DEF Truth
    <3>3. truth' = [t2 EXCEPT !.clipped = clipped]
      BY <2>3
    <3> HIDE DEF t1, t2
    <3> QED BY <2>6, <3>1, <3>2, <3>3 DEF Truth
  <2>8. /\ dx' \in Delta /\ dy' \in Delta
        /\ dx + a \in Delta => dx' = dx + a
        /\ dy + b \in Delta => dy' = dy + b
        /\ a >= 0 => dx' >= dx
        /\ a <= 0 => dx' <= dx
        /\ b >= 0 => dy' >= dy
        /\ b <= 0 => dy' <= dy
    BY <1>1, <1>4, <2>1, Saturates DEF a, b
  <2>9. MotionConserved'
    <3> SUFFICES ASSUME ~truth'.clipped
                 PROVE  dx' = truth'.x /\ dy' = truth'.y
      BY DEF MotionConserved
    <3>1. ~clipped /\ truth'.x = x /\ truth'.y = y
      BY <2>7
    <3>2. ~truth.clipped /\ x \in Delta /\ y \in Delta
      BY <3>1 DEF clipped, InRange, Delta
    <3>3. x = dx + a /\ y = dy + b
      BY <1>1, <3>2 DEF x, y
    <3> QED BY <2>8, <3>1, <3>2, <3>3
  <2>10. InStep'
    BY <1>4, EmptySeq DEF InStep, Completes
  <2>11. MotionInv'
    BY <1>2, <2>1, <2>7, <2>8, <2>9, <2>10 DEF MotionInv, Truth, Delta, Byte
  <2> QED BY <2>8, <2>11 DEF DirectionStep, a, b
<1>5. CASE /\ ~Completes /\ UNCHANGED <<buttons, dx, dy>>
           /\ wire' # <<>> /\ Len(packet') <= 2 /\ Len(packet') + Len(wire') = 3
           /\ Bit(truth.sent[1], 3)
           /\ \A i \in 1 .. Len(packet') : packet'[i] = truth.sent[i]
           /\ \A i \in 1 .. Len(wire') : wire'[i] = truth.sent[Len(packet') + i]
  <2>1. truth' = truth
    BY <1>1, <1>3, <1>5 DEF Track
  <2>2. InStep'
    BY <1>2, <1>5, <2>1 DEF InStep, Bit
  <2>3. MotionConserved'
    BY <1>1, <1>5, <2>1 DEF MotionConserved
  <2>4. MotionInv'
    BY <1>1, <1>2, <1>5, <2>1, <2>2, <2>3 DEF MotionInv, Truth, Delta, Byte
  <2> QED BY <1>5, <2>4 DEF DirectionStep
<1> QED BY <1>4, <1>5, ByteTaken

LEMMA PacketStep ==
  ASSUME MotionInv, NEW p \in Packets, MouseMoves(p), Track
  PROVE  MotionInv' /\ DirectionStep
<1>1. /\ wire = <<>> /\ wire' = p /\ UNCHANGED <<buttons, dx, dy, packet>>
      /\ packet = <<>> /\ truth \in Truth
  BY DEF MouseMoves, MotionInv, InStep
<1>2. p \in Seq(Byte) /\ Len(p) = 3 /\ Bit(p[1], 3)
  BY PacketIsSeq
<1>3. p # <<>> /\ ~Completes /\ Len(packet) = 0
  BY <1>1, <1>2, EmptySeq DEF Completes
<1>4. truth' = [truth EXCEPT !.sent = p, !.burst = @ + 1]
  BY <1>1, <1>3 DEF Track, PollMouse
<1>5. /\ truth' \in Truth /\ truth'.sent = p /\ truth'.clipped = truth.clipped
      /\ truth'.x = truth.x /\ truth'.y = truth.y
  <2> DEFINE t == [truth EXCEPT !.sent = p]
  <2>1. t \in Truth /\ t.sent = p /\ t.clipped = truth.clipped
        /\ t.x = truth.x /\ t.y = truth.y /\ t.burst = truth.burst
    BY <1>1, <1>2 DEF Truth
  <2>2. truth' = [t EXCEPT !.burst = t.burst + 1]
    BY <1>4, <2>1
  <2> HIDE DEF t
  <2> QED BY <2>1, <2>2 DEF Truth
<1>6. InStep'
  <2>1. \A i \in 1 .. Len(wire') : wire'[i] = truth'.sent[Len(packet') + i]
    BY <1>1, <1>2, <1>3, <1>5
  <2> QED BY <1>1, <1>2, <1>3, <1>5, <2>1 DEF InStep, Bit
<1>7. MotionInv'
  BY <1>1, <1>2, <1>5, <1>6 DEF MotionInv, MotionConserved, Truth, Delta, Byte
<1> QED BY <1>3, <1>7 DEF DirectionStep

LEMMA PollStep ==
  ASSUME MotionInv, PollMouse, Track
  PROVE  MotionInv' /\ DirectionStep
<1>1. /\ UNCHANGED <<buttons, packet, wire>> /\ dx' = 0 /\ dy' = 0
      /\ truth \in Truth
  BY DEF PollMouse, MotionInv
<1>2. ~Completes
  BY <1>1, EmptySeq DEF Completes
<1> DEFINE x == IF truth.clipped THEN 0 ELSE truth.x - dx
           y == IF truth.clipped THEN 0 ELSE truth.y - dy
<1>3. truth' = [truth EXCEPT !.x = x, !.y = y, !.burst = 0, !.clipped = FALSE]
  BY <1>1, <1>2 DEF Track
<1>4. x = 0 /\ y = 0
  BY DEF MotionInv, MotionConserved, Truth
<1> HIDE DEF x, y
<1>5. /\ truth' \in Truth /\ truth'.sent = truth.sent
      /\ truth'.x = 0 /\ truth'.y = 0 /\ truth'.clipped = FALSE
  <2> DEFINE t1 == [truth EXCEPT !.x = 0]
             t2 == [t1 EXCEPT !.y = 0]
             t3 == [t2 EXCEPT !.burst = 0]
  <2>1. t1 \in Truth /\ t1.sent = truth.sent /\ t1.x = 0
    BY <1>1 DEF Truth
  <2>2. t2 \in Truth /\ t2.sent = truth.sent /\ t2.x = 0 /\ t2.y = 0
    <3> HIDE DEF t1
    <3> QED BY <2>1 DEF Truth
  <2>3. t3 \in Truth /\ t3.sent = truth.sent /\ t3.x = 0 /\ t3.y = 0
    <3> HIDE DEF t2
    <3> QED BY <2>2 DEF Truth
  <2>4. truth' = [t3 EXCEPT !.clipped = FALSE]
    BY <1>3, <1>4
  <2> HIDE DEF t3
  <2> QED BY <2>3, <2>4 DEF Truth
<1>6. InStep'
  BY <1>1, <1>5 DEF MotionInv, InStep, Bit
<1>7. 0 \in Delta
  BY DeltaMaxAssumption DEF Delta
<1>8. MotionInv'
  BY <1>1, <1>5, <1>6, <1>7 DEF MotionInv, MotionConserved, Truth, Delta, Byte
<1> QED BY <1>2, <1>8 DEF DirectionStep

LEMMA MotionStep == MotionInv /\ [TrackedNext]_allvars => MotionInv' /\ [DirectionStep]_allvars
<1> SUFFICES ASSUME MotionInv, [TrackedNext]_allvars
             PROVE  MotionInv' /\ DirectionStep
  OBVIOUS
<1>1. ASSUME UNCHANGED <<buttons, dx, dy, packet, wire>>, Track \/ UNCHANGED truth
      PROVE  MotionInv' /\ DirectionStep
  <2>1. ~Completes
    BY <1>1, EmptySeq DEF Completes
  <2>2. CASE PollMouse /\ Track
    BY <2>2, PollStep
  <2>3. CASE ~(PollMouse /\ Track)
    <3>1. truth' = truth
      BY <1>1, <2>1, <2>3 DEF Track
    <3>2. MotionInv'
      BY <1>1, <3>1 DEF MotionInv, InStep, Bit, MotionConserved, Truth, Delta, Byte
    <3> QED BY <2>1, <3>2 DEF DirectionStep
  <2> QED BY <2>2, <2>3
<1> QED BY <1>1, OtherSteps, ByteStep, PacketStep, PollStep

LEMMA MotionInit == TrackedInit => MotionInv
<1> SUFFICES ASSUME TrackedInit PROVE MotionInv
  OBVIOUS
<1>1. /\ wire = <<>> /\ packet = <<>> /\ buttons = 0 /\ dx = 0 /\ dy = 0
      /\ truth = [sent |-> <<>>, x |-> 0, y |-> 0, burst |-> 0, clipped |-> FALSE]
  BY DEF TrackedInit, Init, NoMotion
<1>2. <<>> \in Seq(Byte) /\ Len(<<>>) = 0
  BY EmptySeq
<1>3. truth \in Truth /\ truth.x = 0 /\ truth.y = 0
  BY <1>1, <1>2 DEF Truth
<1>4. 0 \in Delta
  BY DeltaMaxAssumption DEF Delta
<1> QED BY <1>1, <1>2, <1>3, <1>4 DEF MotionInv, InStep, MotionConserved

(***************************************************************************)
(* The ring and the decoder stay within their bounds: whatever bytes come, *)
(* no cursor leaves the buffer, at most two bytes of a packet are pending, *)
(* and the deltas stay in the range of an i16.                             *)
(***************************************************************************)
THEOREM InputTypes == TrackedSpec => []TypeOK
<1>1. TrackedInit => RingOK /\ MotionInv
  BY RingInit, MotionInit DEF TrackedInit
<1>2. RingOK /\ MotionInv /\ [TrackedNext]_allvars => RingOK' /\ MotionInv'
  BY RingStep, MotionStep DEF TrackedNext, allvars
<1>3. RingOK /\ MotionInv => TypeOK
  BY DEF RingOK, MotionInv, InStep, TypeOK, InRange, Delta, Index, Byte
<1> QED BY <1>1, <1>2, <1>3, PTL DEF TrackedSpec

(***************************************************************************)
(* on_byte, drain and poll_next neither lose nor invent motion, however    *)
(* the bytes of the mouse, the keys and the polls interleave.              *)
(***************************************************************************)
THEOREM MotionIsConserved == TrackedSpec => []MotionConserved
<1>1. MotionInv => MotionConserved
  BY DEF MotionInv
<1> QED BY <1>1, MotionInit, MotionStep, PTL DEF TrackedSpec

(***************************************************************************)
(* No packet moves an accumulated delta against its own direction.         *)
(***************************************************************************)
THEOREM MotionDirection == TrackedSpec => MotionKeepsDirection
<1>1. MotionInv /\ [TrackedNext]_allvars => [DirectionStep]_allvars
  BY MotionStep
<1> QED BY <1>1, MotionInit, MotionStep, PTL DEF TrackedSpec, MotionKeepsDirection, DirectionStep

=============================================================================
