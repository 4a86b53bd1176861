-------------------------- MODULE VisualizerProofs --------------------------
(***************************************************************************)
(* The visualizer's queue never leads to freed memory, and the client shows*)
(* the drawn chunks in order, for every file, buffer and screen.           *)
(***************************************************************************)
EXTENDS Visualizer, WellFoundedInduction, TLAPS

\* Since no prev is ever set, the queue is empty after each chunk taken out.
Queue ==
  /\ nRead \in 0 .. MaxChunks
  /\ prev = [c \in Chunk |-> Null]
  /\ head \in 0 .. nRead /\ tail \in 0 .. nRead
  /\ pc = "drain" => tail # Null

\* What was drawn lies before what is in the queue, and in order.
Drawing ==
  /\ drawn \in Seq(Chunk)
  /\ \A k \in 1 .. Len(drawn) : drawn[k] <= nRead /\ (tail # Null => drawn[k] < tail)
  /\ \A j, k \in 1 .. Len(drawn) : j < k => drawn[j] < drawn[k]

\* The history is the drawn chunks read backwards.
Backwards ==
  /\ history \in [1 .. History -> Pointer]
  /\ \A k \in 1 .. History :
       history[k] = IF Len(drawn) - k + 1 > 0 THEN drawn[Len(drawn) - k + 1] ELSE Null

Freed == freed \subseteq 1 .. nRead /\ head \notin freed /\ tail \notin freed

\* A datagram shows them as they were when it was sent.
Window(p) == \E n \in 1 .. Len(drawn) : \A k \in 1 .. Columns - 2 : p[k] = Column(n, k)
Sent == (\A p \in net : Window(p)) /\ (client # <<>> => client \in net)

IInv == Queue /\ Drawing /\ Backwards /\ Freed /\ Sent

USE BoundAssumption

\* A new chunk comes behind all that was drawn.
LEMMA EnqueueStep ==
  ASSUME IInv, NEW n \in Int, nRead < MaxChunks, Enqueue(nRead + 1, n), nRead' = nRead + 1,
         UNCHANGED <<freed, drawVars, client>>
  PROVE  IInv'
<1> USE DEF IInv, Enqueue, Chunk, Null, drawVars
<1>1. Queue'
  <2>0. nRead \in 0 .. MaxChunks /\ nRead + 1 \in 1 .. MaxChunks
    BY DEF Queue
  <2>1. prev' = [c \in Chunk |-> Null]
    <3>1. prev = [c \in 1 .. MaxChunks |-> 0] /\ prev' = [prev EXCEPT ![nRead + 1] = 0]
      BY DEF Queue
    <3> QED
      BY <3>1, <2>0 DEF Chunk, Null
  <2>2. head' = nRead + 1 /\ tail' \in 0 .. nRead + 1 /\ tail' # 0
    BY DEF Queue
  <2> QED
    BY <2>0, <2>1, <2>2 DEF Queue
<1>2. Drawing'
  BY DEF Queue, Drawing
<1>3. Backwards' /\ Freed'
  BY DEF Queue, Backwards, Freed, Pointer
<1>4. Sent'
  BY DEF Sent, Window, Column
<1> QED
  BY <1>1, <1>2, <1>3, <1>4

\* Taking the last chunk out leaves the queue empty.
LEMMA DequeueEmpties ==
  ASSUME Queue, tail # Null, Dequeue(tail)
  PROVE  tail \in Chunk /\ head' = Null /\ tail' = Null /\ prev' = prev
BY DEF Queue, Dequeue, Chunk, Null

LEMMA DrawStep ==
  ASSUME IInv, tail # Null, Dequeue(tail), Draw(tail), freed' = freed \cup {tail},
         pc' # "drain", UNCHANGED <<nRead, client>>
  PROVE  IInv'
<1> DEFINE L == Len(drawn)
<1>0. /\ tail \in Chunk /\ head' = Null /\ tail' = Null /\ prev' = prev
      /\ drawn \in Seq(Chunk) /\ L \in Nat
  BY DequeueEmpties DEF IInv, Drawing
<1>1. /\ drawn' = Append(drawn, tail) /\ drawn' \in Seq(Chunk) /\ Len(drawn') = L + 1
      /\ drawn'[L + 1] = tail /\ \A k \in 1 .. L : drawn'[k] = drawn[k]
  BY <1>0 DEF Draw
<1>2. Queue'
  BY <1>0 DEF IInv, Queue, Null
<1>3. Drawing'
  BY <1>0, <1>1 DEF IInv, Drawing, Queue, Null, Chunk
<1>h. ASSUME NEW k \in 1 .. History
      PROVE  history'[k] = IF Len(drawn') - k + 1 > 0 THEN drawn'[Len(drawn') - k + 1] ELSE Null
  <2>1. history' = [m \in 1 .. History |-> IF m = 1 THEN tail ELSE history[m - 1]]
    BY DEF Draw
  <2>2. CASE k = 1
    BY <2>2, <2>1, <1>0, <1>1
  <2>3. CASE k # 1
    <3>1. k - 1 \in 1 .. History /\ history'[k] = history[k - 1]
      BY <2>3, <2>1
    <3>2. history[k - 1] = IF L - (k - 1) + 1 > 0 THEN drawn[L - (k - 1) + 1] ELSE Null
      BY <3>1 DEF IInv, Backwards
    <3>3. Len(drawn') - k + 1 = L - (k - 1) + 1
      BY <1>0, <1>1
    <3>4. CASE L - (k - 1) + 1 > 0
      <4>1. L - (k - 1) + 1 \in 1 .. L
        BY <3>1, <3>4, <1>0
      <4> QED
        BY <4>1, <3>1, <3>2, <3>3, <3>4, <1>1
    <3>5. CASE ~(L - (k - 1) + 1 > 0)
      BY <3>1, <3>2, <3>3, <3>5
    <3> QED
      BY <3>4, <3>5
  <2> QED
    BY <2>2, <2>3
<1>4. Backwards'
  <2>1. history' \in [1 .. History -> Pointer]
    BY <1>0 DEF Draw, IInv, Backwards, Pointer
  <2> QED
    BY <2>1, <1>h, Zenon DEF Backwards
<1>5. Freed'
  BY <1>0 DEF IInv, Freed, Queue, Null, Chunk
<1>6. ASSUME NEW p, Window(p) PROVE Window(p)'
  BY <1>6, <1>0, <1>1 DEF Window, Column, Null
<1>7. ASSUME NEW p \in net', p \notin net PROVE Window(p)'
  <2>1. p = [k \in 1 .. Columns - 2 |-> graphic(history')[k]]
    <3>1. (4 + 2 * Columns) \div 2 - 4 = Columns - 2
      OBVIOUS
    <3> QED
      BY <1>7, <3>1 DEF Draw, send_graphic
  <2>2. ASSUME NEW k \in 1 .. Columns - 2
        PROVE  p[k] = IF k > Columns - History /\ L + 1 - (Columns - k) > 0
                      THEN drawn'[L + 1 - (Columns - k)] ELSE Null
    <3>1. p[k] = IF k <= Columns - History THEN Null ELSE history'[Columns - k + 1]
      BY <2>1 DEF graphic
    <3>2. CASE k <= Columns - History
      BY <3>1, <3>2
    <3>3. CASE k > Columns - History
      <4>1. Columns - k + 1 \in 1 .. History
        BY <3>3
      <4>2. history'[Columns - k + 1] =
              IF Len(drawn') - (Columns - k + 1) + 1 > 0
                THEN drawn'[Len(drawn') - (Columns - k + 1) + 1] ELSE Null
        BY <1>h, <4>1
      <4>3. Len(drawn') - (Columns - k + 1) + 1 = L + 1 - (Columns - k)
        BY <1>0, <1>1
      <4> QED
        BY <3>1, <3>3, <4>2, <4>3
    <3> QED
      BY <3>2, <3>3
  <2>3. L + 1 \in 1 .. Len(drawn')
    BY <1>0, <1>1
  <2> QED
    BY <2>2, <2>3 DEF Window, Column
<1>8. Sent'
  <2>1. net \subseteq net'
    BY DEF Draw, send_graphic
  <2> QED
    BY <1>6, <1>7, <2>1 DEF IInv, Sent
<1> QED
  BY <1>2, <1>3, <1>4, <1>5, <1>8 DEF IInv

\* Steps that change neither the queue nor the drawing.
LEMMA OtherStep ==
  ASSUME IInv, UNCHANGED <<nRead, queueVars, freed, drawVars>>, client' = client \/ client' \in net,
         pc' # "drain" \/ pc = "drain"
  PROVE  IInv'
<1> USE DEF IInv, queueVars, drawVars
<1>1. Queue' /\ Drawing' /\ Backwards' /\ Freed'
  BY DEF Queue, Drawing, Backwards, Freed
<1>2. Sent'
  BY DEF Sent, Window, Column
<1> QED
  BY <1>1, <1>2

LEMMA InvStep == IInv /\ [Next]_vars => IInv'
<1> SUFFICES ASSUME IInv, [Next]_vars PROVE IInv'
  OBVIOUS
<1> USE DEF vars, fds
<1>1. CASE SlimprotoInit \/ Open \/ EndOfFile \/ ClientReceives \/ Ended \/ UNCHANGED vars
  BY <1>1, OtherStep DEF SlimprotoInit, Open, EndOfFile, ClientReceives, Ended
<1>2. CASE Copy \/ CopyReadError \/ CopyWriteError
  <2>1. \A n \in 1 .. MaxLength : n \in Int
    OBVIOUS
  <2> QED
    BY <1>2, <2>1, EnqueueStep DEF Copy, CopyReadError, CopyWriteError
<1>3. CASE Drain
  <2>1. tail # Null
    BY <1>3 DEF Drain, IInv, Queue
  <2>2. CASE Backlog >= Buffered
    BY <1>3, <2>1, <2>2, DrawStep DEF Drain
  <2>3. CASE ~(Backlog >= Buffered)
    BY <1>3, <2>3, OtherStep DEF Drain
  <2> QED
    BY <2>2, <2>3
<1>4. CASE DrainSendError
  <2>1. tail # Null
    BY <1>4 DEF DrainSendError, IInv, Queue
  <2>2. /\ tail \in Chunk /\ head' = Null /\ tail' = Null /\ prev' = prev
        /\ pc' = "end" /\ UNCHANGED <<nRead, freed, drawVars, client>>
    BY <1>4, <2>1, DequeueEmpties DEF DrainSendError, IInv
  <2>3. Queue' /\ Drawing' /\ Backwards' /\ Freed'
    BY <2>2 DEF IInv, Queue, Drawing, Backwards, Freed, drawVars, Null
  <2>4. Sent'
    BY <2>2 DEF IInv, Sent, Window, Column, drawVars
  <2> QED
    BY <2>3, <2>4 DEF IInv
<1> QED
  BY <1>1, <1>2, <1>3, <1>4 DEF Next

LEMMA InitInv == Init => IInv
<1> SUFFICES ASSUME Init PROVE IInv
  OBVIOUS
<1> USE DEF Init, Null, Chunk
<1>1. Queue /\ Drawing /\ Freed /\ Sent
  BY DEF Queue, Drawing, Freed, Sent
<1>2. Backwards
  BY DEF Backwards, Pointer
<1> QED
  BY <1>1, <1>2 DEF IInv

\* What the client shows was sent, and what was sent shows the drawn chunks in order.
LEMMA ShowsInOrder == IInv => ClientShows
<1> SUFFICES ASSUME IInv, client # <<>> PROVE ClientShows
  BY DEF ClientShows
<1>1. PICK n \in 1 .. Len(drawn) : \A k \in 1 .. Columns - 2 : client[k] = Column(n, k)
  BY DEF IInv, Sent, Window
<1>2. ASSUME NEW j \in 1 .. Columns - 2, NEW k \in 1 .. Columns - 2, j < k, client[j] # Null
      PROVE  client[j] < client[k]
  <2>1. /\ j > Columns - History /\ n - (Columns - j) > 0
        /\ client[j] = drawn[n - (Columns - j)] /\ client[k] = drawn[n - (Columns - k)]
    BY <1>1, <1>2 DEF Column
  <2>2. /\ n - (Columns - j) \in 1 .. Len(drawn) /\ n - (Columns - k) \in 1 .. Len(drawn)
        /\ n - (Columns - j) < n - (Columns - k)
    BY <2>1, <1>2 DEF IInv, Drawing
  <2> QED
    BY <2>1, <2>2 DEF IInv, Drawing
<1> QED
  BY <1>1, <1>2 DEF ClientShows

\* Main frees a chunk only when no pointer of the stream leads to it any more.
THEOREM NoDanglingCorrect == Spec => []NoDanglingEnds
<1>1. IInv => NoDanglingEnds
  BY DEF IInv, Freed, NoDanglingEnds
<1> QED
  BY <1>1, InitInv, InvStep, PTL DEF Spec

\* Whatever the network does to the datagrams, and for every width of the history
\* and the screen, the client shows consecutive drawn chunks in order.
THEOREM ClientShowsCorrect == Spec => []ClientShows
BY InitInv, InvStep, ShowsInOrder, PTL DEF Spec

-----------------------------------------------------------------------------
(* Types. *)

\* A set of natural numbers that has a member has a least one.
LEMMA Least ==
  ASSUME NEW S \in SUBSET Nat, S # {}
  PROVE  \E n \in S : \A m \in S : n <= m
<1> DEFINE R == OpToRel(<, Nat)
<1>1. \A x, y \in Nat : y < x => <<y, x>> \in R
  BY DEF OpToRel
<1>2. IsWellFoundedOn(R, Nat)
  BY NatLessThanWellFounded
<1> HIDE DEF R
<1>3. PICK n \in S : \A m \in S : <<m, n>> \notin R
  BY <1>2, WFMin
<1>4. \A m \in S : ~(m < n)
  BY <1>1, <1>3
<1> QED
  BY <1>4

\* The function that Before defines by recursion exists: a shortest piece of it that
\* does not would have one before it that does.
LEMMA BeforeDef ==
  Before = [c \in 1 .. MaxChunks + 1 |-> IF c = 1 THEN 0 ELSE Before[c - 1] + length[c - 1]]
<1> DEFINE Next1(f, m) == [c \in 1 .. m + 1 |-> IF c = 1 THEN 0 ELSE f[c - 1] + length[c - 1]]
           Not == {m \in Nat : ~ \E f : f = Next1(f, m)}
<1>1. MaxChunks \notin Not
  <2>1. SUFFICES ASSUME MaxChunks \in Not PROVE FALSE
    OBVIOUS
  <2>2. PICK m \in Not : \A k \in Not : m <= k
    <3>1. Not \in SUBSET Nat
      OBVIOUS
    <3> HIDE DEF Not
    <3> QED
      BY <2>1, <3>1, Least
  <2>3. PICK f : m # 0 => f = Next1(f, m - 1)
    BY <2>2
  <2>4. \A c \in 1 .. m + 1 : Next1(f, m)[c] = Next1(Next1(f, m), m)[c]
    BY <2>3
  <2>5. Next1(f, m) = Next1(Next1(f, m), m)
    BY <2>4
  <2>6. \E g : g = Next1(g, m)
    BY <2>5
  <2> QED
    BY <2>2, <2>6
<1>2. PICK f : f = Next1(f, MaxChunks)
  BY <1>1
<1> QED
  BY <1>2 DEF Before

LEMMA BeforeInt ==
  ASSUME length \in [Chunk -> -1 .. MaxLength], NEW c \in 1 .. MaxChunks + 1
  PROVE  Before[c] \in Int
<1> DEFINE Not == {d \in 1 .. MaxChunks + 1 : Before[d] \notin Int}
<1>1. SUFFICES ASSUME Not # {} PROVE FALSE
  OBVIOUS
<1>2. PICK d \in Not : \A k \in Not : d <= k
  <2>1. Not \in SUBSET Nat
    OBVIOUS
  <2> HIDE DEF Not
  <2> QED
    BY <1>1, <2>1, Least
<1>3. Before[d] = IF d = 1 THEN 0 ELSE Before[d - 1] + length[d - 1]
  BY BeforeDef
<1>4. CASE d # 1
  <2>1. d - 1 \in 1 .. MaxChunks + 1 /\ d - 1 \in Chunk /\ d - 1 \notin Not
    BY <1>2, <1>4 DEF Chunk
  <2>2. Before[d - 1] \in Int /\ length[d - 1] \in Int
    BY <2>1
  <2> QED
    BY <1>2, <1>3, <1>4, <2>2
<1> QED
  BY <1>2, <1>3, <1>4

LEMMA CounterType == \A k \in Int : k % Modulus \in Counter
  BY DEF Counter

\* A column of a datagram stands for a chunk or for none.
LEMMA SentType ==
  ASSUME NEW columns \in [1 .. History -> Pointer], net \subseteq Seq(Pointer), send_graphic(columns)
  PROVE  net' \subseteq Seq(Pointer)
<1> DEFINE p == [k \in 1 .. Columns - 2 |-> graphic(columns)[k]]
<1>1. (4 + 2 * Columns) \div 2 - 4 = Columns - 2
  OBVIOUS
<1>2. net' = net \cup {p}
  BY <1>1 DEF send_graphic
<1>3. ASSUME NEW k \in 1 .. Columns - 2 PROVE p[k] \in Pointer
  BY <1>3 DEF graphic, Pointer
<1>4. p \in Seq(Pointer)
  <2>1. Columns - 2 \in Nat
    OBVIOUS
  <2> QED
    BY <1>3, <2>1
<1> QED
  BY <1>2, <1>4

LEMMA InitTypes == Init => TypeOK
<1> SUFFICES ASSUME Init PROVE TypeOK
  OBVIOUS
<1>1. Modulus \in Nat \ {0}
  OBVIOUS
<1>2. /\ bytesIn \in Counter /\ bytesOut \in Counter /\ nRead \in 0 .. MaxChunks
      /\ length \in [Chunk -> -1 .. MaxLength]
  BY <1>1 DEF Init, Counter
<1>3. /\ written \in Seq(Chunk) /\ drawn \in Seq(Chunk) /\ lags \in Seq(Int)
      /\ net \cup {client} \subseteq Seq(Pointer)
  BY DEF Init
<1> QED
  BY <1>2, <1>3 DEF Init, TypeOK, Pointer

LEMMA EnqueueTypes ==
  ASSUME TypeOK, NEW n \in -1 .. MaxLength, nRead < MaxChunks, Enqueue(nRead + 1, n),
         nRead' = nRead + 1, UNCHANGED <<fds, freed, drawVars, client>>,
         written' \in Seq(Chunk), pc' \in {"drain", "end"}
  PROVE  TypeOK'
<1>1. nRead' \in 0 .. MaxChunks /\ nRead + 1 \in Chunk
  BY DEF TypeOK, Chunk
<1>2. /\ next' \in [Chunk -> Pointer] /\ prev' \in [Chunk -> Pointer]
      /\ head' \in Pointer /\ tail' \in Pointer
      /\ length' \in [Chunk -> -1 .. MaxLength]
  BY <1>1 DEF TypeOK, Enqueue, Pointer, Null
<1>3. bytesIn' \in Counter /\ bytesOut' \in Counter
  <2>1. bytesIn + n \in Int
    BY DEF TypeOK, Counter
  <2> QED
    BY <2>1, CounterType DEF TypeOK, Enqueue
<1> QED
  BY <1>1, <1>2, <1>3 DEF TypeOK, fds, drawVars

LEMMA DequeueTypes ==
  ASSUME TypeOK, IInv, tail # Null, Dequeue(tail)
  PROVE  /\ tail \in Chunk /\ {head', tail'} \subseteq Pointer
         /\ {next', prev'} \subseteq [Chunk -> Pointer]
         /\ length' \in [Chunk -> -1 .. MaxLength]
         /\ bytesIn' \in Counter /\ bytesOut' \in Counter
<1>1. tail \in Chunk /\ head' = Null /\ tail' = Null /\ prev' = prev /\ next' = next
  BY DequeueEmpties DEF IInv, Queue, Dequeue, Chunk, Null
<1>2. bytesOut + length[tail] \in Int
  BY <1>1 DEF TypeOK, Counter
<1>3. bytesOut' \in Counter
  BY <1>2, CounterType DEF Dequeue
<1> QED
  BY <1>1, <1>3 DEF TypeOK, Dequeue, Pointer, Null

LEMMA TypeStep == TypeOK /\ IInv /\ [Next]_vars => TypeOK'
<1> SUFFICES ASSUME TypeOK, IInv, [Next]_vars PROVE TypeOK'
  OBVIOUS
<1>1. CASE SlimprotoInit \/ Open \/ EndOfFile \/ ClientReceives \/ Ended \/ UNCHANGED vars
  BY <1>1 DEF SlimprotoInit, Open, EndOfFile, ClientReceives, Ended, TypeOK,
              vars, fds, queueVars, drawVars
<1>2. CASE Copy \/ CopyReadError \/ CopyWriteError
  <2>1. nRead + 1 \in Chunk /\ nRead < MaxChunks /\ nRead' = nRead + 1 /\ pc' \in {"drain", "end"}
        /\ UNCHANGED <<fds, freed, drawVars, client>>
    BY <1>2 DEF TypeOK, Copy, CopyReadError, CopyWriteError, Chunk
  <2>2. written' \in Seq(Chunk)
    <3>1. written \in Seq(Chunk) /\ (written' = written \/ written' = Append(written, nRead + 1))
      BY <1>2 DEF TypeOK, Copy, CopyReadError, CopyWriteError
    <3> QED
      BY <2>1, <3>1
  <2>3. \E n \in -1 .. MaxLength : Enqueue(nRead + 1, n)
    <3>1. -1 \in -1 .. MaxLength /\ 1 .. MaxLength \subseteq -1 .. MaxLength
      OBVIOUS
    <3> QED
      BY <1>2, <3>1 DEF Copy, CopyReadError, CopyWriteError
  <2> QED
    BY <2>1, <2>2, <2>3, EnqueueTypes
<1>3. CASE Drain
  <2>1. tail # Null /\ UNCHANGED <<fds, nRead, written, client>> /\ pc' = "copy"
    BY <1>3 DEF Drain, IInv, Queue
  <2>2. CASE Backlog >= Buffered
    <3>1. Dequeue(tail) /\ Draw(tail) /\ freed' = freed \cup {tail}
      BY <1>3, <2>2 DEF Drain
    <3>2. drawn' \in Seq(Chunk)
      BY <2>1, <3>1, DequeueTypes DEF Draw, TypeOK
    <3>3. lags' \in Seq(Int)
      <4>1. tail \in 1 .. MaxChunks + 1 /\ nRead + 1 \in 1 .. MaxChunks + 1
        BY <2>1, <3>1, DequeueTypes DEF TypeOK, Chunk
      <4>2. Before[nRead + 1] - Before[tail] \in Int
        <5>1. Before[nRead + 1] \in Int /\ Before[tail] \in Int
          BY <4>1, BeforeInt DEF TypeOK
        <5> QED
          BY <5>1
      <4> QED
        BY <3>1, <4>2 DEF Draw, TypeOK
    <3>4. history' \in [1 .. History -> Pointer]
      BY <2>1, <3>1, DequeueTypes DEF Draw, TypeOK, Pointer
    <3>5. net' \cup {client'} \subseteq Seq(Pointer)
      BY <2>1, <3>1, <3>4, SentType DEF Draw, TypeOK
    <3> QED
      BY <2>1, <3>1, <3>2, <3>3, <3>4, <3>5, DequeueTypes DEF TypeOK, fds
  <2>3. CASE ~(Backlog >= Buffered)
    BY <1>3, <2>1, <2>3 DEF Drain, TypeOK, fds, queueVars, drawVars
  <2> QED
    BY <2>2, <2>3
<1>4. CASE DrainSendError
  <2>1. tail # Null /\ Dequeue(tail) /\ UNCHANGED <<fds, nRead, freed, written, drawVars, client>>
        /\ pc' = "end"
    BY <1>4 DEF DrainSendError, IInv, Queue
  <2> QED
    BY <2>1, DequeueTypes DEF TypeOK, fds, drawVars
<1> QED
  BY <1>1, <1>2, <1>3, <1>4 DEF Next

\* Every variable keeps its type: the counters stay in their width when they wrap below
\* 0, and what is sent and drawn are chunks.
THEOREM TypeCorrect == Spec => []TypeOK
BY InitTypes, TypeStep, InitInv, InvStep, PTL DEF Spec
=============================================================================
