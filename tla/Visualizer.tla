----------------------------- MODULE Visualizer -----------------------------
(***************************************************************************)
(* visualizer/: audio is copied from a file to stdout, and each chunk of it*)
(* is kept in a doubly linked list until the client should have played what*)
(* lies before it, then drawn, and the drawing sent to the client in a     *)
(* datagram (main.c, io.c, visualize.c, slimproto.c).                      *)
(***************************************************************************)
EXTENDS Integers, Sequences

CONSTANTS MaxChunks,  \* bound on the chunks of the file
          MaxLength,  \* MAX_AUDIO_CHUNK
          Buffered,   \* bytes_buffered_on_client
          History,    \* HISTORY_WIDTH: columns, one for a chunk
          Columns,    \* columns of graphic, 280 of a short each
          Modulus,    \* the byte counters are unsigned of this size
          Faults      \* what may fail

ASSUME BoundAssumption ==
  /\ MaxChunks \in Nat \ {0} /\ MaxLength \in Nat \ {0} /\ Buffered \in Nat
  /\ History \in Nat \ {0} /\ Columns \in Nat /\ Columns >= History /\ Columns > 2
  /\ Modulus \in Nat /\ Modulus > MaxChunks * MaxLength
ASSUME FaultAssumption ==
  Faults \subseteq {"address", "socket", "open", "alloc", "read", "write", "send"}

Chunk == 1 .. MaxChunks     \* the n-th chunk that read returned
Null  == 0                  \* the NULL pointer

VARIABLES pc,        \* main: "start", "copy", "drain", "end", "crash"
          sockfd,    \* there is a socket
          opened,    \* open succeeded
          nRead,     \* chunks read
          next, prev, length,        \* their fields
          head, tail, bytesIn, bytesOut,  \* the struct stream
          freed,
          written,   \* chunks written to stdout
          drawn,     \* chunks drawn
          lags,      \* and the bytes read from the beginning of each on
          history,   \* the chunk each column stands for, the newest first
          net,       \* the datagrams sent: the columns in them
          client     \* the columns the client shows

queueVars == <<next, prev, length, head, tail, bytesIn, bytesOut>>
drawVars  == <<drawn, lags, history, net>>
fds       == <<sockfd, opened>>
vars == <<pc, fds, nRead, queueVars, freed, written, drawVars, client>>

Init ==
  /\ pc = "start" /\ sockfd = FALSE /\ opened = FALSE /\ nRead = 0
  /\ next = [c \in Chunk |-> Null] /\ prev = [c \in Chunk |-> Null]
  /\ length = [c \in Chunk |-> 0]
  /\ head = Null /\ tail = Null /\ bytesIn = 0 /\ bytesOut = 0
  /\ freed = {} /\ written = <<>> /\ drawn = <<>> /\ lags = <<>>
  /\ history = [k \in 1 .. History |-> Null]
  /\ net = {} /\ client = <<>>

\* slimproto_init: without a socket it returns before the address is set up, and main
\* does not look at what it returns.  A bad address is the end.
SlimprotoInit ==
  /\ pc = "start"
  /\ \/ sockfd' = TRUE  /\ pc' = "open"
     \/ sockfd' = TRUE  /\ pc' = "end"  /\ "address" \in Faults
     \/ sockfd' = FALSE /\ pc' = "open" /\ "socket" \in Faults
  /\ UNCHANGED <<opened, nRead, queueVars, freed, written, drawVars, client>>

\* main opens the file: -1 passes for a file descriptor.  io_stream_alloc has no
\* return statement; main gets the pointer only if it is still in the register.
Open ==
  /\ pc = "open"
  /\ opened' \in IF "open" \in Faults THEN BOOLEAN ELSE {TRUE}
  /\ pc' \in IF "alloc" \in Faults THEN {"copy", "crash"} ELSE {"copy"}
  /\ UNCHANGED <<sockfd, nRead, queueVars, freed, written, drawVars, client>>

\* Faulty variant: the counters are signed.
EnqueueSigned(c, n) ==
  /\ length' = [length EXCEPT ![c] = n]
  /\ next' = [next EXCEPT ![c] = head]
  /\ prev' = [prev EXCEPT ![c] = Null]
  /\ head' = c
  /\ tail' = IF tail = Null THEN c ELSE tail
  /\ bytesIn' = bytesIn + n
  /\ UNCHANGED bytesOut

\* io_enqueue_chunk, for a chunk of n bytes; the prev of the chunk that was head
\* stays NULL.
Enqueue(c, n) ==
  /\ length' = [length EXCEPT ![c] = n]
  /\ next' = [next EXCEPT ![c] = head]
  /\ prev' = [prev EXCEPT ![c] = Null]
  /\ head' = c
  /\ tail' = IF tail = Null THEN c ELSE tail
  /\ bytesIn' = (bytesIn + n) % Modulus
  /\ UNCHANGED bytesOut

\* Faulty variant: tail keeps pointing to the chunk that is taken out.
DequeueHeadOnly(c) ==
  /\ head' = Null /\ UNCHANGED <<tail, next>>
  /\ bytesOut' = (bytesOut + length[c]) % Modulus
  /\ UNCHANGED <<prev, length, bytesIn>>

\* io_dequeue_chunk, for c = tail.
Dequeue(c) ==
  /\ IF prev[c] = Null
     THEN head' = Null /\ tail' = Null /\ UNCHANGED next
     ELSE /\ next' = [next EXCEPT ![prev[c]] = Null]
          /\ tail' = prev[c] /\ UNCHANGED head
  /\ bytesOut' = (bytesOut + length[c]) % Modulus
  /\ UNCHANGED <<prev, length, bytesIn>>

\* io_pass_through_and_enqueue, all well.
Copy ==
  /\ pc = "copy" /\ opened /\ nRead < MaxChunks
  /\ \E n \in 1 .. MaxLength : Enqueue(nRead + 1, n)
  /\ nRead' = nRead + 1
  /\ written' = Append(written, nRead + 1)
  /\ pc' = "drain"
  /\ UNCHANGED <<fds, freed, drawVars, client>>

\* read returns -1 (the file has failed, or was never opened): the chunk of -1
\* bytes is enqueued, write(.., -1) returns -1 too, and that is no error.
CopyReadError ==
  /\ pc = "copy" /\ nRead < MaxChunks
  /\ ~opened \/ "read" \in Faults
  /\ Enqueue(nRead + 1, -1)
  /\ nRead' = nRead + 1
  /\ pc' = "drain"
  /\ UNCHANGED <<fds, freed, written, drawVars, client>>

\* write takes less than the chunk: the copying ends.
CopyWriteError ==
  /\ pc = "copy" /\ opened /\ nRead < MaxChunks /\ "write" \in Faults
  /\ \E n \in 1 .. MaxLength : Enqueue(nRead + 1, n)
  /\ nRead' = nRead + 1
  /\ pc' = "end"
  /\ UNCHANGED <<fds, freed, written, drawVars, client>>

EndOfFile ==
  /\ pc = "copy" /\ opened
  /\ pc' = "end"
  /\ UNCHANGED <<fds, nRead, queueVars, freed, written, drawVars, client>>

\* Bytes in the file before chunk c, for the lag of what is drawn.
Before[c \in 1 .. MaxChunks + 1] == IF c = 1 THEN 0 ELSE Before[c - 1] + length[c - 1]

\* The columns of graphic: the history at its right end, the newest outermost.
graphic(columns) == [k \in 1 .. Columns |->
  IF k <= Columns - History THEN Null ELSE columns[Columns - k + 1]]

\* slimproto_send_graphic is given the length 560, in bytes, and copies as many
\* shorts behind the four of the header; sendto takes their number for bytes.
send_graphic(columns) ==
  LET p == 4 + 2 * Columns
  IN net' = net \cup {[k \in 1 .. p \div 2 - 4 |-> graphic(columns)[k]]}

\* Faulty variant: the columns are moved on from the newest, which spreads.
DrawSpreads(c) ==
  /\ history' = [k \in 1 .. History |-> IF k = 1 THEN c ELSE history[1]]
  /\ drawn' = Append(drawn, c) /\ lags' = Append(lags, Before[nRead + 1] - Before[c])
  /\ send_graphic(history')

\* visualize: the columns move on, chunk c (its power) is the newest, and they
\* are sent to the client.
Draw(c) ==
  /\ history' = [k \in 1 .. History |-> IF k = 1 THEN c ELSE history[k - 1]]
  /\ drawn' = Append(drawn, c) /\ lags' = Append(lags, Before[nRead + 1] - Before[c])
  /\ send_graphic(history')

Backlog == (bytesIn - bytesOut) % Modulus

\* main draws the oldest chunk when the backlog is as long as what the client has
\* buffered, and frees it.
Drain ==
  /\ pc = "drain" /\ (sockfd \/ Backlog < Buffered)
  /\ IF Backlog >= Buffered
     THEN Dequeue(tail) /\ Draw(tail) /\ freed' = freed \cup {tail}
     ELSE UNCHANGED <<queueVars, freed, drawVars>>
  /\ pc' = "copy"
  /\ UNCHANGED <<fds, nRead, written, client>>

\* sendto fails, as it always does without a socket: exit.
DrainSendError ==
  /\ pc = "drain" /\ Backlog >= Buffered /\ (~sockfd \/ "send" \in Faults)
  /\ Dequeue(tail)
  /\ pc' = "end"
  /\ UNCHANGED <<fds, nRead, freed, written, drawVars, client>>

\* A datagram arrives, if it does, in any order and any number of times.
ClientReceives ==
  /\ client' \in net
  /\ UNCHANGED <<pc, fds, nRead, queueVars, freed, written, drawVars>>

\* The program has ended, or MaxChunks is reached.
Ended == (pc \in {"end", "crash"} \/ (pc = "copy" /\ nRead = MaxChunks)) /\ UNCHANGED vars

Next == \/ SlimprotoInit \/ Open \/ Copy \/ CopyReadError \/ CopyWriteError \/ EndOfFile
        \/ Drain \/ DrainSendError \/ ClientReceives \/ Ended

Spec == Init /\ [][Next]_vars

-----------------------------------------------------------------------------
(* Properties. *)

Counter == 0 .. Modulus - 1
Pointer == Chunk \cup {Null}

TypeOK ==
  /\ pc \in {"start", "open", "copy", "drain", "end", "crash"} /\ {sockfd, opened} \subseteq BOOLEAN
  /\ nRead \in 0 .. MaxChunks
  /\ {next, prev} \subseteq [Chunk -> Pointer] /\ {head, tail} \subseteq Pointer
  /\ length \in [Chunk -> -1 .. MaxLength]
  /\ bytesIn \in Counter /\ bytesOut \in Counter
  /\ freed \subseteq Chunk
  /\ written \in Seq(Chunk)
  /\ drawn \in Seq(Chunk) /\ lags \in Seq(Int)
  /\ history \in [1 .. History -> Pointer]
  /\ net \cup {client} \subseteq Seq(Pointer)

\* No pointer of the stream leads to a chunk that main has freed, whatever the
\* order in which the list has been emptied and filled again.
NoDanglingEnds == head \notin freed /\ tail \notin freed

\* What the client shows stands for consecutive drawn chunks, in the order of the
\* stream and the newer to the right, through read errors and counters that wrap,
\* and whatever datagrams were lost, doubled or overtaken.  The two columns on the
\* right, of the newest chunks, are never sent.
Column(n, k) == LET m == n - (Columns - k)
                IN IF k > Columns - History /\ m > 0 THEN drawn[m] ELSE Null
ClientShows ==
  client # <<>> =>
    /\ \E n \in 1 .. Len(drawn) : \A k \in 1 .. Columns - 2 : client[k] = Column(n, k)
    /\ \A j, k \in 1 .. Columns - 2 : j < k /\ client[j] # Null => client[j] < client[k]

\* "each of the audio chunks is held until the client reaches the corresponding
\* point in the stream" (howto.txt): a chunk is drawn only when Buffered bytes
\* have been read from its beginning on.
HeldUntilReached == \A k \in 1 .. Len(lags) : lags[k] >= Buffered
=============================================================================
