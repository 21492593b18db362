----------------------------- MODULE PartsProofs -----------------------------
(***************************************************************************)
(* The parts that share no state: for each of them an invariant of its own *)
(* that its actions keep. A step of the whole is a step of one part, and   *)
(* leaves the others as they are.                                          *)
(***************************************************************************)
EXTENDS Parts, OutputDevicesProofs, SequenceTheorems, FiniteSetTheorems, TLAPS

-----------------------------------------------------------------------------
(* DeviceStream: what is written to a device.                              *)

\* The bytes from first to last are a sequence of numbers.
LEMMA BytesType ==
  ASSUME NEW a \in Nat, NEW n \in Nat
  PROVE  /\ Stream!Bytes(a + 1, a + n) \in Seq(Nat)
         /\ Len(Stream!Bytes(a + 1, a + n)) = n
         /\ \A i \in 1..n : Stream!Bytes(a + 1, a + n)[i] = a + i
<1>1. (a + n) - (a + 1) + 1 = n
  OBVIOUS
<1>2. Stream!Bytes(a + 1, a + n) = [i \in 1..n |-> (a + 1) + i - 1]
  BY <1>1 DEF Stream!Bytes
<1>3. \A i \in 1..n : (a + 1) + i - 1 = a + i /\ a + i \in Nat
  OBVIOUS
<1>4. [i \in 1..n |-> (a + 1) + i - 1] \in Seq(Nat)
  BY <1>3
<1>5. QED
  BY <1>2, <1>3, <1>4

\* So are the first n bytes.
LEMMA BytesFirst ==
  ASSUME NEW n \in Nat
  PROVE  /\ Stream!Bytes(1, n) \in Seq(Nat) /\ Len(Stream!Bytes(1, n)) = n
         /\ \A i \in 1..n : Stream!Bytes(1, n)[i] = i
<1>1. n - 1 + 1 = n /\ \A i \in 1..n : 1 + i - 1 = i /\ i \in Nat
  OBVIOUS
<1>2. Stream!Bytes(1, n) = [i \in 1..n |-> 1 + i - 1]
  BY <1>1 DEF Stream!Bytes
<1>3. [i \in 1..n |-> 1 + i - 1] \in Seq(Nat)
  BY <1>1
<1>4. QED
  BY <1>1, <1>2, <1>3

\* Three pieces one after the other, put together in either order.
LEMMA ConcatThree ==
  ASSUME NEW s \in Seq(Nat), NEW t \in Seq(Nat), NEW u \in Seq(Nat)
  PROVE  (s \o t) \o u = s \o (t \o u)
BY ConcatAssociative, SMTT(20)

\* The next n bytes continue those that there are.
LEMMA BytesConcat ==
  ASSUME NEW a \in Nat, NEW n \in Nat
  PROVE  Stream!Bytes(1, a) \o Stream!Bytes(a + 1, a + n) = Stream!Bytes(1, a + n)
<1>1. /\ Stream!Bytes(1, a) \in Seq(Nat) /\ Len(Stream!Bytes(1, a)) = a
      /\ \A i \in 1..a : Stream!Bytes(1, a)[i] = i
  BY BytesFirst
<1>2. /\ Stream!Bytes(1, a + n) \in Seq(Nat) /\ Len(Stream!Bytes(1, a + n)) = a + n
      /\ \A i \in 1..(a + n) : Stream!Bytes(1, a + n)[i] = i
  BY a + n \in Nat, BytesFirst
<1>3. /\ Stream!Bytes(a + 1, a + n) \in Seq(Nat)
      /\ Len(Stream!Bytes(a + 1, a + n)) = n
      /\ \A i \in 1..n : Stream!Bytes(a + 1, a + n)[i] = a + i
  BY BytesType
<1>4. /\ Stream!Bytes(1, a) \o Stream!Bytes(a + 1, a + n) \in Seq(Nat)
      /\ Len(Stream!Bytes(1, a) \o Stream!Bytes(a + 1, a + n)) = a + n
      /\ \A i \in 1..(a + n) :
           (Stream!Bytes(1, a) \o Stream!Bytes(a + 1, a + n))[i]
             = IF i <= a THEN Stream!Bytes(1, a)[i]
                         ELSE Stream!Bytes(a + 1, a + n)[i - a]
  BY <1>1, <1>3, ConcatProperties
<1>5. \A i \in 1..(a + n) :
        (Stream!Bytes(1, a) \o Stream!Bytes(a + 1, a + n))[i]
          = Stream!Bytes(1, a + n)[i]
  <2>1. SUFFICES ASSUME NEW i \in 1..(a + n)
                 PROVE  (IF i <= a THEN Stream!Bytes(1, a)[i]
                                   ELSE Stream!Bytes(a + 1, a + n)[i - a]) = i
    BY <1>2, <1>4
  <2>2. CASE i <= a
    BY <1>1, <2>2
  <2>3. CASE ~(i <= a)
    <3>1. i - a \in 1..n /\ a + (i - a) = i
      BY <2>3
    <3>2. QED
      BY <1>3, <2>3, <3>1
  <2>4. QED
    BY <2>2, <2>3
<1>6. QED
  BY <1>2, <1>4, <1>5, SeqEqual

\* What is in the buffer and what has reached the device are all the bytes that
\* were accepted, as long as no piece has failed; a closed device has no buffer.
StreamInv ==
  /\ Stream!TypeOK
  /\ refused = 0 /\ dropped = 0 => written \o buffer = Stream!Bytes(1, accepted)
  /\ ~is_open => buffer = << >>

\* A piece that fails leaves a beginning of it, and is counted.
LEMMA FailsType ==
  ASSUME StreamConstants, Stream!TypeOK, NEW before \in Seq(Nat),
         NEW piece \in Seq(Nat), Stream!Fails(before, piece)
  PROVE  /\ written' \in Seq(Nat)
         /\ refused + 1 \in 1..MaxFailures /\ dropped + 1 \in 1..MaxFailures
<1>1. PICK k \in 0..Len(piece) : written' = before \o SubSeq(piece, 1, k)
  BY DEF Stream!Fails
<1>2. SubSeq(piece, 1, k) \in Seq(Nat)
  BY <1>1
<1>3. refused + dropped < MaxFailures
  BY DEF Stream!Fails
<1>4. written' \in Seq(Nat)
  BY <1>1, <1>2
<1>5. QED
  BY <1>3, <1>4 DEF Stream!TypeOK, StreamConstants

\* A write that goes on with what the buffer has left keeps the order of the bytes.
LEMMA TakeKeeps ==
  ASSUME StreamConstants, StreamInv, NEW n \in 1..MaxWrite, Stream!MayWrite(n),
         NEW kept \in Seq(Nat), NEW before \in Seq(Nat),
         refused = 0 /\ dropped = 0 => before \o kept = Stream!Bytes(1, accepted),
         n < BufSize => Len(kept) + n <= BufSize,
         n >= BufSize => kept = << >>,
         Stream!Take(n, kept, before), UNCHANGED <<is_open, dropped>>
  PROVE  StreamInv'
<1>1. /\ n \in Nat /\ accepted \in Nat /\ accepted + n \in 0..MaxBytes /\ is_open
      /\ refused \in Nat /\ dropped \in Nat
  BY DEF StreamInv, Stream!TypeOK, Stream!MayWrite, StreamConstants
<1>2. /\ Stream!Piece(n) \in Seq(Nat) /\ Len(Stream!Piece(n)) = n
      /\ Stream!Bytes(1, accepted) \o Stream!Piece(n) = Stream!Bytes(1, accepted + n)
  BY <1>1, BytesType, BytesConcat DEF Stream!Piece
<1>3. CASE n < BufSize
  <2>1. /\ buffer' = kept \o Stream!Piece(n) /\ written' = before
        /\ accepted' = accepted + n /\ refused' = refused
    BY <1>1, <1>3 DEF Stream!Take, StreamConstants
  <2>2. buffer' \in Seq(Nat) /\ Len(buffer') <= BufSize
    BY <1>2, <1>3, <2>1
  <2>3. Stream!TypeOK'
    BY <1>1, <2>1, <2>2 DEF StreamInv, Stream!TypeOK
  <2>4. ASSUME refused' = 0, dropped' = 0
        PROVE  written' \o buffer' = Stream!Bytes(1, accepted')
    <3>1. before \o kept = Stream!Bytes(1, accepted)
      BY <2>1, <2>4
    <3>2. before \o (kept \o Stream!Piece(n)) = (before \o kept) \o Stream!Piece(n)
      <4>1. /\ kept \in Seq(Nat) /\ before \in Seq(Nat)
            /\ Stream!Piece(n) \in Seq(Nat)
        BY <1>2
      <4>2. QED
        BY ONLY <4>1, ConcatThree
    <3>3. QED
      BY <1>2, <2>1, <3>1, <3>2
  <2>5. QED
    BY <1>1, <2>3, <2>4 DEF StreamInv
<1>4. CASE n >= BufSize
  <2>1. buffer' = << >> /\ kept = << >>
    BY <1>1, <1>4 DEF Stream!Take, StreamConstants
  <2>2. CASE written' = before \o Stream!Piece(n) /\ accepted' = accepted + n
             /\ refused' = refused
    <3>1. written' \in Seq(Nat)
      BY <1>2, <2>2
    <3>2. Stream!TypeOK'
      BY <1>1, <2>1, <2>2, <3>1 DEF StreamInv, Stream!TypeOK, StreamConstants
    <3>3. before \o kept = before /\ written' \o buffer' = written'
      BY <2>1, <3>1, ConcatEmptySeq
    <3>4. QED
      BY <1>1, <1>2, <2>1, <2>2, <3>2, <3>3 DEF StreamInv
  <2>3. CASE Stream!Fails(before, Stream!Piece(n)) /\ refused' = refused + 1
             /\ accepted' = accepted
    <3>1. written' \in Seq(Nat) /\ refused' \in 1..MaxFailures
      BY <1>2, <2>3, FailsType DEF StreamInv
    <3>2. Stream!TypeOK'
      BY <1>1, <2>1, <2>3, <3>1 DEF StreamInv, Stream!TypeOK, StreamConstants
    <3>3. refused' # 0
      BY <3>1
    <3>4. QED
      BY <1>1, <2>1, <3>2, <3>3 DEF StreamInv
  <2>4. QED
    BY <1>1, <1>4, <2>2, <2>3 DEF Stream!Take, StreamConstants
<1>5. QED
  BY <1>1, <1>3, <1>4 DEF StreamConstants

\* The buffer goes to the device, or some of it, and is empty.
LEMMA EmptyKeeps ==
  ASSUME StreamConstants, StreamInv,
         \/ written' = written \o buffer /\ UNCHANGED dropped
         \/ Stream!Fails(written, buffer) /\ dropped' = dropped + 1,
         buffer' = << >>, is_open' \in BOOLEAN, UNCHANGED <<accepted, refused>>
  PROVE  StreamInv'
<1>1. buffer \in Seq(Nat) /\ written \in Seq(Nat) /\ written \o buffer \in Seq(Nat)
      /\ dropped \in Nat
  BY DEF StreamInv, Stream!TypeOK
<1>2. CASE written' = written \o buffer /\ UNCHANGED dropped
  <2>1. written' \o buffer' = written \o buffer
    BY <1>1, <1>2, ConcatEmptySeq
  <2>2. Stream!TypeOK'
    BY <1>1, <1>2 DEF StreamInv, Stream!TypeOK, StreamConstants
  <2>3. QED
    BY <1>2, <2>1, <2>2 DEF StreamInv
<1>3. CASE Stream!Fails(written, buffer) /\ dropped' = dropped + 1
  <2>1. written' \in Seq(Nat) /\ dropped' \in 1..MaxFailures
    BY <1>1, <1>3, FailsType DEF StreamInv
  <2>2. Stream!TypeOK'
    BY <1>1, <2>1 DEF StreamInv, Stream!TypeOK, StreamConstants
  <2>3. QED
    BY <2>1, <2>2 DEF StreamInv
<1>4. QED
  BY <1>2, <1>3

\* A step of the driver or of the device keeps the bytes in order.
LEMMA StreamStep ==
  ASSUME StreamConstants, StreamInv, [Stream!Next]_streamVars
  PROVE  StreamInv'
<1>1. /\ buffer \in Seq(Nat) /\ written \in Seq(Nat)
      /\ Len(buffer) \in Nat /\ Len(buffer) <= BufSize /\ BufSize \in Nat \ {0}
  BY DEF StreamInv, Stream!TypeOK, StreamConstants
<1>2. ASSUME NEW n \in 1..MaxWrite, Stream!WriteFits(n)
      PROVE  StreamInv'
  <2>1. Len(buffer) + n <= BufSize
    BY <1>2 DEF Stream!WriteFits, Stream!Fits
  <2>2. n >= BufSize => buffer = << >>
    <3>1. n \in Nat
      BY DEF StreamConstants
    <3>2. n >= BufSize => Len(buffer) = 0
      BY <1>1, <2>1, <3>1
    <3>3. QED
      BY <1>1, <3>2, EmptySeq
  <2>3. refused = 0 /\ dropped = 0 => written \o buffer = Stream!Bytes(1, accepted)
    BY DEF StreamInv
  <2>4. QED
    BY <1>1, <1>2, <2>1, <2>2, <2>3, TakeKeeps DEF Stream!WriteFits
<1>3. ASSUME NEW n \in 1..MaxWrite, Stream!WriteFlushes(n)
      PROVE  StreamInv'
  <2>1. n \in Nat /\ Stream!MayWrite(n) /\ UNCHANGED <<is_open, dropped>>
    BY <1>3 DEF Stream!WriteFlushes, StreamConstants
  <2>2. CASE Stream!Take(n, << >>, written \o buffer)
    <3>1. << >> \in Seq(Nat) /\ Len(<< >>) = 0 /\ written \o buffer \in Seq(Nat)
          /\ (written \o buffer) \o << >> = written \o buffer
      BY <1>1, EmptySeq, ConcatProperties, ConcatEmptySeq
    <3>2. n < BufSize => Len(<< >>) + n <= BufSize
      BY <1>1, <2>1, <3>1
    <3>3. refused = 0 /\ dropped = 0 =>
            (written \o buffer) \o << >> = Stream!Bytes(1, accepted)
      BY <3>1 DEF StreamInv
    <3>4. QED
      BY <2>1, <2>2, <3>1, <3>2, <3>3, TakeKeeps
  <2>3. CASE Stream!Fails(written, buffer) /\ refused' = refused + 1
             /\ UNCHANGED <<buffer, accepted>>
    <3>1. written' \in Seq(Nat) /\ refused' \in 1..MaxFailures
      BY <1>1, <2>3, FailsType DEF StreamInv
    <3>2. Stream!TypeOK'
      BY <1>1, <2>1, <2>3, <3>1 DEF StreamInv, Stream!TypeOK, StreamConstants
    <3>3. refused' # 0
      BY <3>1
    <3>4. QED
      BY <2>1, <2>3, <3>2, <3>3 DEF StreamInv, Stream!MayWrite
  <2>4. QED
    BY <1>3, <2>2, <2>3 DEF Stream!WriteFlushes
<1>4. ASSUME Stream!Flush
      PROVE  StreamInv'
  BY <1>4, EmptyKeeps DEF Stream!Flush, StreamInv, Stream!TypeOK
<1>5. ASSUME Stream!Close
      PROVE  StreamInv'
  BY <1>5, EmptyKeeps DEF Stream!Close
<1>6. CASE UNCHANGED streamVars
  BY <1>6 DEF streamVars, StreamInv, Stream!TypeOK
<1>7. QED
  BY <1>2, <1>3, <1>4, <1>5, <1>6 DEF Stream!Next

\* A step of the whole is one of the devices' streams or leaves them.
LEMMA StreamOfParts ==
  ASSUME [PartsNext]_partsVars
  PROVE  [Stream!Next]_streamVars
BY DEF PartsNext, partsVars, Others

\* What the driver writes is in its place, in whatever pieces it reaches the
\* device (papplDeviceWrite, -Flush, -Close).
THEOREM StreamAlways == PartsSpec => []StreamInv
<1>1. PartsInit => StreamInv
  <2>1. SUFFICES ASSUME PartsInit PROVE StreamInv
    OBVIOUS
  <2>2. /\ is_open = TRUE /\ buffer = << >> /\ written = << >>
        /\ accepted = 0 /\ refused = 0 /\ dropped = 0
    BY <2>1 DEF PartsInit, Stream!Init
  <2>3. << >> \in Seq(Nat) /\ Len(<< >>) = 0 /\ << >> \o << >> = << >>
    BY EmptySeq, ConcatEmptySeq
  <2>4. Stream!Bytes(1, 0) = << >>
    <3>1. Stream!Bytes(1, 0) \in Seq(Nat) /\ Len(Stream!Bytes(1, 0)) = 0
      BY 0 \in Nat, BytesFirst
    <3>2. QED
      BY <3>1, EmptySeq
  <2>5. Stream!TypeOK
    BY <2>2, <2>3, StreamConstants DEF Stream!TypeOK, StreamConstants
  <2>6. QED
    BY <2>2, <2>3, <2>4, <2>5 DEF StreamInv
<1>2. StreamInv /\ [PartsNext]_partsVars => StreamInv'
  BY StreamConstants, StreamOfParts, StreamStep
<1>3. QED
  BY <1>1, <1>2, PTL DEF PartsSpec

\* What was written without an error reaches the device in order and once, for
\* every size of the buffer and of what is written.
THEOREM StreamIsKept == PartsSpec => []StreamKept
<1>1. StreamInv => StreamKept
  <2>1. SUFFICES ASSUME StreamInv PROVE Stream!StreamKept
    BY DEF StreamKept, In
  <2>2. ~is_open => written \o buffer = written
    <3>1. written \in Seq(Nat) /\ (~is_open => buffer = << >>)
      BY <2>1 DEF StreamInv, Stream!TypeOK
    <3>2. written \o << >> = written
      BY <3>1, ConcatEmptySeq
    <3>3. QED
      BY <3>1, <3>2
  <2>3. QED
    BY <2>1, <2>2 DEF StreamInv, Stream!StreamKept
<1>2. QED
  BY <1>1, StreamAlways, PTL

-----------------------------------------------------------------------------
(* Clients: connections and what their requests are answered.              *)

\* Connections wait where they were made, and in one place.
QueueWaits ==
  \A l \in Clients!Listeners : \A i \in 1..Len(backlog[l]) :
    /\ cpc[backlog[l][i]] = "waiting"
    /\ \A m \in Clients!Listeners : \A k \in 1..Len(backlog[m]) :
         backlog[l][i] = backlog[m][k] => l = m /\ i = k

\* How many clients there may be: the loop over the listeners began below the
\* limit, as long as the system listens, and adds one client for each of them.
Room ==
  /\ main = 0 /\ polling => num_clients <= MaxClients - 1
  /\ main # 0 => num_clients <= MaxClients - 1 + (main - 1)
  /\ num_clients <= MaxClients - 1 + NumListeners

\* How many answers a request has got when it is at a place of the code: each of
\* them is sent when there is none, but after one that declined something.
AnswersAt(c) ==
  /\ cpc[c] \in {"none", "waiting", "idle", "upgrade", "freed"} =>
       answers[c] = 0 /\ ~declined[c]
  /\ cpc[c] = "expect" => answers[c] <= 1
  /\ cpc[c] \in {"expect", "serve", "lost", "header", "system", "printer", "job"} =>
       answers[c] <= 2 /\ (declined[c] \/ answers[c] = 0)
  /\ cpc[c] = "reply" => declined[c] \/ answers[c] <= 1
  /\ cpc[c] = "done" => declined[c] \/ method[c] = "PUT" \/ answers[c] = 1

ClientsInv ==
  /\ Clients!TypeOK
  /\ QueueWaits
  /\ num_clients = Cardinality(Clients!Counted) /\ Room
  /\ \A c \in Conns : AnswersAt(c)

\* What a request has got depends on its own variables only.
LEMMA AnswersKept ==
  ASSUME Clients!TypeOK, \A c \in Conns : AnswersAt(c), NEW d \in Conns,
         NEW pc, cpc' = [cpc EXCEPT ![d] = pc],
         \A c \in Conns \ {d} :
           answers'[c] = answers[c] /\ declined'[c] = declined[c] /\ method'[c] = method[c],
         AnswersAt(d)'
  PROVE  \A c \in Conns : AnswersAt(c)'
<1>1. SUFFICES ASSUME NEW c \in Conns, c # d PROVE AnswersAt(c)'
  OBVIOUS
<1>2. cpc'[c] = cpc[c]
  BY <1>1 DEF Clients!TypeOK
<1>3. QED
  BY <1>1, <1>2 DEF AnswersAt

\* Who is counted when a connection moves on.
LEMMA CountMoves ==
  ASSUME ClientConstants, Clients!TypeOK, NEW d \in Conns, NEW pc,
         cpc' = [cpc EXCEPT ![d] = pc]
  PROVE  /\ IsFiniteSet(Clients!Counted)
         /\ Clients!Counted' = IF pc \in {"none", "waiting"}
                                 THEN Clients!Counted \ {d}
                                 ELSE Clients!Counted \cup {d}
<1>1. IsFiniteSet(Clients!Counted)
  BY FS_Subset DEF Clients!Counted, ClientConstants
<1>2. \A c \in Conns : cpc'[c] = IF c = d THEN pc ELSE cpc[c]
  BY DEF Clients!TypeOK
<1>3. QED
  BY <1>1, <1>2 DEF Clients!Counted

\* Queues that are the same, of connections that wait as before, are as they were.
LEMMA QueueKept ==
  ASSUME Clients!TypeOK, QueueWaits, backlog' = backlog, NEW d \in Conns, NEW pc,
         cpc[d] # "waiting", cpc' = [cpc EXCEPT ![d] = pc]
  PROVE  QueueWaits'
<1>1. ASSUME NEW l \in Clients!Listeners, NEW i \in 1..Len(backlog[l])
      PROVE  cpc'[backlog[l][i]] = "waiting"
  <2>1. cpc[backlog[l][i]] = "waiting" /\ backlog[l][i] \in Conns
    BY DEF QueueWaits, Clients!TypeOK
  <2>2. QED
    BY <2>1 DEF Clients!TypeOK
<1>2. QED
  BY <1>1 DEF QueueWaits

\* What a client's thread may do to its place, its request and the count.
Served(c) ==
  /\ cpc[c] \notin {"none", "waiting", "freed"}
  /\ \E pc \in {"idle", "upgrade", "expect", "serve", "lost", "header", "system",
                "printer", "job", "reply", "done", "freed"} :
       cpc' = [cpc EXCEPT ![c] = pc]
  /\ \E m \in Clients!Methods : method' = [method EXCEPT ![c] = m]
  /\ \E n \in 0..3 : answers' = [answers EXCEPT ![c] = n]
  /\ \E b \in BOOLEAN : declined' = [declined EXCEPT ![c] = b]
  /\ UNCHANGED <<main, revents, polling, backlog, num_clients>>

\* A thread that goes on keeps everything but its own answers.
LEMMA ServedKeeps ==
  ASSUME ClientConstants, ClientsInv, NEW c \in Conns, Served(c), AnswersAt(c)'
  PROVE  ClientsInv'
<1>1. PICK pc \in {"idle", "upgrade", "expect", "serve", "lost", "header", "system",
                   "printer", "job", "reply", "done", "freed"} :
        cpc' = [cpc EXCEPT ![c] = pc]
  BY DEF Served
<1>2. Clients!TypeOK /\ QueueWaits /\ (\A d \in Conns : AnswersAt(d))
  BY DEF ClientsInv
<1>3. Clients!TypeOK'
  <2>1. /\ method' \in [Conns -> Clients!Methods] /\ declined' \in [Conns -> BOOLEAN]
        /\ answers' \in [Conns -> 0..3]
    BY <1>2 DEF Served, Clients!TypeOK
  <2>2. QED
    BY <1>1, <1>2, <2>1 DEF Served, Clients!TypeOK
<1>4. QueueWaits'
  BY <1>1, <1>2, QueueKept DEF Served
<1>5. Clients!Counted' = Clients!Counted
  <2>1. c \in Clients!Counted
    BY DEF Served, Clients!Counted
  <2>2. pc \notin {"none", "waiting"}
    BY <1>1
  <2>3. Clients!Counted' = Clients!Counted \cup {c}
    BY <1>1, <1>2, <2>2, CountMoves
  <2>4. QED
    BY <2>1, <2>3
<1>6. \A d \in Conns : AnswersAt(d)'
  <2>1. \A d \in Conns \ {c} :
          answers'[d] = answers[d] /\ declined'[d] = declined[d] /\ method'[d] = method[d]
    BY <1>2 DEF Served, Clients!TypeOK
  <2>2. QED
    BY <1>1, <1>2, <2>1, AnswersKept
<1>7. QED
  BY <1>3, <1>4, <1>5, <1>6 DEF ClientsInv, Room, Served

\* The places of a thread that handles requests.
AtWork == {"idle", "upgrade", "expect", "serve", "lost", "header", "system",
           "printer", "job", "reply", "done"}

\* A thread goes on without an answer.
LEMMA PassEffect ==
  ASSUME Clients!TypeOK, NEW c \in Conns, NEW from \in AtWork, NEW to \in AtWork,
         Clients!At(c, from), Clients!Pass(c, to)
  PROVE  /\ Served(c) /\ cpc'[c] = to /\ answers'[c] = answers[c]
         /\ declined'[c] = declined[c] /\ method'[c] = method[c]
<1>1. /\ method[c] \in Clients!Methods /\ declined[c] \in BOOLEAN /\ answers[c] \in 0..3
      /\ method' = [method EXCEPT ![c] = method[c]]
      /\ answers' = [answers EXCEPT ![c] = answers[c]]
      /\ declined' = [declined EXCEPT ![c] = declined[c]]
  BY DEF Clients!TypeOK, Clients!Pass
<1>2. /\ cpc' = [cpc EXCEPT ![c] = to] /\ cpc[c] = from
      /\ UNCHANGED <<main, revents, polling, backlog, num_clients>>
  BY DEF Clients!Pass, Clients!Go, Clients!At, Clients!mainVars
<1>3. Served(c)
  BY <1>1, <1>2 DEF Served, AtWork
<1>4. QED
  BY <1>1, <1>2, <1>3 DEF Clients!TypeOK

\* A client that is closed leaves a connection without an answer.
LEMMA CloseKeeps ==
  ASSUME ClientConstants, ClientsInv, NEW c \in Conns, NEW from \in AtWork,
         Clients!At(c, from), Clients!Close(c)
  PROVE  ClientsInv'
<1>1. /\ cpc' = [cpc EXCEPT ![c] = "freed"] /\ cpc[c] = from
      /\ UNCHANGED <<main, revents, polling, backlog, num_clients>>
      /\ method' = [method EXCEPT ![c] = "GET"]
      /\ answers' = [answers EXCEPT ![c] = 0]
      /\ declined' = [declined EXCEPT ![c] = FALSE]
  BY DEF Clients!Close, Clients!Go, Clients!At, Clients!mainVars, Clients!Forget
<1>2. Served(c)
  BY <1>1, 0 \in 0..3, "GET" \in Clients!Methods DEF Served, AtWork, Clients!Methods
<1>3. AnswersAt(c)'
  BY <1>1 DEF AnswersAt, ClientsInv, Clients!TypeOK
<1>4. QED
  BY <1>2, <1>3, ServedKeeps

\* An answer is sent, or the client is closed.
LEMMA RespondEffect ==
  ASSUME ClientConstants, ClientsInv, NEW c \in Conns, NEW from \in AtWork,
         NEW to \in AtWork, NEW refuses \in BOOLEAN,
         Clients!At(c, from), Clients!Respond(c, to, refuses), answers[c] <= 2
  PROVE  \/ ClientsInv'
         \/ /\ Served(c) /\ cpc'[c] = to /\ answers'[c] = answers[c] + 1
            /\ (IF refuses THEN declined'[c] ELSE declined'[c] = declined[c])
            /\ method'[c] = method[c]
<1>1. CASE Clients!Close(c)
  BY <1>1, CloseKeeps
<1>2. CASE ~Clients!Close(c)
  <2>1. /\ cpc' = [cpc EXCEPT ![c] = to] /\ cpc[c] = from
        /\ UNCHANGED <<main, revents, polling, backlog, num_clients>>
        /\ answers' = [answers EXCEPT ![c] = answers[c] + 1]
        /\ declined' = [declined EXCEPT ![c] = declined[c] \/ refuses]
        /\ method' = method
    BY <1>2 DEF Clients!Respond, Clients!Go, Clients!At, Clients!mainVars
  <2>2. method[c] \in Clients!Methods /\ method' = [method EXCEPT ![c] = method[c]]
    BY <2>1 DEF ClientsInv, Clients!TypeOK
  <2>3. answers[c] + 1 \in 0..3 /\ (declined[c] \/ refuses) \in BOOLEAN
    BY DEF ClientsInv, Clients!TypeOK
  <2>4. Served(c)
    BY <2>1, <2>2, <2>3 DEF Served, AtWork
  <2>5. declined'[c] = (declined[c] \/ refuses)
    BY <2>1 DEF ClientsInv, Clients!TypeOK
  <2>6. IF refuses THEN declined'[c] ELSE declined'[c] = declined[c]
    <3>1. declined[c] \in BOOLEAN
      BY DEF ClientsInv, Clients!TypeOK
    <3>2. QED
      BY <2>5, <3>1
  <2>7. QED
    BY <2>1, <2>4, <2>6 DEF ClientsInv, Clients!TypeOK
<1>3. QED
  BY <1>1, <1>2

\* A thread's own steps keep the invariant: reading a request, what comes before
\* it is served, and what serves it.
LEMMA ThreadStep ==
  ASSUME ClientConstants, ClientsInv, NEW c \in Conns,
         \/ Clients!Leave(c) \/ (\E m \in Clients!Methods : Clients!ReadRequest(c, m))
         \/ Clients!Upgrade(c) \/ Clients!Expect(c)
         \/ Clients!ServeOptions(c) \/ Clients!ServePost(c)
         \/ Clients!ServeResource(c) \/ Clients!NotFound(c) \/ Clients!ServeNone(c)
         \/ Clients!ProcessIPP(c) \/ Clients!JobProcessIPP(c)
         \/ Clients!PrinterProcessIPP(c) \/ Clients!SystemProcessIPP(c)
         \/ Clients!Reply(c) \/ Clients!CleanTempFiles(c)
  PROVE  ClientsInv'
<1>1. /\ Clients!TypeOK /\ AnswersAt(c) /\ answers[c] \in 0..3
      /\ method[c] \in Clients!Methods /\ declined[c] \in BOOLEAN
  BY DEF ClientsInv, Clients!TypeOK
<1>2. ASSUME NEW from \in AtWork, NEW to \in AtWork, Clients!At(c, from),
             Clients!Pass(c, to),
             AnswersAt(c) /\ cpc[c] = from /\ cpc'[c] = to /\ answers'[c] = answers[c]
               /\ declined'[c] = declined[c] /\ method'[c] = method[c] => AnswersAt(c)'
      PROVE  ClientsInv'
  <2>1. cpc[c] = from
    BY <1>2 DEF Clients!At
  <2>2. QED
    BY <1>1, <1>2, <2>1, PassEffect, ServedKeeps
<1>3. ASSUME NEW from \in AtWork, NEW to \in AtWork,
             Clients!At(c, from), Clients!Respond(c, to, FALSE), answers[c] <= 2,
             AnswersAt(c) /\ cpc[c] = from /\ cpc'[c] = to /\ answers'[c] = answers[c] + 1
               /\ declined'[c] = declined[c] /\ method'[c] = method[c] => AnswersAt(c)'
      PROVE  ClientsInv'
  <2>1. cpc[c] = from
    BY <1>3 DEF Clients!At
  <2>2. \/ ClientsInv'
        \/ /\ Served(c) /\ cpc'[c] = to /\ answers'[c] = answers[c] + 1
           /\ declined'[c] = declined[c] /\ method'[c] = method[c]
    BY <1>3, FALSE \in BOOLEAN, RespondEffect
  <2>3. QED
    BY <1>1, <1>3, <2>1, <2>2, ServedKeeps
<1>3a. ASSUME NEW from \in AtWork, NEW to \in AtWork,
              Clients!At(c, from), Clients!Respond(c, to, TRUE), answers[c] <= 2,
              cpc[c] = from /\ cpc'[c] = to /\ answers'[c] = answers[c] + 1
                /\ declined'[c] => AnswersAt(c)'
       PROVE  ClientsInv'
  <2>1. cpc[c] = from
    BY <1>3a DEF Clients!At
  <2>2. \/ ClientsInv'
        \/ /\ Served(c) /\ cpc'[c] = to /\ answers'[c] = answers[c] + 1
           /\ declined'[c]
    BY <1>3a, TRUE \in BOOLEAN, RespondEffect
  <2>3. QED
    BY <1>3a, <2>1, <2>2, ServedKeeps
<1>4. ASSUME NEW from \in AtWork, Clients!At(c, from), Clients!Close(c)
      PROVE  ClientsInv'
  BY <1>4, CloseKeeps
<1>5. CASE Clients!Leave(c)
  BY <1>4, <1>5 DEF Clients!Leave, AtWork
<1>6. ASSUME NEW m \in Clients!Methods, Clients!ReadRequest(c, m)
      PROVE  ClientsInv'
  <2>1. /\ cpc' = [cpc EXCEPT ![c] = "upgrade"] /\ cpc[c] = "idle"
        /\ UNCHANGED <<main, revents, polling, backlog, num_clients>>
        /\ method' = [method EXCEPT ![c] = m]
        /\ answers' = [answers EXCEPT ![c] = answers[c]]
        /\ declined' = [declined EXCEPT ![c] = declined[c]]
    BY <1>1, <1>6 DEF Clients!ReadRequest, Clients!Go, Clients!At, Clients!mainVars,
                      Clients!TypeOK
  <2>2. Served(c)
    BY <1>1, <2>1 DEF Served
  <2>3. AnswersAt(c)'
    BY <1>1, <2>1 DEF AnswersAt, Clients!TypeOK
  <2>4. QED
    BY <2>2, <2>3, ServedKeeps
<1>7. CASE Clients!CleanTempFiles(c)
  <2>1. /\ cpc' = [cpc EXCEPT ![c] = "idle"] /\ cpc[c] = "done"
        /\ UNCHANGED <<main, revents, polling, backlog, num_clients>>
        /\ method' = [method EXCEPT ![c] = "GET"]
        /\ answers' = [answers EXCEPT ![c] = 0]
        /\ declined' = [declined EXCEPT ![c] = FALSE]
    BY <1>7 DEF Clients!CleanTempFiles, Clients!Go, Clients!At, Clients!mainVars,
                Clients!Forget
  <2>2. Served(c)
    BY <2>1, 0 \in 0..3 DEF Served, Clients!Methods
  <2>3. AnswersAt(c)'
    BY <1>1, <2>1 DEF AnswersAt, Clients!TypeOK
  <2>4. QED
    BY <2>2, <2>3, ServedKeeps
<1>8. CASE Clients!Upgrade(c)
  <2>1. CASE Clients!Pass(c, "expect")
    BY SMTT(30), <1>2, <1>8, <2>1 DEF Clients!Upgrade, AtWork, AnswersAt
  <2>2. CASE Clients!Close(c)
    BY <1>4, <1>8, <2>2 DEF Clients!Upgrade, AtWork
  <2>3. CASE Clients!Respond(c, "expect", TRUE)
    <3>1. answers[c] = 0
      BY <1>1, <1>8 DEF Clients!Upgrade, Clients!At, AnswersAt
    <3>2. cpc[c] = "upgrade" /\ cpc'[c] = "expect" /\ answers'[c] = answers[c] + 1
            /\ declined'[c] => AnswersAt(c)'
      BY <3>1 DEF AnswersAt
    <3>3. Clients!At(c, "upgrade") /\ answers[c] <= 2
      BY <1>8, <3>1 DEF Clients!Upgrade
    <3>4. QED
      BY <1>3a, <2>3, <3>2, <3>3 DEF AtWork
  <2>4. QED
    BY <1>8, <2>1, <2>2, <2>3 DEF Clients!Upgrade
<1>9. CASE Clients!Expect(c)
  <2>1. CASE Clients!Pass(c, "serve")
    BY <1>2, <1>9, <2>1 DEF Clients!Expect, AtWork, AnswersAt
  <2>2. CASE Clients!Close(c)
    BY <1>4, <1>9, <2>2 DEF Clients!Expect, AtWork
  <2>3. CASE Clients!Respond(c, "serve", TRUE)
    <3>1. answers[c] \in {0, 1}
      BY <1>1, <1>9 DEF Clients!Expect, Clients!At, AnswersAt
    <3>2. cpc[c] = "expect" /\ cpc'[c] = "serve" /\ answers'[c] = answers[c] + 1
            /\ declined'[c] => AnswersAt(c)'
      BY <3>1 DEF AnswersAt
    <3>3. Clients!At(c, "expect") /\ answers[c] <= 2
      BY <1>9, <3>1 DEF Clients!Expect
    <3>4. QED
      BY <1>3a, <2>3, <3>2, <3>3 DEF AtWork
  <2>4. QED
    BY <1>9, <2>1, <2>2, <2>3 DEF Clients!Expect
<1>10. ASSUME NEW from \in {"serve", "lost"}, Clients!At(c, from),
              Clients!Respond(c, "done", FALSE)
       PROVE  ClientsInv'
  <2>1. answers[c] <= 2 /\ (declined[c] \/ answers[c] = 0)
    BY <1>1, <1>10 DEF Clients!At, AnswersAt
  <2>2. AnswersAt(c) /\ cpc[c] = from /\ cpc'[c] = "done" /\ answers'[c] = answers[c] + 1
          /\ declined'[c] = declined[c] /\ method'[c] = method[c] => AnswersAt(c)'
    BY <1>1, <2>1 DEF AnswersAt
  <2>3. QED
    BY <1>3, <1>10, <2>1, <2>2 DEF AtWork
<1>11. CASE Clients!ServeOptions(c)
  BY <1>10, <1>11 DEF Clients!ServeOptions
<1>12. CASE Clients!ServePost(c)
  <2>1. CASE Clients!Respond(c, "done", FALSE)
    BY <1>10, <1>12, <2>1 DEF Clients!ServePost
  <2>2. CASE Clients!Pass(c, "header")
    BY <1>2, <1>12, <2>2 DEF Clients!ServePost, AtWork, AnswersAt
  <2>3. CASE Clients!Close(c)
    BY <1>4, <1>12, <2>3 DEF Clients!ServePost, AtWork
  <2>4. QED
    BY <1>12, <2>1, <2>2, <2>3 DEF Clients!ServePost
<1>13. CASE Clients!ServeResource(c)
  <2>1. CASE Clients!Respond(c, "done", FALSE)
    BY <1>10, <1>13, <2>1 DEF Clients!ServeResource
  <2>2. CASE Clients!Pass(c, "lost")
    BY <1>2, <1>13, <2>2 DEF Clients!ServeResource, AtWork, AnswersAt
  <2>3. QED
    BY <1>13, <2>1, <2>2 DEF Clients!ServeResource
<1>14. CASE Clients!NotFound(c)
  BY <1>10, <1>14 DEF Clients!NotFound
<1>15. CASE Clients!ServeNone(c)
  BY <1>2, <1>15 DEF Clients!ServeNone, AtWork, AnswersAt
<1>16. CASE Clients!ProcessIPP(c)
  <2>1. PICK target \in {"system", "printer", "job", "reply"} : Clients!Pass(c, target)
    BY <1>16 DEF Clients!ProcessIPP
  <2>2. QED
    BY SMTT(30), <1>1, <1>2, <1>16, <2>1 DEF Clients!ProcessIPP, AtWork, AnswersAt
<1>17. ASSUME NEW from \in {"job", "printer", "system"}, Clients!At(c, from),
              Clients!Answer(c)
       PROVE  ClientsInv'
  <2>1. answers[c] <= 2 /\ (declined[c] \/ answers[c] = 0)
    BY <1>1, <1>17 DEF Clients!At, AnswersAt
  <2>2. CASE Clients!Pass(c, "reply")
    BY SMTT(30), <1>1, <1>2, <1>17, <2>1, <2>2 DEF AtWork, AnswersAt
  <2>3. CASE Clients!Respond(c, "reply", FALSE)
    <3>1. AnswersAt(c) /\ cpc[c] = from /\ cpc'[c] = "reply" /\ answers'[c] = answers[c] + 1
            /\ declined'[c] = declined[c] /\ method'[c] = method[c] => AnswersAt(c)'
      BY <1>1, <2>1 DEF AnswersAt
    <3>2. QED
      BY <1>3, <1>17, <2>1, <2>3, <3>1 DEF AtWork
  <2>4. QED
    BY <1>17, <2>2, <2>3 DEF Clients!Answer
<1>18. CASE Clients!JobProcessIPP(c) \/ Clients!PrinterProcessIPP(c)
  BY <1>17, <1>18 DEF Clients!JobProcessIPP, Clients!PrinterProcessIPP
<1>19. CASE Clients!SystemProcessIPP(c)
  <2>1. CASE Clients!Answer(c)
    BY <1>17, <1>19, <2>1 DEF Clients!SystemProcessIPP
  <2>2. CASE Clients!Pass(c, "printer")
    BY <1>2, <1>19, <2>2 DEF Clients!SystemProcessIPP, AtWork, AnswersAt
  <2>3. QED
    BY <1>19, <2>1, <2>2 DEF Clients!SystemProcessIPP
<1>20. CASE Clients!Reply(c)
  <2>1. CASE answers[c] = 0 /\ Clients!Respond(c, "done", FALSE)
    <3>1. AnswersAt(c) /\ cpc[c] = "reply" /\ cpc'[c] = "done" /\ answers'[c] = answers[c] + 1
            /\ declined'[c] = declined[c] /\ method'[c] = method[c] => AnswersAt(c)'
      BY <2>1 DEF AnswersAt
    <3>2. Clients!At(c, "reply") /\ answers[c] <= 2
      BY <1>20, <2>1 DEF Clients!Reply
    <3>3. QED
      BY <1>3, <2>1, <3>1, <3>2 DEF AtWork
  <2>2. CASE answers[c] # 0 /\ Clients!Pass(c, "done")
    BY SMTT(30), <1>1, <1>2, <1>20, <2>2 DEF Clients!Reply, AtWork, AnswersAt
  <2>3. QED
    BY <1>20, <2>1, <2>2 DEF Clients!Reply
<1>21. QED
  BY <1>5, <1>6, <1>7, <1>8, <1>9, <1>11, <1>12, <1>13, <1>14, <1>15, <1>16, <1>18,
     <1>19, <1>20

\* A connection that is made waits at the end of its listener's queue.
LEMMA ConnectKeeps ==
  ASSUME ClientConstants, ClientsInv, NEW c \in Conns, NEW l \in Clients!Listeners,
         Clients!Connect(c, l)
  PROVE  ClientsInv'
<1>1. /\ cpc[c] = "none" /\ cpc' = [cpc EXCEPT ![c] = "waiting"]
      /\ backlog' = [backlog EXCEPT ![l] = Append(backlog[l], c)]
      /\ UNCHANGED <<main, revents, polling, num_clients, method, answers, declined>>
  BY DEF Clients!Connect
<1>2. Clients!TypeOK /\ QueueWaits /\ backlog[l] \in Seq(Conns)
  BY DEF ClientsInv, Clients!TypeOK
<1>3. Clients!TypeOK'
  <2>1. backlog' \in [Clients!Listeners -> Seq(Conns)]
    BY <1>1, <1>2 DEF Clients!TypeOK
  <2>2. QED
    BY <1>1, <1>2, <2>1 DEF Clients!TypeOK
<1>4. \A m \in Clients!Listeners : \A i \in 1..Len(backlog'[m]) :
        \/ m = l /\ i = Len(backlog[l]) + 1 /\ backlog'[m][i] = c
        \/ /\ i \in 1..Len(backlog[m]) /\ backlog'[m][i] = backlog[m][i]
           /\ backlog[m][i] # c /\ cpc'[backlog[m][i]] = "waiting"
  <2>1. SUFFICES ASSUME NEW m \in Clients!Listeners, NEW i \in 1..Len(backlog'[m])
                 PROVE  \/ m = l /\ i = Len(backlog[l]) + 1 /\ backlog'[m][i] = c
                        \/ i \in 1..Len(backlog[m]) /\ backlog'[m][i] = backlog[m][i]
    <3>1. ASSUME NEW m \in Clients!Listeners, NEW i \in 1..Len(backlog[m])
          PROVE  backlog[m][i] # c /\ cpc'[backlog[m][i]] = "waiting"
      <4>1. cpc[backlog[m][i]] = "waiting" /\ backlog[m][i] \in Conns
        BY <1>2 DEF QueueWaits, Clients!TypeOK
      <4>2. QED
        BY <1>1, <1>2, <4>1 DEF Clients!TypeOK
    <3>2. QED
      BY <3>1
  <2>2. CASE m = l
    <3>1. /\ backlog'[m] = Append(backlog[l], c)
          /\ Len(Append(backlog[l], c)) = Len(backlog[l]) + 1
      BY <1>1, <1>2, <2>2, AppendProperties DEF Clients!TypeOK
    <3>2. QED
      BY <1>2, <2>2, <3>1
  <2>3. CASE m # l
    BY <1>1, <1>2, <2>3 DEF Clients!TypeOK
  <2>4. QED
    BY <2>2, <2>3
<1>5. QueueWaits'
  <2>1. cpc'[c] = "waiting"
    BY <1>1, <1>2 DEF Clients!TypeOK
  <2>2. Clients!Listeners' = Clients!Listeners
    BY DEF Clients!Listeners
  <2>3. SUFFICES ASSUME NEW m \in Clients!Listeners, NEW i \in 1..Len(backlog'[m])
                 PROVE  /\ cpc'[backlog'[m][i]] = "waiting"
                        /\ \A n \in Clients!Listeners : \A k \in 1..Len(backlog'[n]) :
                             backlog'[m][i] = backlog'[n][k] => m = n /\ i = k
    BY <2>2 DEF QueueWaits
  <2>4. cpc'[backlog'[m][i]] = "waiting"
    BY <1>4, <2>1
  <2>5. ASSUME NEW n \in Clients!Listeners, NEW k \in 1..Len(backlog'[n]),
               backlog'[m][i] = backlog'[n][k]
        PROVE  m = n /\ i = k
    <3>1. CASE backlog'[m][i] = c
      <4>1. m = l /\ i = Len(backlog[l]) + 1
        BY <1>4, <3>1
      <4>2. n = l /\ k = Len(backlog[l]) + 1
        <5>1. backlog'[n][k] = c
          BY <2>5, <3>1
        <5>2. QED
          BY <1>4, <5>1
      <4>3. QED
        BY <4>1, <4>2
    <3>2. CASE backlog'[m][i] # c
      <4>1. /\ i \in 1..Len(backlog[m]) /\ k \in 1..Len(backlog[n])
            /\ backlog[m][i] = backlog[n][k]
        BY <1>4, <2>5, <3>2
      <4>2. QED
        BY <1>2, <4>1 DEF QueueWaits
    <3>3. QED
      BY <3>1, <3>2
  <2>6. QED
    BY <2>4, <2>5
<1>6. Clients!Counted' = Clients!Counted
  <2>1. c \notin Clients!Counted
    BY <1>1 DEF Clients!Counted
  <2>2. Clients!Counted' = Clients!Counted \ {c}
    BY <1>1, <1>2, CountMoves
  <2>3. QED
    BY <2>1, <2>2
<1>7. \A d \in Conns : AnswersAt(d)'
  <2>1. AnswersAt(c)'
    BY <1>1, <1>2 DEF AnswersAt, ClientsInv, Clients!TypeOK
  <2>2. QED
    BY <1>1, <1>2, <2>1, AnswersKept DEF ClientsInv
<1>8. QED
  BY <1>1, <1>3, <1>5, <1>6, <1>7 DEF ClientsInv, Room

\* A listener's first connection gets a client, or is closed.
LEMMA AcceptKeeps ==
  ASSUME ClientConstants, ClientsInv, Clients!Accept
  PROVE  ClientsInv'
<1>1. /\ Clients!TypeOK /\ QueueWaits /\ Room /\ num_clients = Cardinality(Clients!Counted)
      /\ \A d \in Conns : AnswersAt(d)
      /\ main \in Clients!Listeners /\ backlog[main] \in Seq(Conns) /\ backlog[main] # << >>
  BY DEF ClientsInv, Clients!TypeOK, Clients!Accept
<1>2. /\ backlog' = [backlog EXCEPT ![main] = Tail(backlog[main])]
      /\ main' = main + 1
      /\ UNCHANGED <<revents, polling, method, answers, declined>>
  BY DEF Clients!Accept
<1>3. PICK c \in Conns :
        /\ c = Head(backlog[main])
        /\ 1 \in 1..Len(backlog[main]) /\ c = backlog[main][1]
        /\ Tail(backlog[main]) \in Seq(Conns)
        /\ Len(Tail(backlog[main])) = Len(backlog[main]) - 1
        /\ \A i \in 1..Len(Tail(backlog[main])) :
             Tail(backlog[main])[i] = backlog[main][i + 1]
  BY <1>1, HeadTailProperties
<1>4. cpc[c] = "waiting"
  BY <1>1, <1>3 DEF QueueWaits
<1>5. PICK pc \in {"idle", "none"} :
        /\ cpc' = [cpc EXCEPT ![c] = pc]
        /\ num_clients' = IF pc = "idle" THEN num_clients + 1 ELSE num_clients
  BY <1>3 DEF Clients!Accept
<1>6. main \in 1..NumListeners /\ NumListeners \in Nat /\ MaxClients \in Nat
  BY <1>1 DEF Clients!Listeners, ClientConstants
<1>7. num_clients \in Nat /\ num_clients' \in Nat
  BY <1>1, <1>5 DEF Clients!TypeOK
<1>8. Clients!TypeOK'
  <2>1. backlog' \in [Clients!Listeners -> Seq(Conns)]
    BY <1>1, <1>2, <1>3 DEF Clients!TypeOK
  <2>2. main' \in 0..(NumListeners + 1)
    BY <1>2, <1>6
  <2>3. QED
    BY <1>1, <1>2, <1>5, <1>7, <2>1, <2>2 DEF Clients!TypeOK, Clients!Listeners
<1>9. \A m \in Clients!Listeners : \A i \in 1..Len(backlog'[m]) :
        LET k == IF m = main THEN i + 1 ELSE i IN
          k \in 1..Len(backlog[m]) /\ backlog'[m][i] = backlog[m][k] /\ (m = main => k # 1)
  <2>1. SUFFICES ASSUME NEW m \in Clients!Listeners, NEW i \in 1..Len(backlog'[m])
                 PROVE  LET k == IF m = main THEN i + 1 ELSE i IN
                          k \in 1..Len(backlog[m]) /\ backlog'[m][i] = backlog[m][k]
                            /\ (m = main => k # 1)
    OBVIOUS
  <2>2. CASE m = main
    <3>1. backlog'[m] = Tail(backlog[main])
      BY <1>1, <1>2, <2>2 DEF Clients!TypeOK
    <3>2. i \in 1..Len(Tail(backlog[main])) /\ Len(backlog[main]) \in Nat
      BY <1>1, <3>1
    <3>3. i + 1 \in 1..Len(backlog[main]) /\ i + 1 # 1
      BY <1>3, <3>2
    <3>4. QED
      BY <1>3, <2>2, <3>1, <3>2, <3>3
  <2>3. CASE m # main
    BY <1>1, <1>2, <2>3 DEF Clients!TypeOK
  <2>4. QED
    BY <2>2, <2>3
<1>10. QueueWaits'
  <2>1. Clients!Listeners' = Clients!Listeners
    BY DEF Clients!Listeners
  <2>2. SUFFICES ASSUME NEW m \in Clients!Listeners, NEW i \in 1..Len(backlog'[m])
                 PROVE  /\ cpc'[backlog'[m][i]] = "waiting"
                        /\ \A n \in Clients!Listeners : \A k \in 1..Len(backlog'[n]) :
                             backlog'[m][i] = backlog'[n][k] => m = n /\ i = k
    BY <2>1 DEF QueueWaits
  <2>3. PICK j : /\ j = IF m = main THEN i + 1 ELSE i
                 /\ j \in 1..Len(backlog[m]) /\ backlog'[m][i] = backlog[m][j]
                 /\ m = main => j # 1
    BY <1>9
  <2>4. cpc'[backlog'[m][i]] = "waiting"
    <3>1. cpc[backlog[m][j]] = "waiting" /\ backlog[m][j] \in Conns
      BY <1>1, <2>3 DEF QueueWaits, Clients!TypeOK
    <3>2. backlog[m][j] # c
      BY <1>1, <1>3, <2>3 DEF QueueWaits
    <3>3. QED
      BY <1>1, <1>5, <2>3, <3>1, <3>2 DEF Clients!TypeOK
  <2>5. ASSUME NEW n \in Clients!Listeners, NEW k \in 1..Len(backlog'[n]),
               backlog'[m][i] = backlog'[n][k]
        PROVE  m = n /\ i = k
    <3>1. PICK l : /\ l = IF n = main THEN k + 1 ELSE k
                   /\ l \in 1..Len(backlog[n]) /\ backlog'[n][k] = backlog[n][l]
      BY <1>9
    <3>2. m = n /\ j = l
      <4>1. backlog[m][j] = backlog[n][l]
        BY <2>3, <2>5, <3>1
      <4>2. j \in 1..Len(backlog[m]) /\ l \in 1..Len(backlog[n])
        BY <2>3, <3>1
      <4>3. QED
        BY <1>1, <4>1, <4>2 DEF QueueWaits
    <3>3. QED
      BY <2>3, <3>1, <3>2
  <2>6. QED
    BY <2>4, <2>5
<1>11. num_clients' = Cardinality(Clients!Counted)'
  <2>1. c \notin Clients!Counted
    BY <1>4 DEF Clients!Counted
  <2>2. CASE pc = "idle"
    <3>1. Clients!Counted' = Clients!Counted \cup {c} /\ IsFiniteSet(Clients!Counted)
      BY <1>1, <1>3, <1>5, <2>2, CountMoves
    <3>2. QED
      BY <1>1, <1>5, <2>1, <2>2, <3>1, FS_AddElement
  <2>3. CASE pc = "none"
    <3>1. Clients!Counted' = Clients!Counted \ {c}
      BY <1>1, <1>3, <1>5, <2>3, CountMoves
    <3>2. QED
      BY <1>1, <1>5, <2>1, <2>3, <3>1
  <2>4. QED
    BY <2>2, <2>3
<1>12. Room'
  <2>1. num_clients <= MaxClients - 1 + (main - 1)
    BY <1>1, <1>6 DEF Room
  <2>2. num_clients' <= MaxClients - 1 + main
    BY <1>5, <1>6, <1>7, <2>1
  <2>3. QED
    BY <1>2, <1>6, <1>7, <2>2 DEF Room
<1>13. \A d \in Conns : AnswersAt(d)'
  <2>1. AnswersAt(c)'
    <3>1. answers[c] = 0 /\ ~declined[c] /\ cpc'[c] \in {"none", "idle"}
      BY <1>1, <1>3, <1>4, <1>5 DEF AnswersAt, Clients!TypeOK
    <3>2. QED
      BY <1>2, <3>1 DEF AnswersAt
  <2>2. QED
    BY <1>1, <1>2, <1>3, <1>5, <2>1, AnswersKept
<1>14. QED
  BY <1>8, <1>10, <1>11, <1>12, <1>13 DEF ClientsInv

\* A client that was freed is no longer counted.
LEMMA UncountKeeps ==
  ASSUME ClientConstants, ClientsInv, NEW c \in Conns, Clients!Uncount(c)
  PROVE  ClientsInv'
<1>1. /\ Clients!TypeOK /\ QueueWaits /\ Room /\ num_clients = Cardinality(Clients!Counted)
      /\ \A d \in Conns : AnswersAt(d)
  BY DEF ClientsInv
<1>2. /\ cpc[c] = "freed" /\ cpc' = [cpc EXCEPT ![c] = "none"]
      /\ num_clients' = num_clients - 1
      /\ UNCHANGED <<main, revents, polling, backlog, method, answers, declined>>
  BY DEF Clients!Uncount, Clients!Go, Clients!mainVars
<1>3. /\ Clients!Counted' = Clients!Counted \ {c} /\ c \in Clients!Counted
      /\ IsFiniteSet(Clients!Counted)
  BY <1>1, <1>2, CountMoves DEF Clients!Counted
<1>4. /\ num_clients' = Cardinality(Clients!Counted)' /\ num_clients' \in Nat
  <2>1. /\ Cardinality(Clients!Counted \ {c}) = Cardinality(Clients!Counted) - 1
        /\ IsFiniteSet(Clients!Counted \ {c})
    BY <1>3, FS_RemoveElement
  <2>2. Cardinality(Clients!Counted \ {c}) \in Nat
    BY <2>1, FS_CardinalityType
  <2>3. QED
    BY <1>1, <1>2, <1>3, <2>1, <2>2
<1>5. Clients!TypeOK'
  BY <1>1, <1>2, <1>4 DEF Clients!TypeOK, Clients!Listeners
<1>6. QueueWaits'
  BY <1>1, <1>2, QueueKept
<1>7. Room'
  <2>1. num_clients \in Nat /\ main \in Int /\ MaxClients \in Nat /\ NumListeners \in Nat
    BY <1>1 DEF Clients!TypeOK, ClientConstants
  <2>2. QED
    BY <1>1, <1>2, <2>1 DEF Room
<1>8. \A d \in Conns : AnswersAt(d)'
  <2>1. AnswersAt(c)'
    BY <1>1, <1>2 DEF AnswersAt, Clients!TypeOK
  <2>2. QED
    BY <1>1, <1>2, <2>1, AnswersKept
<1>9. QED
  BY <1>4, <1>5, <1>6, <1>7, <1>8 DEF ClientsInv

\* The main loop: it polls, looks at each listener, and stops listening when there
\* are too many clients.
LEMMA MainLoopStep ==
  ASSUME ClientConstants, ClientsInv, Clients!MainLoop
  PROVE  ClientsInv'
<1>1. /\ main \in 0..(NumListeners + 1) /\ num_clients \in Nat /\ polling \in BOOLEAN
      /\ NumListeners \in Nat /\ MaxClients \in Nat \ {0}
  BY DEF ClientsInv, Clients!TypeOK, ClientConstants
<1>2. ASSUME UNCHANGED <<backlog, num_clients, cpc, method, answers, declined>>,
             main' \in 0..(NumListeners + 1), revents' \in SUBSET Clients!Listeners,
             polling' \in BOOLEAN, Room'
      PROVE  ClientsInv'
  <2>1. Clients!TypeOK'
    BY <1>2 DEF ClientsInv, Clients!TypeOK, Clients!Listeners
  <2>2. QueueWaits' /\ \A c \in Conns : AnswersAt(c)'
    BY <1>2 DEF ClientsInv, QueueWaits, AnswersAt, Clients!Listeners
  <2>3. num_clients' = Cardinality(Clients!Counted)'
    BY <1>2 DEF ClientsInv, Clients!Counted
  <2>4. QED
    BY <1>2, <2>1, <2>2, <2>3 DEF ClientsInv
<1>3. CASE Clients!Poll
  <2>1. Room'
    BY <1>1, <1>3 DEF Clients!Poll, ClientsInv, Room
  <2>2. QED
    BY <1>1, <1>2, <1>3, <2>1 DEF Clients!Poll, ClientsInv, Clients!TypeOK
<1>4. CASE Clients!PollTimeout
  <2>1. Room'
    <3>1. polling' => polling \/ num_clients < MaxClients
      BY <1>1, <1>4 DEF Clients!PollTimeout
    <3>2. Room
      BY DEF ClientsInv
    <3>3. QED
      BY <1>1, <1>4, <3>1, <3>2 DEF Clients!PollTimeout, Room
  <2>2. QED
    BY <1>1, <1>2, <1>4, <2>1 DEF Clients!PollTimeout, ClientsInv, Clients!TypeOK
<1>5. CASE Clients!Skip
  <2>1. main \in 1..NumListeners /\ main' = main + 1 /\ UNCHANGED <<num_clients, polling>>
    BY <1>5 DEF Clients!Skip, Clients!Listeners
  <2>2. Room'
    BY <1>1, <2>1 DEF ClientsInv, Room
  <2>3. main' \in 0..(NumListeners + 1)
    BY <1>1, <2>1
  <2>4. QED
    BY <1>2, <1>5, <2>2, <2>3 DEF Clients!Skip, ClientsInv, Clients!TypeOK
<1>6. CASE Clients!Accept
  BY <1>6, AcceptKeeps
<1>7. CASE Clients!Limit
  <2>1. Room'
    <3>1. polling' => num_clients < MaxClients
      BY <1>1, <1>7 DEF Clients!Limit
    <3>2. Room
      BY DEF ClientsInv
    <3>3. QED
      BY <1>1, <1>7, <3>1, <3>2 DEF Clients!Limit, Room
  <2>2. QED
    BY <1>1, <1>2, <1>7, <2>1 DEF Clients!Limit, ClientsInv, Clients!TypeOK
<1>8. QED
  BY <1>3, <1>4, <1>5, <1>6, <1>7 DEF Clients!MainLoop

\* So every step keeps what is so of the clients.
LEMMA ClientsStep ==
  ASSUME ClientConstants, ClientsInv, [Clients!Next]_clientVars
  PROVE  ClientsInv'
<1>1. CASE UNCHANGED clientVars
  <2>1. Clients!TypeOK' /\ QueueWaits' /\ Room'
    BY <1>1 DEF clientVars, ClientsInv, Clients!TypeOK, QueueWaits, Room, Clients!Listeners
  <2>2. num_clients' = Cardinality(Clients!Counted)'
    BY <1>1 DEF clientVars, ClientsInv, Clients!Counted
  <2>3. \A c \in Conns : AnswersAt(c)'
    BY <1>1 DEF clientVars, ClientsInv, AnswersAt
  <2>4. QED
    BY <2>1, <2>2, <2>3 DEF ClientsInv
<1>2. CASE Clients!MainLoop
  BY <1>2, MainLoopStep
<1>3. ASSUME NEW c \in Conns, Clients!ClientStep(c)
      PROVE  ClientsInv'
  BY <1>3, ConnectKeeps, UncountKeeps, ThreadStep DEF Clients!ClientStep
<1>4. QED
  BY <1>1, <1>2, <1>3 DEF Clients!Next

\* A step of the whole is one of the clients or leaves them.
LEMMA ClientsOfParts ==
  ASSUME [PartsNext]_partsVars
  PROVE  [Clients!Next]_clientVars
BY DEF PartsNext, partsVars, Others

\* Connections wait in one place, clients are counted and stay below the limit,
\* and every request has got what its place in the code says (papplSystemRun,
\* _papplClientRun).
THEOREM ClientsAlways == PartsSpec => []ClientsInv
<1>1. PartsInit => ClientsInv
  <2>1. SUFFICES ASSUME PartsInit PROVE ClientsInv
    OBVIOUS
  <2>2. Clients!Init
    BY <2>1 DEF PartsInit
  <2>3. Clients!TypeOK
    BY <2>2, ClientConstants, EmptySeq
    DEF Clients!Init, Clients!TypeOK, Clients!Methods, ClientConstants
  <2>4. QueueWaits
    <3>1. \A l \in Clients!Listeners : Len(backlog[l]) = 0
      BY <2>2, EmptySeq DEF Clients!Init
    <3>2. QED
      BY <3>1 DEF QueueWaits
  <2>5. num_clients = Cardinality(Clients!Counted)
    <3>1. Clients!Counted = {}
      BY <2>2 DEF Clients!Init, Clients!Counted
    <3>2. QED
      BY <2>2, <3>1, FS_EmptySet DEF Clients!Init
  <2>6. Room
    BY <2>2, ClientConstants DEF Clients!Init, Room, ClientConstants
  <2>7. \A c \in Conns : AnswersAt(c)
    BY <2>2 DEF Clients!Init, AnswersAt
  <2>8. QED
    BY <2>3, <2>4, <2>5, <2>6, <2>7 DEF ClientsInv
<1>2. ClientsInv /\ [PartsNext]_partsVars => ClientsInv'
  BY ClientConstants, ClientsOfParts, ClientsStep
<1>3. QED
  BY <1>1, <1>2, PTL DEF PartsSpec

-----------------------------------------------------------------------------
(* Printers: those of the system, their paths, names and pages.            *)

Bases      == {"", "/"} \cup {PathOf[name].base : name \in PrinterNames}
PathType   == [base : Bases, numbers : Seq(Nat)]
NameType   == PrinterNames \cup {""}
ThreadType == [pc : {"idle", "find", "try", "build", "pages", "remove", "free"},
               name : NameType, path : PathType, n : Nat, object : Nat]

\* What a thread has found of the path is in use, and so is its object.
ThreadUses(t) ==
  /\ thread[t].object \in 0..Len(printer)
  /\ thread[t].object # 0 <=> thread[t].pc \in {"pages", "remove", "free"}
  /\ thread[t].pc = "find" => thread[t].path = Registry!BasePath(thread[t].name)
                              /\ thread[t].name \in PrinterNames

RegistryTypes ==
  /\ multi_queue \in BOOLEAN /\ default_printer_id \in 0..MaxPrinters
  /\ printer \in Seq([name : NameType, path : PathType, freed : BOOLEAN])
  /\ Len(printer) <= MaxPrinters
  /\ printers \subseteq 1..Len(printer)
  /\ thread \in [Creators -> ThreadType]
  /\ \A t \in Creators : ThreadUses(t)

Reserved(path) == path.base \in {"", "/"}

\* With several queues nobody has the path of the system's own pages, and every
\* printer is found by its path.
PathsFree ==
  multi_queue =>
    /\ "unfound" \notin causes
    /\ \A o \in 1..Len(printer) : ~Reserved(printer[o].path)
    /\ \A t \in Creators : thread[t].pc \in {"find", "try", "build"} =>
                             ~Reserved(thread[t].path)

\* A page has the path of its printer.
PagesOwned ==
  \A page \in pages :
    \/ page = Registry!SystemPage
    \/ /\ page.owner \in 1..Len(printer)
       /\ page = [path |-> printer[page.owner].path, owner |-> page.owner]

Creates(t)    == thread[t].pc \in {"find", "try", "build", "pages"}
Deletes(t, o) == thread[t].pc \in {"remove", "free"} /\ thread[t].object = o

\* Unless it is said otherwise there is one thread that creates a printer,
OneCreates ==
  "creations" \notin causes =>
    \A t, u \in Creators : Creates(t) /\ Creates(u) => t = u

\* which has found that no printer has the path of the one it makes
PathFound ==
  causes \cap {"creations", "unfound"} = {} =>
    \A t \in Creators, o \in printers :
      thread[t].pc = "build" => printer[o].path # thread[t].path

\* or its name.
NameFound ==
  causes \cap {"creations", "unfound", "displaced"} = {} =>
    \A t \in Creators, o \in printers : printer[o].name = thread[t].name =>
      /\ thread[t].pc \notin {"try", "build"}
      /\ thread[t].pc = "find" => printer[o].path = thread[t].path

\* What is to be freed is not listed,
FreeUnlisted ==
  causes \cap {"creations", "unfound", "displaced"} = {} =>
    \A t \in Creators : thread[t].pc = "free" => thread[t].object \notin printers

\* a printer is there until it has its pages,
PagesToCome ==
  "unfinished" \notin causes =>
    \A t \in Creators : thread[t].pc = "pages" =>
      /\ ~printer[thread[t].object].freed
      /\ \A u \in Creators : ~Deletes(u, thread[t].object)

\* and one that lingers has a path that no other has or gets.
LingersApart ==
  multi_queue /\ causes \cap {"creations", "replaced"} = {} =>
    \A q \in 1..Len(printer) : Registry!Lingers(q) =>
      /\ \A o \in printers : printer[o].path # printer[q].path
      /\ \A t \in Creators :
           thread[t].pc = "build" => thread[t].path # printer[q].path

RegistryInv ==
  /\ RegistryTypes /\ PathsFree /\ PagesOwned /\ OneCreates /\ PathFound
  /\ NameFound /\ FreeUnlisted /\ PagesToCome /\ LingersApart
  /\ Registry!PrintersKept

\* What a step of a thread leaves to the others; what has happened stays known.
Others2(t) ==
  /\ \A u \in Creators \ {t} : thread'[u] = thread[u]
  /\ thread' \in [Creators -> ThreadType]
  /\ causes \subseteq causes'
  /\ UNCHANGED multi_queue

KeepsPrinters == UNCHANGED <<printers, printer, default_printer_id>>

\* Records of a thread that is idle and of the single queue's path.
LEMMA IdleType ==
  /\ Registry!Single \in PathType /\ Registry!Idle \in ThreadType
  /\ Registry!Idle.pc = "idle" /\ Registry!Idle.object = 0
  /\ Reserved(Registry!Single) /\ Reserved(Registry!SystemPage.path)
  /\ Registry!SystemPage.owner = 0
<1>1. << >> \in Seq(Nat)
  BY EmptySeq
<1>2. /\ Registry!Single = [base |-> "", numbers |-> << >>]
      /\ Registry!SystemPage = [path |-> [base |-> "/", numbers |-> << >>], owner |-> 0]
  BY DEF Registry!Single, Registry!SystemPage, Registry!Path
<1>3. /\ Registry!Single \in PathType
      /\ Reserved(Registry!Single) /\ Reserved(Registry!SystemPage.path)
      /\ Registry!SystemPage.owner = 0
  BY <1>1, <1>2 DEF PathType, Bases, Reserved
<1>4. /\ Registry!Idle \in ThreadType
      /\ Registry!Idle.pc = "idle" /\ Registry!Idle.object = 0
  BY <1>3 DEF Registry!Idle, ThreadType, NameType
<1>5. QED
  BY <1>3, <1>4

\* The paths of names are not those of the system's pages.
LEMMA BasePathType ==
  ASSUME multi_queue \in BOOLEAN, NEW name \in PrinterNames
  PROVE  /\ Registry!BasePath(name) \in PathType /\ name \in NameType
         /\ multi_queue => ~Reserved(Registry!BasePath(name))
<1>1. PICK base, numbers : PathOf[name] = [base |-> base, numbers |-> numbers]
  BY PathConstants, Zenon DEF PathConstants
<1>2. PathOf[name].base = base /\ PathOf[name].numbers = numbers
  BY <1>1
<1>3. PathOf[name] \in PathType
  <2>1. base \in Bases
    BY <1>2, Zenon DEF Bases
  <2>2. numbers \in Seq(Nat)
    BY <1>2, PathConstants, Zenon DEF PathConstants
  <2>3. QED
    BY <1>1, <2>1, <2>2 DEF PathType
<1>4. ~Reserved(PathOf[name])
  BY PathConstants, Zenon DEF PathConstants, Reserved
<1>5. name \in NameType
  BY DEF NameType
<1>6. CASE multi_queue
  BY <1>3, <1>4, <1>5, <1>6 DEF Registry!BasePath
<1>7. CASE ~multi_queue
  BY <1>5, <1>7, IdleType DEF Registry!BasePath
<1>8. QED
  BY <1>6, <1>7

\* A thread begins to create a printer.
LEMMA BeginEffect ==
  ASSUME RegistryTypes, NEW t \in Creators, NEW name \in PrinterNames,
         Registry!Begin(t, name)
  PROVE  /\ Others2(t) /\ KeepsPrinters /\ UNCHANGED pages
         /\ thread[t].pc = "idle" /\ thread'[t].pc = "find" /\ thread'[t].name = name
         /\ thread'[t].path = Registry!BasePath(name) /\ thread'[t].object = 0
         /\ (\E u \in Creators : Creates(u)) => "creations" \in causes'
         /\ (\E o \in printers : /\ printer[o].name = name
                                 /\ printer[o].path # Registry!BasePath(name)) =>
              "displaced" \in causes'
         /\ "unfound" \in causes' => "unfound" \in causes
<1> DEFINE new == [pc |-> "find", name |-> name, path |-> Registry!BasePath(name),
                   n |-> 0, object |-> 0]
<1>1. thread[t].pc = "idle" /\ thread' = [thread EXCEPT ![t] = new]
  BY DEF Registry!Begin
<1>2. new \in ThreadType
  BY BasePathType DEF ThreadType, RegistryTypes
<1>3. /\ new.pc = "find" /\ new.name = name /\ new.path = Registry!BasePath(name)
      /\ new.object = 0
  OBVIOUS
<1> HIDE DEF new
<1>4. thread'[t] = new /\ thread' \in [Creators -> ThreadType]
      /\ \A u \in Creators \ {t} : thread'[u] = thread[u]
  BY <1>1, <1>2 DEF RegistryTypes
<1>5. /\ causes \subseteq causes'
      /\ (\E u \in Creators : Creates(u)) => "creations" \in causes'
      /\ (\E o \in printers : /\ printer[o].name = name
                              /\ printer[o].path # Registry!BasePath(name)) =>
           "displaced" \in causes'
      /\ "unfound" \in causes' => "unfound" \in causes
  BY DEF Registry!Begin, Registry!Creating, Creates
<1>6. QED
  BY <1>1, <1>3, <1>4, <1>5 DEF Registry!Begin, Others2, KeepsPrinters

\* It looks for a printer of its path.
LEMMA FindEffect ==
  ASSUME RegistryTypes, NEW t \in Creators, Registry!FindExisting(t)
  PROVE  LET found == Registry!FindPrinter(thread[t].path) IN
         /\ Others2(t) /\ KeepsPrinters /\ UNCHANGED pages
         /\ thread[t].pc = "find" /\ thread'[t].object = 0
         /\ \/ thread'[t].pc = "idle"
            \/ /\ thread'[t].pc = "build" /\ found = {}
               /\ thread'[t].path = thread[t].path /\ thread'[t].name = thread[t].name
            \/ /\ thread'[t].pc = "try"
               /\ \A o \in found : printer[o].name # thread[t].name
               /\ thread'[t].path = thread[t].path /\ thread'[t].name = thread[t].name
         /\ (\E q \in 1..Len(printer) : /\ Registry!Lingers(q)
                                        /\ printer[q].path = thread[t].path) =>
              "replaced" \in causes'
         /\ (\E q \in printers \ found : printer[q].path = thread[t].path) =>
              "unfound" \in causes'
         /\ "unfound" \in causes' =>
              \/ "unfound" \in causes
              \/ \E q \in printers \ found : printer[q].path = thread[t].path
<1> DEFINE found == Registry!FindPrinter(thread[t].path)
<1>1. /\ thread[t].pc = "find" /\ thread[t].object = 0
      /\ thread[t] \in ThreadType /\ thread \in [Creators -> ThreadType]
      /\ DOMAIN printer = 1..Len(printer)
  BY DEF RegistryTypes, ThreadUses, Registry!FindExisting
<1>2. /\ thread' \in [Creators -> ThreadType] /\ thread'[t].object = 0
      /\ \A u \in Creators \ {t} : thread'[u] = thread[u]
      /\ \/ thread'[t].pc = "idle"
         \/ /\ thread'[t].pc = "build" /\ found = {}
            /\ thread'[t].path = thread[t].path /\ thread'[t].name = thread[t].name
         \/ /\ thread'[t].pc = "try" /\ \A o \in found : printer[o].name # thread[t].name
            /\ thread'[t].path = thread[t].path /\ thread'[t].name = thread[t].name
  <2>1. CASE found = {}
    <3>1. thread' = [thread EXCEPT ![t].pc = "build"]
      BY <2>1 DEF Registry!FindExisting, Registry!Step
    <3>2. QED
      BY <1>1, <2>1, <3>1 DEF ThreadType
  <2>2. CASE found # {} /\ Registry!SameName(t, found)
    <3>1. thread' = [thread EXCEPT ![t] = Registry!Idle]
      BY <2>2 DEF Registry!FindExisting
    <3>2. QED
      BY <1>1, <3>1, IdleType
  <2>3. CASE found # {} /\ ~Registry!SameName(t, found)
    <3>1. thread' = [thread EXCEPT ![t].pc = "try", ![t].n = 2]
      BY <2>3 DEF Registry!FindExisting
    <3>2. \A o \in found : printer[o].name # thread[t].name
      BY <2>3 DEF Registry!SameName
    <3>3. QED
      BY <1>1, <3>1, <3>2 DEF ThreadType
  <2>4. QED
    BY <2>1, <2>2, <2>3
<1>3. /\ causes \subseteq causes'
      /\ (\E q \in 1..Len(printer) : /\ Registry!Lingers(q)
                                     /\ printer[q].path = thread[t].path) =>
           "replaced" \in causes'
      /\ (\E q \in printers \ found : printer[q].path = thread[t].path) =>
           "unfound" \in causes'
      /\ "unfound" \in causes' =>
           \/ "unfound" \in causes
           \/ \E q \in printers \ found : printer[q].path = thread[t].path
  <2>1. causes' = causes \cup Registry!Replaced(thread[t].path)
                    \cup {"unfound" : o \in {q \in printers \ found :
                                              printer[q].path = thread[t].path}}
    BY DEF Registry!FindExisting
  <2>2. QED
    BY <1>1, <2>1 DEF Registry!Replaced
<1>4. QED
  BY <1>1, <1>2, <1>3 DEF Others2, KeepsPrinters, Registry!FindExisting

\* It looks for the path with a number: one is free when no printer has it.
LEMMA TryEffect ==
  ASSUME RegistryTypes, NEW t \in Creators, Registry!TryInstance(t)
  PROVE  /\ Others2(t) /\ KeepsPrinters /\ UNCHANGED pages
         /\ thread[t].pc = "try" /\ thread'[t].object = 0
         /\ "unfound" \in causes' => "unfound" \in causes
         /\ \/ thread'[t].pc = "idle"
            \/ /\ thread'[t].pc = "try"
               /\ thread'[t].path = thread[t].path /\ thread'[t].name = thread[t].name
            \/ /\ thread'[t].pc = "build" /\ thread'[t].name = thread[t].name
               /\ thread'[t].path.base = thread[t].path.base
               /\ \A o \in printers : printer[o].path # thread'[t].path
               /\ (\E q \in 1..Len(printer) :
                     Registry!Lingers(q) /\ printer[q].path = thread'[t].path) =>
                    "replaced" \in causes'
<1> DEFINE path == [thread[t].path EXCEPT !.numbers = Append(@, thread[t].n)]
<1>1. /\ thread[t].pc = "try" /\ thread[t].object = 0
      /\ thread[t] \in ThreadType /\ thread \in [Creators -> ThreadType]
      /\ thread[t].path \in PathType /\ thread[t].n \in Nat
      /\ DOMAIN printer = 1..Len(printer)
  BY DEF RegistryTypes, ThreadUses, Registry!TryInstance, ThreadType
<1>2. path \in PathType /\ path.base = thread[t].path.base /\ path # Registry!Single
  <2>1. /\ Append(thread[t].path.numbers, thread[t].n) \in Seq(Nat)
        /\ Append(thread[t].path.numbers, thread[t].n) # << >>
    <3>1. thread[t].path.numbers \in Seq(Nat) /\ thread[t].n \in Nat
      BY <1>1 DEF PathType
    <3>2. QED
      BY <3>1, AppendProperties
  <2>2. \A r \in PathType, x \in Seq(Nat) :
          /\ [r EXCEPT !.numbers = x] \in PathType
          /\ [r EXCEPT !.numbers = x].base = r.base
          /\ [r EXCEPT !.numbers = x].numbers = x
    BY DEF PathType
  <2>3. path = [thread[t].path EXCEPT !.numbers = Append(thread[t].path.numbers, thread[t].n)]
    OBVIOUS
  <2>4. /\ path \in PathType /\ path.base = thread[t].path.base
        /\ path.numbers = Append(thread[t].path.numbers, thread[t].n)
    BY <1>1, <2>1, <2>2, <2>3
  <2>5. Registry!Single.numbers = << >>
    BY DEF Registry!Single, Registry!Path
  <2>6. QED
    BY <2>1, <2>4, <2>5
<1>3. causes' = causes \cup Registry!Replaced(path)
  BY DEF Registry!TryInstance
<1>4. /\ causes \subseteq causes'
      /\ "unfound" \in causes' => "unfound" \in causes
      /\ (\E q \in 1..Len(printer) : Registry!Lingers(q) /\ printer[q].path = path) =>
           "replaced" \in causes'
  BY <1>1, <1>3 DEF Registry!Replaced
<1>5. UNCHANGED <<multi_queue, printers, printer, pages, default_printer_id>>
  BY DEF Registry!TryInstance
<1>6. CASE Registry!FindPrinter(path) = {}
  <2>1. thread' = [thread EXCEPT ![t].pc = "build", ![t].path = path, ![t].n = 0]
    BY <1>6 DEF Registry!TryInstance
  <2>2. \A o \in printers : printer[o].path # path
    BY <1>2, <1>6 DEF Registry!FindPrinter
  <2>3. thread' = [thread EXCEPT ![t] =
                    [thread[t] EXCEPT !.pc = "build", !.path = path, !.n = 0]]
    BY <1>1, <2>1
  <2> DEFINE new == [thread[t] EXCEPT !.pc = "build", !.path = path, !.n = 0]
  <2>4. /\ new \in ThreadType /\ new.pc = "build" /\ new.path = path
        /\ new.name = thread[t].name /\ new.object = 0
    <3> HIDE DEF path
    <3>1. QED
      BY <1>1, <1>2 DEF ThreadType
  <2> HIDE DEF path, new
  <2>5. /\ thread' \in [Creators -> ThreadType] /\ thread'[t] = new
        /\ \A u \in Creators \ {t} : thread'[u] = thread[u]
    BY <1>1, <2>3, <2>4 DEF new
  <2>6. QED
    BY <1>1, <1>2, <1>4, <1>5, <2>2, <2>4, <2>5 DEF Others2, KeepsPrinters
<1>7. CASE Registry!FindPrinter(path) # {} /\ thread[t].n < MaxInstance
  <2>1. thread' = [thread EXCEPT ![t].n = thread[t].n + 1]
    BY <1>7 DEF Registry!TryInstance
  <2> DEFINE new == [thread[t] EXCEPT !.n = thread[t].n + 1]
  <2>2. thread[t].n + 1 \in Nat
    BY <1>1
  <2>3. /\ new \in ThreadType /\ new.pc = "try" /\ new.path = thread[t].path
        /\ new.name = thread[t].name /\ new.object = 0
    BY <1>1, <2>2 DEF ThreadType
  <2>4. thread' = [thread EXCEPT ![t] = new]
    BY <1>1, <2>1
  <2> HIDE DEF new
  <2>5. /\ thread' \in [Creators -> ThreadType] /\ thread'[t] = new
        /\ \A u \in Creators \ {t} : thread'[u] = thread[u]
    BY <1>1, <2>3, <2>4
  <2>6. QED
    BY <1>1, <1>4, <1>5, <2>3, <2>5 DEF Others2, KeepsPrinters
<1>8. CASE Registry!FindPrinter(path) # {} /\ ~(thread[t].n < MaxInstance)
  <2>1. thread' = [thread EXCEPT ![t] = Registry!Idle]
    BY <1>8 DEF Registry!TryInstance
  <2>2. QED
    BY <1>1, <1>4, <1>5, <2>1, IdleType DEF Others2, KeepsPrinters
<1>9. QED
  BY <1>6, <1>7, <1>8

\* The printer is added at the end of those that there were.
LEMMA AddEffect ==
  ASSUME RegistryConstants, RegistryTypes, NEW t \in Creators, Registry!AddPrinter(t)
  PROVE  /\ Others2(t) /\ UNCHANGED <<pages, causes>>
         /\ thread[t].pc = "build"
         /\ thread'[t].pc = "pages" /\ thread'[t].object = Len(printer) + 1
         /\ printer' \in Seq([name : NameType, path : PathType, freed : BOOLEAN])
         /\ Len(printer') = Len(printer) + 1 /\ Len(printer') <= MaxPrinters
         /\ \A q \in 1..Len(printer) : printer'[q] = printer[q]
         /\ printer'[Len(printer) + 1].name = thread[t].name
         /\ printer'[Len(printer) + 1].path = thread[t].path
         /\ ~printer'[Len(printer) + 1].freed
         /\ printers' = printers \cup {Len(printer) + 1}
         /\ default_printer_id' \in 0..MaxPrinters
<1> DEFINE new == [Registry!Idle EXCEPT !.pc = "pages", !.object = Len(printer) + 1]
<1>1. /\ thread[t].pc = "build" /\ Len(printer) \in Nat
      /\ Len(printer) + 1 <= MaxPrinters
      /\ thread[t] \in ThreadType /\ thread \in [Creators -> ThreadType]
  BY DEF RegistryTypes, Registry!AddPrinter
<1>2. new \in ThreadType /\ new.pc = "pages" /\ new.object = Len(printer) + 1
  <2>1. \A n \in Nat : [Registry!Idle EXCEPT !.pc = "pages", !.object = n] \in ThreadType
    BY IdleType DEF ThreadType
  <2>2. Len(printer) + 1 \in Nat
    BY <1>1
  <2>3. new \in ThreadType
    BY <2>1, <2>2
  <2>4. QED
    BY <2>3, IdleType DEF ThreadType
<1>3. thread' = [thread EXCEPT ![t] = new]
  BY DEF Registry!AddPrinter
<1> HIDE DEF new
<1>4. /\ thread' \in [Creators -> ThreadType] /\ thread'[t] = new
      /\ \A u \in Creators \ {t} : thread'[u] = thread[u]
  BY <1>1, <1>2, <1>3
<1> DEFINE NewPrinter == Registry!NewPrinter(t)
<1>5. /\ NewPrinter \in [name : NameType, path : PathType, freed : BOOLEAN]
      /\ NewPrinter.name = thread[t].name /\ NewPrinter.path = thread[t].path
      /\ NewPrinter.freed = FALSE
  BY <1>1 DEF Registry!NewPrinter, ThreadType
<1>6. printer' = Append(printer, NewPrinter)
  BY DEF Registry!AddPrinter
<1> HIDE DEF NewPrinter
<1>7. /\ printer' \in Seq([name : NameType, path : PathType, freed : BOOLEAN])
      /\ Len(printer') = Len(printer) + 1
      /\ \A q \in 1..Len(printer) : printer'[q] = printer[q]
      /\ printer'[Len(printer) + 1] = NewPrinter
  BY <1>5, <1>6, AppendProperties DEF RegistryTypes
<1>8. default_printer_id' \in 0..MaxPrinters
  BY <1>1 DEF Registry!AddPrinter, RegistryTypes, RegistryConstants
<1>9. UNCHANGED <<multi_queue, pages, causes>> /\ printers' = printers \cup {Len(printer) + 1}
  BY DEF Registry!AddPrinter
<1>10. QED
  BY <1>1, <1>2, <1>4, <1>5, <1>7, <1>8, <1>9 DEF Others2

\* The pages below the path of a printer that is not made are removed.
LEMMA FailEffect ==
  ASSUME RegistryTypes, NEW t \in Creators, Registry!FailDriver(t)
  PROVE  /\ Others2(t) /\ KeepsPrinters /\ UNCHANGED causes
         /\ thread[t].pc = "build" /\ thread'[t].pc = "idle" /\ thread'[t].object = 0
         /\ pages' \subseteq pages
         /\ \A page \in pages \ pages' : Registry!Under(thread[t].path, page)
<1>1. thread' = [thread EXCEPT ![t] = Registry!Idle] /\ thread \in [Creators -> ThreadType]
  BY DEF Registry!FailDriver, RegistryTypes
<1>2. QED
  BY <1>1, IdleType DEF Registry!FailDriver, Others2, KeepsPrinters

\* A printer gets its page, if there is none of its path.
LEMMA PagesEffect ==
  ASSUME RegistryTypes, NEW t \in Creators, Registry!AddPages(t)
  PROVE  LET o == thread[t].object
             page == [path |-> printer[o].path, owner |-> o] IN
         /\ Others2(t) /\ KeepsPrinters /\ UNCHANGED causes
         /\ thread[t].pc = "pages" /\ thread'[t].pc = "idle" /\ thread'[t].object = 0
         /\ pages \subseteq pages' /\ pages' \subseteq pages \cup {page}
         /\ multi_queue => page \in pages' \/ \E other \in pages : other.path = page.path
<1>1. thread' = [thread EXCEPT ![t] = Registry!Idle] /\ thread \in [Creators -> ThreadType]
  BY DEF Registry!AddPages, RegistryTypes
<1>2. /\ Others2(t) /\ KeepsPrinters /\ UNCHANGED causes
      /\ thread[t].pc = "pages" /\ thread'[t].pc = "idle" /\ thread'[t].object = 0
  BY <1>1, IdleType DEF Registry!AddPages, Others2, KeepsPrinters
<1> DEFINE page == [path |-> printer[thread[t].object].path, owner |-> thread[t].object]
<1>3. pages' = Registry!AddResource(page)
  BY DEF Registry!AddPages
<1>4. page.path = printer[thread[t].object].path
  OBVIOUS
<1> HIDE DEF page
<1>5. /\ pages \subseteq pages' /\ pages' \subseteq pages \cup {page}
      /\ multi_queue => page \in pages' \/ \E other \in pages : other.path = page.path
  BY <1>3 DEF Registry!AddResource
<1>6. QED
  BY <1>2, <1>5 DEF page

\* A thread begins to delete a printer, whatever others do with it.
LEMMA DeleteEffect ==
  ASSUME RegistryTypes, NEW t \in Creators, NEW o \in printers, Registry!BeginDelete(t, o)
  PROVE  /\ Others2(t) /\ KeepsPrinters /\ UNCHANGED pages
         /\ thread[t].pc = "idle" /\ thread'[t].pc = "remove" /\ thread'[t].object = o
         /\ "unfound" \in causes' => "unfound" \in causes
         /\ (\E u \in Creators : thread[u].pc = "pages" /\ thread[u].object = o) =>
              "unfinished" \in causes'
<1> DEFINE new == [Registry!Idle EXCEPT !.pc = "remove", !.object = o]
<1>1. /\ thread[t].pc = "idle" /\ thread' = [thread EXCEPT ![t] = new]
      /\ thread \in [Creators -> ThreadType] /\ o \in Nat
  BY DEF RegistryTypes, Registry!BeginDelete
<1>2. new \in ThreadType /\ new.pc = "remove" /\ new.object = o
  BY <1>1, IdleType DEF ThreadType
<1> HIDE DEF new
<1>3. /\ thread' \in [Creators -> ThreadType] /\ thread'[t] = new
      /\ \A u \in Creators \ {t} : thread'[u] = thread[u]
  BY <1>1, <1>2
<1>4. /\ causes \subseteq causes' /\ ("unfound" \in causes' => "unfound" \in causes)
      /\ (\E u \in Creators : thread[u].pc = "pages" /\ thread[u].object = o) =>
           "unfinished" \in causes'
  BY DEF Registry!BeginDelete, Registry!Creating
<1>5. QED
  BY <1>1, <1>2, <1>3, <1>4 DEF Registry!BeginDelete, Others2, KeepsPrinters

\* One printer of its name is no longer listed.
LEMMA RemoveEffect ==
  ASSUME RegistryTypes, NEW t \in Creators, Registry!RemovePrinter(t)
  PROVE  /\ Others2(t) /\ UNCHANGED <<printer, pages, default_printer_id, causes>>
         /\ thread[t].pc = "remove" /\ thread'[t].pc = "free"
         /\ thread'[t].object = thread[t].object
         /\ \/ /\ printers' = printers
               /\ \A o \in printers : printer[o].name # printer[thread[t].object].name
            \/ \E o \in printers : /\ printers' = printers \ {o}
                                   /\ printer[o].name = printer[thread[t].object].name
<1>1. /\ thread' = [thread EXCEPT ![t].pc = "free"] /\ thread[t].pc = "remove"
      /\ thread \in [Creators -> ThreadType] /\ thread[t] \in ThreadType
  BY DEF Registry!RemovePrinter, Registry!Step, RegistryTypes
<1>2. /\ thread' \in [Creators -> ThreadType] /\ thread'[t].pc = "free"
      /\ thread'[t].object = thread[t].object
      /\ \A u \in Creators \ {t} : thread'[u] = thread[u]
  BY <1>1 DEF ThreadType
<1>3. \/ /\ printers' = printers
         /\ \A o \in printers : printer[o].name # printer[thread[t].object].name
      \/ \E o \in printers : /\ printers' = printers \ {o}
                             /\ printer[o].name = printer[thread[t].object].name
  BY DEF Registry!RemovePrinter
<1>4. QED
  BY <1>1, <1>2, <1>3 DEF Registry!RemovePrinter, Others2

\* A printer is freed, and its pages go with it.
LEMMA FreeEffect ==
  ASSUME RegistryTypes, NEW t \in Creators, Registry!FreePrinter(t)
  PROVE  LET o == thread[t].object IN
         /\ Others2(t) /\ UNCHANGED <<printers, default_printer_id, causes>>
         /\ thread[t].pc = "free" /\ thread'[t].pc = "idle" /\ thread'[t].object = 0
         /\ o \in 1..Len(printer)
         /\ printer' \in Seq([name : NameType, path : PathType, freed : BOOLEAN])
         /\ Len(printer') = Len(printer)
         /\ \A q \in 1..Len(printer) : /\ printer'[q].name = printer[q].name
                                       /\ printer'[q].path = printer[q].path
                                       /\ q # o => printer'[q].freed = printer[q].freed
         /\ printer'[o].freed
         /\ pages' \subseteq pages
         /\ \A page \in pages' : page.owner # o
         /\ \A page \in pages \ pages' :
              page.owner = o \/ Registry!Under(printer[o].path, page)
<1> DEFINE o == thread[t].object
           R == [name : NameType, path : PathType, freed : BOOLEAN]
<1>1. /\ thread' = [thread EXCEPT ![t] = Registry!Idle] /\ thread[t].pc = "free"
      /\ thread \in [Creators -> ThreadType] /\ o \in 1..Len(printer)
      /\ printer \in Seq(R) /\ Len(printer) \in Nat
  BY DEF Registry!FreePrinter, RegistryTypes, ThreadUses
<1>2. /\ printer' = [printer EXCEPT ![o].freed = TRUE]
      /\ pages' = {page \in pages : ~(page.owner = o \/ Registry!Under(printer[o].path, page))}
      /\ UNCHANGED <<multi_queue, printers, default_printer_id, causes>>
  BY DEF Registry!FreePrinter
<1> DEFINE freed == [printer[o] EXCEPT !.freed = TRUE]
<1>3. /\ freed \in R /\ freed.freed = TRUE
      /\ freed.name = printer[o].name /\ freed.path = printer[o].path
  <2>1. printer[o] \in R
    BY <1>1, ElementOfSeq
  <2>2. QED
    BY <2>1
<1>4. printer' = [printer EXCEPT ![o] = freed]
  BY <1>2
<1> HIDE DEF o, R, freed
<1>5. /\ printer' \in Seq(R) /\ Len(printer') = Len(printer)
      /\ \A q \in 1..Len(printer) : printer'[q] = IF q = o THEN freed ELSE printer[q]
  BY <1>1, <1>3, <1>4, ExceptSeq
<1>6. /\ \A q \in 1..Len(printer) : /\ printer'[q].name = printer[q].name
                                    /\ printer'[q].path = printer[q].path
                                    /\ q # o => printer'[q].freed = printer[q].freed
      /\ printer'[o].freed
  BY <1>1, <1>3, <1>5
<1>7. Others2(t) /\ thread'[t].pc = "idle" /\ thread'[t].object = 0
  BY <1>1, <1>2, IdleType DEF Others2
<1>8. QED
  BY <1>1, <1>2, <1>5, <1>6, <1>7 DEF o, R

\* Nothing lingers that did not, unless a thread deletes what is not listed.
LEMMA LingersLess ==
  ASSUME NEW t \in Creators, Others2(t), UNCHANGED <<printers, printer>>,
         \/ thread'[t].pc \notin {"remove", "free"}
         \/ thread'[t].object \in printers,
         NEW q, Registry!Lingers(q)'
  PROVE  Registry!Lingers(q)
<1>1. q \notin printers /\ printer'[q] = printer[q]
  BY DEF Registry!Lingers
<1>2. CASE ~printer'[q].freed
  BY <1>1, <1>2 DEF Registry!Lingers
<1>3. ASSUME NEW u \in Creators, thread'[u].pc \in {"remove", "free"},
             thread'[u].object = q
      PROVE  Registry!Lingers(q)
  <2>1. u # t
    BY <1>1, <1>3
  <2>2. QED
    BY <1>1, <1>3, <2>1 DEF Registry!Lingers, Registry!Deleting, Others2
<1>4. QED
  BY <1>2, <1>3 DEF Registry!Lingers, Registry!Deleting

\* A thread that creates a printer and has added none changes nothing for others,
\* when what it has found is so; of the pages it may remove those of nobody.
LEMMA CreatorKeeps ==
  ASSUME RegistryInv, NEW t \in Creators, Others2(t), KeepsPrinters,
         thread[t].pc \in {"idle", "find", "try", "build"},
         thread'[t].pc \in {"idle", "find", "try", "build"}, thread'[t].object = 0,
         thread'[t].pc = "find" =>
           /\ thread'[t].path = Registry!BasePath(thread'[t].name)
           /\ thread'[t].name \in PrinterNames,
         PathsFree', OneCreates', PathFound', NameFound',
         multi_queue /\ causes' \cap {"creations", "replaced"} = {}
           /\ thread'[t].pc = "build" =>
             \A q \in 1..Len(printer) :
               Registry!Lingers(q) => thread'[t].path # printer[q].path,
         pages' \subseteq pages,
         multi_queue => \A page \in pages \ pages' :
           /\ page # Registry!SystemPage
           /\ "creations" \notin causes =>
                \A o \in printers : page.path # printer[o].path
  PROVE  RegistryInv'
<1>1. /\ RegistryTypes /\ PagesOwned /\ FreeUnlisted /\ PagesToCome /\ LingersApart
      /\ Registry!PrintersKept /\ thread[t].object = 0
  BY DEF RegistryInv, RegistryTypes, ThreadUses
<1>2. /\ printers' = printers /\ printer' = printer /\ multi_queue' = multi_queue
      /\ default_printer_id' = default_printer_id /\ causes \subseteq causes'
      /\ \A u \in Creators \ {t} : thread'[u] = thread[u]
      /\ thread' \in [Creators -> ThreadType]
  BY DEF Others2, KeepsPrinters
<1>3. RegistryTypes'
  <2>1. ASSUME NEW u \in Creators PROVE ThreadUses(u)'
    <3>1. CASE u = t
      BY <1>1, <1>2, <3>1 DEF ThreadUses, Registry!BasePath, RegistryTypes
    <3>2. CASE u # t
      BY <1>1, <1>2, <3>2 DEF ThreadUses, Registry!BasePath, RegistryTypes
    <3>3. QED
      BY <3>1, <3>2
  <2>2. QED
    BY <1>1, <1>2, <2>1 DEF RegistryTypes
<1>4. PagesOwned'
  BY <1>1, <1>2 DEF PagesOwned, Registry!SystemPage
<1>5. FreeUnlisted'
  BY <1>1, <1>2 DEF FreeUnlisted
<1>6. PagesToCome'
  BY <1>1, <1>2 DEF PagesToCome, Deletes
<1>7. LingersApart'
  <2>1. \A q : Registry!Lingers(q)' => Registry!Lingers(q)
    BY <1>2, LingersLess
  <2>2. QED
    BY <1>1, <1>2, <2>1 DEF LingersApart
<1>8. Registry!PrintersDiffer' /\ Registry!ListedExist' /\ Registry!PagesLive'
  <2>1. Registry!PrintersDiffer'
    BY <1>1, <1>2 DEF Registry!PrintersKept, Registry!PrintersDiffer
  <2>2. Registry!ListedExist'
    BY <1>1, <1>2 DEF Registry!PrintersKept, Registry!ListedExist
  <2>3. Registry!PagesLive'
    BY <1>1, <1>2 DEF Registry!PrintersKept, Registry!PagesLive
  <2>4. QED
    BY <2>1, <2>2, <2>3
<1>9. Registry!PagesThere'
  <2>1. SUFFICES ASSUME multi_queue
                 PROVE  /\ Registry!SystemPage \in pages'
                        /\ \A o \in {q \in printers : ~printer[q].freed} :
                             \/ \E u \in Creators : thread'[u].object = o
                             \/ [path |-> printer[o].path, owner |-> o] \in pages'
                             \/ causes' \cap {"creations", "replaced", "unfinished"} # {}
    BY <1>2 DEF Registry!PagesThere, Registry!SystemPage
  <2>2. Registry!SystemPage \in pages'
    BY <1>1, <2>1 DEF Registry!PrintersKept, Registry!PagesThere
  <2>3. ASSUME NEW o \in printers, ~printer[o].freed,
               causes' \cap {"creations", "replaced", "unfinished"} = {}
        PROVE  \/ \E u \in Creators : thread'[u].object = o
               \/ [path |-> printer[o].path, owner |-> o] \in pages'
    <3>1. \/ \E u \in Creators : thread[u].object = o
          \/ [path |-> printer[o].path, owner |-> o] \in pages
      BY <1>1, <1>2, <2>1, <2>3 DEF Registry!PrintersKept, Registry!PagesThere
    <3>2. o # 0
      BY <1>1 DEF RegistryTypes
    <3>3. CASE \E u \in Creators : thread[u].object = o
      BY <1>1, <1>2, <3>2, <3>3
    <3>4. CASE [path |-> printer[o].path, owner |-> o] \in pages
      <4>1. "creations" \notin causes
        BY <1>2, <2>3
      <4>2. [path |-> printer[o].path, owner |-> o].path = printer[o].path
        OBVIOUS
      <4>3. QED
        BY <2>1, <3>4, <4>1, <4>2
    <3>5. QED
      BY <3>1, <3>3, <3>4
  <2>4. QED
    BY <2>2, <2>3
<1>10. QED
  BY <1>3, <1>4, <1>5, <1>6, <1>7, <1>8, <1>9 DEF RegistryInv, Registry!PrintersKept

\* A thread that begins has found nothing yet; who else creates is known then.
LEMMA BeginKeeps ==
  ASSUME RegistryInv, NEW t \in Creators, NEW name \in PrinterNames,
         Registry!Begin(t, name)
  PROVE  RegistryInv'
<1>1. /\ RegistryTypes /\ PathsFree /\ OneCreates /\ PathFound /\ NameFound
  BY DEF RegistryInv
<1>2. /\ Others2(t) /\ KeepsPrinters /\ UNCHANGED pages
      /\ thread[t].pc = "idle" /\ thread'[t].pc = "find" /\ thread'[t].name = name
      /\ thread'[t].path = Registry!BasePath(name) /\ thread'[t].object = 0
      /\ (\E u \in Creators : Creates(u)) => "creations" \in causes'
      /\ (\E o \in printers : /\ printer[o].name = name
                              /\ printer[o].path # Registry!BasePath(name)) =>
           "displaced" \in causes'
      /\ "unfound" \in causes' => "unfound" \in causes
  BY <1>1, BeginEffect
<1>3. /\ printers' = printers /\ printer' = printer /\ multi_queue' = multi_queue
      /\ causes \subseteq causes' /\ \A u \in Creators \ {t} : thread'[u] = thread[u]
  BY <1>2 DEF Others2, KeepsPrinters
<1>4. PathsFree'
  <2>1. multi_queue => ~Reserved(thread'[t].path)
    BY <1>1, <1>2, BasePathType DEF RegistryTypes
  <2>2. QED
    BY <1>1, <1>2, <1>3, <2>1 DEF PathsFree, Reserved
<1>5. OneCreates'
  BY <1>1, <1>2, <1>3 DEF OneCreates, Creates
<1>6. PathFound'
  BY <1>1, <1>2, <1>3 DEF PathFound
<1>7. NameFound'
  <2>1. SUFFICES ASSUME causes' \cap {"creations", "unfound", "displaced"} = {},
                        NEW u \in Creators, NEW o \in printers,
                        printer[o].name = thread'[u].name
                 PROVE  /\ thread'[u].pc \notin {"try", "build"}
                        /\ thread'[u].pc = "find" => printer[o].path = thread'[u].path
    BY <1>3 DEF NameFound
  <2>2. CASE u = t
    BY <1>2, <2>1, <2>2
  <2>3. CASE u # t
    BY <1>1, <1>3, <2>1, <2>3 DEF NameFound
  <2>4. QED
    BY <2>2, <2>3
<1>8. QED
  BY <1>2, <1>3, <1>4, <1>5, <1>6, <1>7, CreatorKeeps

\* What is not found has the path or the name of no printer, if all are found.
LEMMA FindKeeps ==
  ASSUME RegistryInv, NEW t \in Creators, Registry!FindExisting(t)
  PROVE  RegistryInv'
<1> DEFINE found == Registry!FindPrinter(thread[t].path)
<1>1. /\ RegistryTypes /\ PathsFree /\ OneCreates /\ PathFound /\ NameFound
  BY DEF RegistryInv
<1>2. /\ Others2(t) /\ KeepsPrinters /\ UNCHANGED pages
      /\ thread[t].pc = "find" /\ thread'[t].object = 0
      /\ \/ thread'[t].pc = "idle"
         \/ /\ thread'[t].pc = "build" /\ found = {}
            /\ thread'[t].path = thread[t].path /\ thread'[t].name = thread[t].name
         \/ /\ thread'[t].pc = "try"
            /\ \A o \in found : printer[o].name # thread[t].name
            /\ thread'[t].path = thread[t].path /\ thread'[t].name = thread[t].name
      /\ (\E q \in 1..Len(printer) : /\ Registry!Lingers(q)
                                     /\ printer[q].path = thread[t].path) =>
           "replaced" \in causes'
      /\ (\E q \in printers \ found : printer[q].path = thread[t].path) =>
           "unfound" \in causes'
      /\ "unfound" \in causes' =>
           \/ "unfound" \in causes
           \/ \E q \in printers \ found : printer[q].path = thread[t].path
  BY <1>1, FindEffect
<1>3. /\ printers' = printers /\ printer' = printer /\ multi_queue' = multi_queue
      /\ causes \subseteq causes' /\ \A u \in Creators \ {t} : thread'[u] = thread[u]
  BY <1>2 DEF Others2, KeepsPrinters
<1>4. multi_queue => \A q \in printers : printer[q].path = thread[t].path => q \in found
  <2>1. multi_queue => ~Reserved(thread[t].path)
    BY <1>1, <1>2 DEF PathsFree
  <2>2. multi_queue => thread[t].path # Registry!Single
    BY <2>1, IdleType
  <2>3. QED
    BY <2>2 DEF Registry!FindPrinter
<1> HIDE DEF found
<1>5. PathsFree'
  BY <1>1, <1>2, <1>3, <1>4 DEF PathsFree, Reserved
<1>6. OneCreates'
  BY <1>1, <1>2, <1>3 DEF OneCreates, Creates
<1>7. PathFound'
  <2>1. SUFFICES ASSUME causes' \cap {"creations", "unfound"} = {},
                        NEW u \in Creators, NEW o \in printers, thread'[u].pc = "build"
                 PROVE  printer[o].path # thread'[u].path
    BY <1>3 DEF PathFound
  <2>2. CASE u = t
    BY <1>2, <2>1, <2>2
  <2>3. CASE u # t
    BY <1>1, <1>3, <2>1, <2>3 DEF PathFound
  <2>4. QED
    BY <2>2, <2>3
<1>8. NameFound'
  <2>1. SUFFICES ASSUME causes' \cap {"creations", "unfound", "displaced"} = {},
                        NEW u \in Creators, NEW o \in printers,
                        printer[o].name = thread'[u].name
                 PROVE  /\ thread'[u].pc \notin {"try", "build"}
                        /\ thread'[u].pc = "find" => printer[o].path = thread'[u].path
    BY <1>3 DEF NameFound
  <2>2. CASE u = t /\ thread'[t].pc # "idle"
    <3>1. printer[o].name = thread[t].name
      BY <1>2, <2>1, <2>2
    <3>2. printer[o].path = thread[t].path
      BY <1>1, <1>2, <1>3, <2>1, <3>1 DEF NameFound
    <3>3. o \in found
      BY <1>2, <2>1, <3>2
    <3>4. QED
      BY <1>2, <2>2, <3>1, <3>3
  <2>3. CASE u # t
    BY <1>1, <1>3, <2>1, <2>3 DEF NameFound
  <2>4. QED
    BY <2>2, <2>3
<1>9. QED
  BY <1>2, <1>3, <1>5, <1>6, <1>7, <1>8, CreatorKeeps

\* A path with a number is taken if no printer is found at it.
LEMMA TryKeeps ==
  ASSUME RegistryInv, NEW t \in Creators, Registry!TryInstance(t)
  PROVE  RegistryInv'
<1>1. /\ RegistryTypes /\ PathsFree /\ OneCreates /\ PathFound /\ NameFound
  BY DEF RegistryInv
<1>2. /\ Others2(t) /\ KeepsPrinters /\ UNCHANGED pages
      /\ thread[t].pc = "try" /\ thread'[t].object = 0
      /\ "unfound" \in causes' => "unfound" \in causes
      /\ \/ thread'[t].pc = "idle"
         \/ /\ thread'[t].pc = "try"
            /\ thread'[t].path = thread[t].path /\ thread'[t].name = thread[t].name
         \/ /\ thread'[t].pc = "build" /\ thread'[t].name = thread[t].name
            /\ thread'[t].path.base = thread[t].path.base
            /\ \A o \in printers : printer[o].path # thread'[t].path
            /\ (\E q \in 1..Len(printer) :
                  Registry!Lingers(q) /\ printer[q].path = thread'[t].path) =>
                 "replaced" \in causes'
  BY <1>1, TryEffect
<1>3. /\ printers' = printers /\ printer' = printer /\ multi_queue' = multi_queue
      /\ causes \subseteq causes' /\ \A u \in Creators \ {t} : thread'[u] = thread[u]
  BY <1>2 DEF Others2, KeepsPrinters
<1>4. PathsFree'
  BY <1>1, <1>2, <1>3 DEF PathsFree, Reserved
<1>5. OneCreates'
  BY <1>1, <1>2, <1>3 DEF OneCreates, Creates
<1>6. PathFound'
  BY <1>1, <1>2, <1>3 DEF PathFound
<1>7. NameFound'
  BY <1>1, <1>2, <1>3 DEF NameFound
<1>8. QED
  BY <1>2, <1>3, <1>4, <1>5, <1>6, <1>7, CreatorKeeps

\* The pages below the path of a printer that was not made are of no other.
LEMMA FailKeeps ==
  ASSUME RegistryInv, NEW t \in Creators, Registry!FailDriver(t)
  PROVE  RegistryInv'
<1>1. /\ RegistryTypes /\ PathsFree /\ OneCreates /\ PathFound /\ NameFound
  BY DEF RegistryInv
<1>2. /\ Others2(t) /\ KeepsPrinters /\ UNCHANGED causes
      /\ thread[t].pc = "build" /\ thread'[t].pc = "idle" /\ thread'[t].object = 0
      /\ pages' \subseteq pages
      /\ \A page \in pages \ pages' : Registry!Under(thread[t].path, page)
  BY <1>1, FailEffect
<1>3. /\ printers' = printers /\ printer' = printer /\ multi_queue' = multi_queue
      /\ causes' = causes /\ \A u \in Creators \ {t} : thread'[u] = thread[u]
  BY <1>2 DEF Others2, KeepsPrinters
<1>4. PathsFree' /\ OneCreates' /\ PathFound' /\ NameFound'
  BY <1>1, <1>2, <1>3 DEF PathsFree, OneCreates, Creates, PathFound, NameFound
<1>5. ASSUME multi_queue, NEW page \in pages \ pages'
      PROVE  /\ page # Registry!SystemPage
             /\ "creations" \notin causes =>
                  \A o \in printers : page.path # printer[o].path
  <2>1. ~Reserved(thread[t].path) /\ "unfound" \notin causes
    BY <1>1, <1>2, <1>5 DEF PathsFree
  <2>2. page.path = thread[t].path
    BY <1>2, <1>5, <2>1, IdleType DEF Registry!Under
  <2>3. page # Registry!SystemPage
    BY <2>1, <2>2, IdleType
  <2>4. QED
    BY <1>1, <1>2, <2>1, <2>2, <2>3 DEF PathFound
<1>6. QED
  BY <1>2, <1>3, <1>4, <1>5, CreatorKeeps

\* The printer that is added has the path and name that its thread found free.
LEMMA AddKeeps ==
  ASSUME RegistryConstants, RegistryInv, NEW t \in Creators, Registry!AddPrinter(t)
  PROVE  RegistryInv'
<1> DEFINE R == [name : NameType, path : PathType, freed : BOOLEAN]
<1>1. /\ RegistryTypes /\ PathsFree /\ PagesOwned /\ OneCreates /\ PathFound
      /\ NameFound /\ FreeUnlisted /\ PagesToCome /\ LingersApart
      /\ Registry!PrintersDiffer /\ Registry!ListedExist /\ Registry!PagesLive
      /\ Registry!PagesThere
  BY DEF RegistryInv, Registry!PrintersKept
<1>2. PICK new : new = Len(printer) + 1
  OBVIOUS
<1>3. /\ Others2(t) /\ pages' = pages /\ causes' = causes
      /\ thread[t].pc = "build" /\ thread'[t].pc = "pages" /\ thread'[t].object = new
      /\ printer' \in Seq(R) /\ Len(printer') = new /\ new <= MaxPrinters
      /\ \A q \in 1..Len(printer) : printer'[q] = printer[q]
      /\ printer'[new].name = thread[t].name /\ printer'[new].path = thread[t].path
      /\ ~printer'[new].freed
      /\ printers' = printers \cup {new}
      /\ default_printer_id' \in 0..MaxPrinters
  BY <1>1, <1>2, AddEffect
<1>4. /\ multi_queue' = multi_queue /\ \A u \in Creators \ {t} : thread'[u] = thread[u]
      /\ thread' \in [Creators -> ThreadType]
  BY <1>3 DEF Others2
<1>5. /\ Len(printer) \in Nat /\ new \in Nat /\ new \notin 1..Len(printer)
      /\ 1..Len(printer') = (1..Len(printer)) \cup {new}
      /\ printers \subseteq 1..Len(printer)
      /\ \A u \in Creators : ThreadUses(u)
  BY <1>1, <1>2, <1>3 DEF RegistryTypes
<1>6. thread[t].object = 0
  BY <1>3, <1>5 DEF ThreadUses
<1> HIDE DEF R
<1>7. RegistryTypes'
  <2>1. ASSUME NEW u \in Creators PROVE ThreadUses(u)'
    <3>1. CASE u = t
      BY <1>2, <1>3, <1>5, <3>1 DEF ThreadUses
    <3>2. CASE u # t
      BY <1>2, <1>3, <1>4, <1>5, <3>2 DEF ThreadUses, Registry!BasePath
    <3>3. QED
      BY <3>1, <3>2
  <2>2. QED
    BY <1>1, <1>3, <1>4, <1>5, <2>1 DEF RegistryTypes, R
<1>8. PathsFree'
  BY <1>1, <1>3, <1>4, <1>5 DEF PathsFree, Reserved
<1>9. PagesOwned'
  BY <1>1, <1>3, <1>5 DEF PagesOwned, Registry!SystemPage
<1>10. OneCreates'
  BY <1>1, <1>3, <1>4 DEF OneCreates, Creates
<1>11. ASSUME "creations" \notin causes, NEW u \in Creators \ {t}
       PROVE  thread'[u].pc \notin {"find", "try", "build"}
  BY <1>1, <1>3, <1>4, <1>11 DEF OneCreates, Creates
<1>12. PathFound'
  BY <1>3, <1>11 DEF PathFound
<1>13. NameFound'
  BY <1>3, <1>11 DEF NameFound
<1>14. FreeUnlisted'
  <2>1. SUFFICES ASSUME causes \cap {"creations", "unfound", "displaced"} = {},
                        NEW u \in Creators, thread'[u].pc = "free"
                 PROVE  thread'[u].object \notin printers \cup {new}
    BY <1>3 DEF FreeUnlisted
  <2>2. u # t /\ thread'[u] = thread[u]
    BY <1>3, <1>4, <2>1
  <2>3. thread[u].object \notin printers /\ thread[u].object # new
    BY <1>1, <1>2, <1>5, <2>1, <2>2 DEF FreeUnlisted, ThreadUses
  <2>4. QED
    BY <2>2, <2>3
<1>15. PagesToCome'
  <2>1. SUFFICES ASSUME "unfinished" \notin causes, NEW u \in Creators,
                        thread'[u].pc = "pages"
                 PROVE  /\ ~printer'[thread'[u].object].freed
                        /\ \A v \in Creators : ~(/\ thread'[v].pc \in {"remove", "free"}
                                                 /\ thread'[v].object = thread'[u].object)
    BY <1>3 DEF PagesToCome, Deletes
  <2>2. CASE u = t
    <3>1. \A v \in Creators \ {t} : thread'[v].object # new
      BY <1>2, <1>4, <1>5 DEF ThreadUses
    <3>2. QED
      BY <1>3, <2>2, <3>1
  <2>3. CASE u # t
    <3>1. thread'[u] = thread[u] /\ thread[u].object \in 1..Len(printer)
      BY <1>4, <1>5, <2>1, <2>3 DEF ThreadUses
    <3>2. QED
      BY <1>1, <1>3, <1>4, <2>1, <3>1 DEF PagesToCome, Deletes
  <2>4. QED
    BY <2>2, <2>3
<1>16. LingersApart'
  <2>1. SUFFICES ASSUME multi_queue, causes \cap {"creations", "replaced"} = {},
                        NEW q \in 1..Len(printer'), Registry!Lingers(q)'
                 PROVE  /\ \A o \in printers \cup {new} : printer'[o].path # printer'[q].path
                        /\ \A u \in Creators :
                             thread'[u].pc = "build" => thread'[u].path # printer'[q].path
    BY <1>3, <1>4 DEF LingersApart
  <2>2. q \in 1..Len(printer) /\ q \notin printers /\ printer'[q] = printer[q]
    BY <1>3, <1>5, <2>1 DEF Registry!Lingers
  <2>3. Registry!Lingers(q)
    <3>1. ASSUME NEW u \in Creators, thread'[u].pc \in {"remove", "free"},
                 thread'[u].object = q
          PROVE  thread[u].pc \in {"remove", "free"} /\ thread[u].object = q
      BY <1>3, <1>4, <3>1
    <3>2. QED
      BY <2>1, <2>2, <3>1 DEF Registry!Lingers, Registry!Deleting
  <2>4. /\ \A o \in printers : printer[o].path # printer[q].path
        /\ \A u \in Creators : thread[u].pc = "build" => thread[u].path # printer[q].path
    BY <1>1, <2>1, <2>2, <2>3 DEF LingersApart
  <2>5. QED
    BY <1>3, <1>4, <1>5, <2>2, <2>4
<1>17. Registry!PrintersDiffer'
  <2>1. SUFFICES ASSUME NEW o \in printers \cup {new}, NEW q \in printers \cup {new}, o # q
                 PROVE  /\ printer'[o].path = printer'[q].path =>
                             causes \cap {"creations", "unfound"} # {}
                        /\ printer'[o].name = printer'[q].name =>
                             causes \cap {"creations", "unfound", "displaced"} # {}
    BY <1>3 DEF Registry!PrintersDiffer
  <2>2. ASSUME NEW x \in printers
        PROVE  /\ printer'[x].path = thread[t].path =>
                    causes \cap {"creations", "unfound"} # {}
               /\ printer'[x].name = thread[t].name =>
                    causes \cap {"creations", "unfound", "displaced"} # {}
    BY <1>1, <1>3, <1>5 DEF PathFound, NameFound
  <2>3. CASE o = new \/ q = new
    BY <1>3, <2>1, <2>2, <2>3
  <2>4. CASE o # new /\ q # new
    BY <1>1, <1>3, <1>5, <2>1, <2>4 DEF Registry!PrintersDiffer
  <2>5. QED
    BY <2>3, <2>4
<1>18. Registry!ListedExist'
  BY <1>1, <1>3, <1>5 DEF Registry!ListedExist
<1>19. Registry!PagesLive'
  BY <1>1, <1>3, <1>5, IdleType DEF Registry!PagesLive, PagesOwned
<1>20. Registry!PagesThere'
  <2>1. SUFFICES ASSUME multi_queue
                 PROVE  /\ Registry!SystemPage \in pages
                        /\ \A o \in {q \in printers \cup {new} : ~printer'[q].freed} :
                             \/ \E u \in Creators : thread'[u].object = o
                             \/ [path |-> printer'[o].path, owner |-> o] \in pages
                             \/ causes \cap {"creations", "replaced", "unfinished"} # {}
    BY <1>3, <1>4 DEF Registry!PagesThere, Registry!SystemPage
  <2>2. ASSUME NEW o \in printers, ~printer'[o].freed
        PROVE  \/ \E u \in Creators : thread'[u].object = o
               \/ [path |-> printer'[o].path, owner |-> o] \in pages
               \/ causes \cap {"creations", "replaced", "unfinished"} # {}
    <3>1. printer'[o] = printer[o] /\ o # 0
      BY <1>3, <1>5
    <3>2. \/ \E u \in Creators : thread[u].object = o
          \/ [path |-> printer[o].path, owner |-> o] \in pages
          \/ causes \cap {"creations", "replaced", "unfinished"} # {}
      BY <1>1, <2>1, <2>2, <3>1 DEF Registry!PagesThere
    <3>3. QED
      BY <1>4, <1>6, <3>1, <3>2
  <2>3. QED
    BY <1>1, <1>3, <2>1, <2>2 DEF Registry!PagesThere
<1>21. QED
  BY <1>7, <1>8, <1>9, <1>10, <1>12, <1>13, <1>14, <1>15, <1>16, <1>17, <1>18, <1>19,
     <1>20 DEF RegistryInv, Registry!PrintersKept

\* The types of what is left, when a thread ends or begins to delete.
LEMMA TypesKept ==
  ASSUME RegistryTypes, NEW t \in Creators, Others2(t),
         printer' \in Seq([name : NameType, path : PathType, freed : BOOLEAN]),
         Len(printer') = Len(printer), printers' \subseteq printers,
         UNCHANGED default_printer_id,
         \/ thread'[t].pc = "idle" /\ thread'[t].object = 0
         \/ /\ thread'[t].pc \in {"remove", "free"}
            /\ thread'[t].object \in 1..Len(printer)
  PROVE  RegistryTypes'
<1>1. ASSUME NEW u \in Creators PROVE ThreadUses(u)'
  <2>1. CASE u = t
    BY <2>1 DEF ThreadUses, RegistryTypes
  <2>2. CASE u # t
    BY <2>2 DEF ThreadUses, RegistryTypes, Others2, Registry!BasePath
  <2>3. QED
    BY <2>1, <2>2
<1>2. QED
  BY <1>1 DEF RegistryTypes, Others2

\* A printer that gets no page has a path whose page is not its own, and so one of
\* another printer.
LEMMA PagesKeeps ==
  ASSUME RegistryInv, NEW t \in Creators, Registry!AddPages(t)
  PROVE  RegistryInv'
<1>1. /\ RegistryTypes /\ PathsFree /\ PagesOwned /\ OneCreates /\ PathFound
      /\ NameFound /\ FreeUnlisted /\ PagesToCome /\ LingersApart
      /\ Registry!PrintersDiffer /\ Registry!ListedExist /\ Registry!PagesLive
      /\ Registry!PagesThere
  BY DEF RegistryInv, Registry!PrintersKept
<1>2. PICK o, page : /\ o = thread[t].object
                     /\ page = [path |-> printer[o].path, owner |-> o]
  OBVIOUS
<1>3. /\ Others2(t) /\ KeepsPrinters /\ causes' = causes
      /\ thread[t].pc = "pages" /\ thread'[t].pc = "idle" /\ thread'[t].object = 0
      /\ pages \subseteq pages' /\ pages' \subseteq pages \cup {page}
      /\ multi_queue => page \in pages' \/ \E other \in pages : other.path = page.path
  BY <1>1, <1>2, PagesEffect
<1>4. /\ printers' = printers /\ printer' = printer /\ multi_queue' = multi_queue
      /\ \A u \in Creators \ {t} : thread'[u] = thread[u]
  BY <1>3 DEF Others2, KeepsPrinters
<1>5. o \in 1..Len(printer) /\ page.owner = o /\ page.path = printer[o].path /\ o # 0
  BY <1>1, <1>2, <1>3 DEF RegistryTypes, ThreadUses
<1>6. RegistryTypes'
  BY <1>1, <1>3, <1>4, TypesKept DEF KeepsPrinters, RegistryTypes
<1>7. PathsFree' /\ OneCreates' /\ PathFound' /\ NameFound' /\ FreeUnlisted'
  <2>1. PathsFree'
    BY <1>1, <1>3, <1>4 DEF PathsFree, Reserved
  <2>2. OneCreates'
    BY <1>1, <1>3, <1>4 DEF OneCreates, Creates
  <2>3. PathFound'
    BY <1>1, <1>3, <1>4 DEF PathFound
  <2>4. NameFound'
    BY <1>1, <1>3, <1>4 DEF NameFound
  <2>5. FreeUnlisted'
    BY <1>1, <1>3, <1>4 DEF FreeUnlisted
  <2>6. QED
    BY <2>1, <2>2, <2>3, <2>4, <2>5
<1>8. PagesOwned'
  BY <1>1, <1>2, <1>3, <1>4, <1>5 DEF PagesOwned, Registry!SystemPage
<1>9. PagesToCome'
  BY <1>1, <1>3, <1>4 DEF PagesToCome, Deletes
<1>10. LingersApart'
  <2>1. \A q : Registry!Lingers(q)' => Registry!Lingers(q)
    BY <1>3, <1>4, LingersLess
  <2>2. QED
    BY <1>1, <1>3, <1>4, <2>1 DEF LingersApart
<1>11. Registry!PrintersDiffer' /\ Registry!ListedExist'
  BY <1>1, <1>3, <1>4 DEF Registry!PrintersDiffer, Registry!ListedExist
<1>12. Registry!PagesLive'
  <2>1. ASSUME NEW p \in pages', p.owner # 0, printer[p.owner].freed
        PROVE  "unfinished" \in causes
    <3>1. CASE p \in pages
      BY <1>1, <2>1, <3>1 DEF Registry!PagesLive
    <3>2. CASE p = page
      BY <1>1, <1>2, <1>3, <1>5, <2>1, <3>2 DEF PagesToCome
    <3>3. QED
      BY <1>3, <3>1, <3>2
  <2>2. QED
    BY <1>3, <1>4, <2>1 DEF Registry!PagesLive
<1>13. ASSUME multi_queue, NEW other \in pages, other.path = page.path,
              o \in printers,
              causes \cap {"creations", "replaced", "unfinished"} = {}
       PROVE  page \in pages
  <2>1. other # Registry!SystemPage /\ "unfound" \notin causes
    BY <1>1, <1>5, <1>13, IdleType DEF PathsFree
  <2>2. PICK w \in 1..Len(printer) : other = [path |-> printer[w].path, owner |-> w]
    BY <1>1, <1>13, <2>1 DEF PagesOwned
  <2>3. printer[w].path = printer[o].path /\ other.owner = w /\ w # 0
    BY <1>5, <1>13, <2>2
  <2>4. ~printer[w].freed
    BY <1>1, <1>13, <2>3 DEF Registry!PagesLive
  <2>5. CASE w = o
    BY <1>2, <1>13, <2>2, <2>5
  <2>6. CASE w # o /\ w \in printers
    BY <1>1, <1>13, <2>1, <2>3, <2>6 DEF Registry!PrintersDiffer
  <2>7. CASE w \notin printers
    <3>1. Registry!Lingers(w)
      BY <2>4, <2>7 DEF Registry!Lingers
    <3>2. QED
      BY <1>1, <1>13, <2>3, <3>1 DEF LingersApart
  <2>8. QED
    BY <2>5, <2>6, <2>7
<1>14. Registry!PagesThere'
  <2>1. SUFFICES ASSUME multi_queue
                 PROVE  /\ Registry!SystemPage \in pages'
                        /\ \A q \in {x \in printers : ~printer[x].freed} :
                             \/ \E u \in Creators : thread'[u].object = q
                             \/ [path |-> printer[q].path, owner |-> q] \in pages'
                             \/ causes \cap {"creations", "replaced", "unfinished"} # {}
    BY <1>3, <1>4 DEF Registry!PagesThere, Registry!SystemPage
  <2>2. ASSUME NEW q \in printers, ~printer[q].freed,
               causes \cap {"creations", "replaced", "unfinished"} = {}
        PROVE  \/ \E u \in Creators : thread'[u].object = q
               \/ [path |-> printer[q].path, owner |-> q] \in pages'
    <3>1. \/ \E u \in Creators : thread[u].object = q
          \/ [path |-> printer[q].path, owner |-> q] \in pages
      BY <1>1, <2>1, <2>2 DEF Registry!PagesThere
    <3>2. CASE q = o
      BY <1>2, <1>3, <1>13, <2>1, <2>2, <3>2
    <3>3. CASE q # o
      BY <1>2, <1>3, <1>4, <3>1, <3>3
    <3>4. QED
      BY <3>2, <3>3
  <2>3. QED
    BY <1>1, <1>3, <2>1, <2>2 DEF Registry!PagesThere
<1>15. QED
  BY <1>6, <1>7, <1>8, <1>9, <1>10, <1>11, <1>12, <1>14
  DEF RegistryInv, Registry!PrintersKept

\* A printer whose deletion begins is still listed.
LEMMA DeleteKeeps ==
  ASSUME RegistryInv, NEW t \in Creators, NEW o \in printers, Registry!BeginDelete(t, o)
  PROVE  RegistryInv'
<1>1. /\ RegistryTypes /\ PathsFree /\ PagesOwned /\ OneCreates /\ PathFound
      /\ NameFound /\ FreeUnlisted /\ PagesToCome /\ LingersApart
      /\ Registry!PrintersDiffer /\ Registry!ListedExist /\ Registry!PagesLive
      /\ Registry!PagesThere
  BY DEF RegistryInv, Registry!PrintersKept
<1>2. /\ Others2(t) /\ KeepsPrinters /\ pages' = pages
      /\ thread[t].pc = "idle" /\ thread'[t].pc = "remove" /\ thread'[t].object = o
      /\ "unfound" \in causes' => "unfound" \in causes
      /\ (\E u \in Creators : thread[u].pc = "pages" /\ thread[u].object = o) =>
           "unfinished" \in causes'
  BY <1>1, DeleteEffect
<1>3. /\ printers' = printers /\ printer' = printer /\ multi_queue' = multi_queue
      /\ causes \subseteq causes' /\ \A u \in Creators \ {t} : thread'[u] = thread[u]
  BY <1>2 DEF Others2, KeepsPrinters
<1>4. thread[t].object = 0 /\ o # 0 /\ o \in 1..Len(printer)
      /\ \A q \in printers : q # 0
  BY <1>1, <1>2 DEF RegistryTypes, ThreadUses
<1>5. RegistryTypes'
  BY <1>1, <1>2, <1>3, <1>4, TypesKept DEF KeepsPrinters, RegistryTypes
<1>6. PathsFree'
  BY <1>1, <1>2, <1>3 DEF PathsFree, Reserved
<1>7. PagesOwned'
  BY <1>1, <1>2, <1>3 DEF PagesOwned, Registry!SystemPage
<1>8. OneCreates' /\ PathFound' /\ NameFound'
  BY <1>1, <1>2, <1>3 DEF OneCreates, Creates, PathFound, NameFound
<1>9. FreeUnlisted'
  BY <1>1, <1>2, <1>3 DEF FreeUnlisted
<1>10. PagesToCome'
  <2>1. SUFFICES ASSUME "unfinished" \notin causes', NEW u \in Creators,
                        thread'[u].pc = "pages"
                 PROVE  /\ ~printer[thread'[u].object].freed
                        /\ \A v \in Creators : ~(/\ thread'[v].pc \in {"remove", "free"}
                                                 /\ thread'[v].object = thread'[u].object)
    BY <1>3 DEF PagesToCome, Deletes
  <2>2. u # t /\ thread'[u] = thread[u] /\ "unfinished" \notin causes
    BY <1>2, <1>3, <2>1
  <2>3. /\ ~printer[thread[u].object].freed
        /\ \A v \in Creators : ~(/\ thread[v].pc \in {"remove", "free"}
                                 /\ thread[v].object = thread[u].object)
    BY <1>1, <2>1, <2>2 DEF PagesToCome, Deletes
  <2>4. thread[u].object # o
    BY <1>2, <2>1, <2>2
  <2>5. QED
    BY <1>2, <1>3, <2>2, <2>3, <2>4
<1>11. LingersApart'
  <2>1. \A q : Registry!Lingers(q)' => Registry!Lingers(q)
    BY <1>2, <1>3, LingersLess
  <2>2. QED
    BY <1>1, <1>2, <1>3, <2>1 DEF LingersApart
<1>12. Registry!PrintersDiffer' /\ Registry!ListedExist'
  BY <1>1, <1>3 DEF Registry!PrintersDiffer, Registry!ListedExist
<1>13. Registry!PagesLive'
  BY <1>1, <1>2, <1>3 DEF Registry!PagesLive
<1>14. Registry!PagesThere'
  <2>1. ASSUME NEW q \in printers, \E u \in Creators : thread[u].object = q
        PROVE  \E u \in Creators : thread'[u].object = q
    BY <1>3, <1>4, <2>1
  <2>2. QED
    BY <1>1, <1>2, <1>3, <2>1 DEF Registry!PagesThere, Registry!SystemPage
<1>15. QED
  BY <1>5, <1>6, <1>7, <1>8, <1>9, <1>10, <1>11, <1>12, <1>13, <1>14
  DEF RegistryInv, Registry!PrintersKept

\* If names differ, the printer that is taken out is the one that is deleted; if
\* paths differ, nobody has or gets the path of the one that is taken out.
LEMMA RemoveKeeps ==
  ASSUME RegistryInv, NEW t \in Creators, Registry!RemovePrinter(t)
  PROVE  RegistryInv'
<1>1. /\ RegistryTypes /\ PathsFree /\ PagesOwned /\ OneCreates /\ PathFound
      /\ NameFound /\ FreeUnlisted /\ PagesToCome /\ LingersApart
      /\ Registry!PrintersDiffer /\ Registry!ListedExist /\ Registry!PagesLive
      /\ Registry!PagesThere
  BY DEF RegistryInv, Registry!PrintersKept
<1>2. PICK d : d = thread[t].object
  OBVIOUS
<1>3. /\ Others2(t) /\ printer' = printer /\ pages' = pages /\ causes' = causes
      /\ default_printer_id' = default_printer_id
      /\ thread[t].pc = "remove" /\ thread'[t].pc = "free" /\ thread'[t].object = d
      /\ \/ printers' = printers /\ \A o \in printers : printer[o].name # printer[d].name
         \/ \E o \in printers : printers' = printers \ {o} /\ printer[o].name = printer[d].name
  BY <1>1, <1>2, RemoveEffect
<1>4. /\ multi_queue' = multi_queue /\ \A u \in Creators \ {t} : thread'[u] = thread[u]
      /\ printers' \subseteq printers
  BY <1>3 DEF Others2
<1>5. d \in 1..Len(printer)
  BY <1>1, <1>2, <1>3 DEF RegistryTypes, ThreadUses
<1>6. RegistryTypes'
  BY <1>1, <1>3, <1>4, <1>5, TypesKept DEF RegistryTypes
<1>7. PathsFree'
  BY <1>1, <1>3, <1>4 DEF PathsFree, Reserved
<1>8. PagesOwned'
  BY <1>1, <1>3 DEF PagesOwned, Registry!SystemPage
<1>9. OneCreates' /\ PathFound' /\ NameFound'
  <2>1. OneCreates'
    BY <1>1, <1>3, <1>4 DEF OneCreates, Creates
  <2>2. PathFound'
    BY <1>1, <1>3, <1>4 DEF PathFound
  <2>3. NameFound'
    BY <1>1, <1>3, <1>4 DEF NameFound
  <2>4. QED
    BY <2>1, <2>2, <2>3
<1>10. FreeUnlisted'
  <2>1. ASSUME causes \cap {"creations", "unfound", "displaced"} = {}
        PROVE  d \notin printers'
    BY <1>1, <1>3, <2>1 DEF Registry!PrintersDiffer
  <2>2. SUFFICES ASSUME causes \cap {"creations", "unfound", "displaced"} = {},
                        NEW u \in Creators, thread'[u].pc = "free"
                 PROVE  thread'[u].object \notin printers'
    BY <1>3 DEF FreeUnlisted
  <2>3. CASE u = t
    BY <1>3, <2>1, <2>2, <2>3
  <2>4. CASE u # t
    BY <1>1, <1>4, <2>2, <2>4 DEF FreeUnlisted
  <2>5. QED
    BY <2>3, <2>4
<1>11. \A u \in Creators : thread'[u].pc \in {"remove", "free"} =>
         /\ thread[u].pc \in {"remove", "free"}
         /\ thread[u].object = thread'[u].object
  BY <1>2, <1>3, <1>4
<1>12. PagesToCome'
  BY <1>1, <1>3, <1>4, <1>11 DEF PagesToCome, Deletes
<1>13. LingersApart'
  <2>1. SUFFICES ASSUME multi_queue, causes \cap {"creations", "replaced"} = {},
                        NEW q \in 1..Len(printer), Registry!Lingers(q)'
                 PROVE  /\ \A o \in printers' : printer[o].path # printer[q].path
                        /\ \A u \in Creators :
                             thread'[u].pc = "build" => thread'[u].path # printer[q].path
    BY <1>3, <1>4 DEF LingersApart
  <2>2. "unfound" \notin causes /\ q \notin printers'
    BY <1>1, <2>1 DEF PathsFree, Registry!Lingers
  <2>3. CASE q \in printers
    <3>1. \A o \in printers' : printer[o].path # printer[q].path
      BY <1>1, <1>4, <2>1, <2>2, <2>3 DEF Registry!PrintersDiffer
    <3>2. \A u \in Creators : thread[u].pc = "build" => thread[u].path # printer[q].path
      BY <1>1, <2>1, <2>2, <2>3 DEF PathFound
    <3>3. QED
      BY <1>3, <1>4, <3>1, <3>2
  <2>4. CASE q \notin printers
    <3>1. Registry!Lingers(q)
      BY <1>3, <1>11, <2>1, <2>4 DEF Registry!Lingers, Registry!Deleting
    <3>2. /\ \A o \in printers : printer[o].path # printer[q].path
          /\ \A u \in Creators : thread[u].pc = "build" => thread[u].path # printer[q].path
      BY <1>1, <2>1, <3>1 DEF LingersApart
    <3>3. QED
      BY <1>3, <1>4, <3>2
  <2>5. QED
    BY <2>3, <2>4
<1>14. Registry!PrintersDiffer' /\ Registry!ListedExist'
  BY <1>1, <1>3, <1>4 DEF Registry!PrintersDiffer, Registry!ListedExist
<1>15. Registry!PagesLive'
  BY <1>1, <1>3 DEF Registry!PagesLive
<1>16. Registry!PagesThere'
  <2>1. \A q : (\E u \in Creators : thread[u].object = q) =>
                 \E u \in Creators : thread'[u].object = q
    BY <1>2, <1>3, <1>4
  <2>2. QED
    BY <1>1, <1>3, <1>4, <2>1 DEF Registry!PagesThere, Registry!SystemPage
<1>17. QED
  BY <1>6, <1>7, <1>8, <1>9, <1>10, <1>12, <1>13, <1>14, <1>15, <1>16
  DEF RegistryInv, Registry!PrintersKept

\* The pages that go with a printer are of its path, and so of no other.
LEMMA FreeKeeps ==
  ASSUME RegistryInv, NEW t \in Creators, Registry!FreePrinter(t)
  PROVE  RegistryInv'
<1>1. /\ RegistryTypes /\ PathsFree /\ PagesOwned /\ OneCreates /\ PathFound
      /\ NameFound /\ FreeUnlisted /\ PagesToCome /\ LingersApart
      /\ Registry!PrintersDiffer /\ Registry!ListedExist /\ Registry!PagesLive
      /\ Registry!PagesThere
  BY DEF RegistryInv, Registry!PrintersKept
<1>2. PICK d : d = thread[t].object
  OBVIOUS
<1>3. /\ Others2(t) /\ printers' = printers /\ causes' = causes
      /\ default_printer_id' = default_printer_id
      /\ thread[t].pc = "free" /\ thread'[t].pc = "idle" /\ thread'[t].object = 0
      /\ d \in 1..Len(printer)
      /\ printer' \in Seq([name : NameType, path : PathType, freed : BOOLEAN])
      /\ Len(printer') = Len(printer)
      /\ \A q \in 1..Len(printer) : /\ printer'[q].name = printer[q].name
                                    /\ printer'[q].path = printer[q].path
                                    /\ q # d => printer'[q].freed = printer[q].freed
      /\ printer'[d].freed
      /\ pages' \subseteq pages
      /\ \A page \in pages' : page.owner # d
      /\ \A page \in pages \ pages' :
           page.owner = d \/ Registry!Under(printer[d].path, page)
  BY <1>1, <1>2, FreeEffect
<1>4. /\ multi_queue' = multi_queue /\ \A u \in Creators \ {t} : thread'[u] = thread[u]
      /\ printers \subseteq 1..Len(printer) /\ \A u \in Creators : ThreadUses(u)
      /\ \A q \in 1..Len(printer) : q # 0
  BY <1>1, <1>3 DEF Others2, RegistryTypes
<1>5. RegistryTypes'
  BY <1>1, <1>3, TypesKept
<1>6. PathsFree'
  BY <1>1, <1>3, <1>4 DEF PathsFree, Reserved
<1>7. PagesOwned'
  BY <1>1, <1>3 DEF PagesOwned, Registry!SystemPage
<1>8. OneCreates' /\ PathFound' /\ NameFound' /\ FreeUnlisted'
  <2>1. OneCreates'
    BY <1>1, <1>3, <1>4 DEF OneCreates, Creates
  <2>2. PathFound'
    BY <1>1, <1>3, <1>4 DEF PathFound
  <2>3. NameFound'
    BY <1>1, <1>3, <1>4 DEF NameFound
  <2>4. FreeUnlisted'
    BY <1>1, <1>3, <1>4 DEF FreeUnlisted
  <2>5. QED
    BY <2>1, <2>2, <2>3, <2>4
<1>9. PagesToCome'
  <2>1. SUFFICES ASSUME "unfinished" \notin causes, NEW u \in Creators,
                        thread'[u].pc = "pages"
                 PROVE  /\ ~printer'[thread'[u].object].freed
                        /\ \A v \in Creators : ~(/\ thread'[v].pc \in {"remove", "free"}
                                                 /\ thread'[v].object = thread'[u].object)
    BY <1>3 DEF PagesToCome, Deletes
  <2>2. u # t /\ thread'[u] = thread[u] /\ thread[u].object \in 1..Len(printer)
    BY <1>3, <1>4, <2>1 DEF ThreadUses
  <2>3. /\ ~printer[thread[u].object].freed
        /\ \A v \in Creators : ~(/\ thread[v].pc \in {"remove", "free"}
                                 /\ thread[v].object = thread[u].object)
    BY <1>1, <2>1, <2>2 DEF PagesToCome, Deletes
  <2>4. thread[u].object # d
    BY <1>2, <1>3, <2>3
  <2>5. QED
    BY <1>3, <1>4, <2>2, <2>3, <2>4
<1>10. LingersApart'
  <2>1. SUFFICES ASSUME multi_queue, causes \cap {"creations", "replaced"} = {},
                        NEW q \in 1..Len(printer), Registry!Lingers(q)'
                 PROVE  /\ \A o \in printers : printer'[o].path # printer'[q].path
                        /\ \A u \in Creators :
                             thread'[u].pc = "build" => thread'[u].path # printer'[q].path
    BY <1>3, <1>4 DEF LingersApart
  <2>2. Registry!Lingers(q)
    <3>1. q \notin printers
      BY <1>3, <2>1 DEF Registry!Lingers
    <3>2. CASE ~printer'[q].freed
      BY <1>3, <3>1, <3>2 DEF Registry!Lingers
    <3>3. ASSUME NEW u \in Creators, thread'[u].pc \in {"remove", "free"},
                 thread'[u].object = q
          PROVE  Registry!Lingers(q)
      BY <1>3, <1>4, <3>1, <3>3 DEF Registry!Lingers, Registry!Deleting
    <3>4. QED
      BY <2>1, <3>2, <3>3 DEF Registry!Lingers, Registry!Deleting
  <2>3. /\ \A o \in printers : printer[o].path # printer[q].path
        /\ \A u \in Creators : thread[u].pc = "build" => thread[u].path # printer[q].path
    BY <1>1, <2>1, <2>2 DEF LingersApart
  <2>4. QED
    BY <1>3, <1>4, <2>1, <2>3
<1>11. Registry!PrintersDiffer'
  BY <1>1, <1>3, <1>4 DEF Registry!PrintersDiffer
<1>12. Registry!ListedExist'
  <2>1. d \in printers => causes \cap {"creations", "unfound", "displaced"} # {}
    BY <1>1, <1>2, <1>3 DEF FreeUnlisted
  <2>2. QED
    BY <1>1, <1>3, <1>4, <2>1 DEF Registry!ListedExist
<1>13. Registry!PagesLive'
  BY <1>1, <1>3, IdleType DEF Registry!PagesLive, PagesOwned
<1>14. ASSUME multi_queue
       PROVE  \A page \in pages \ pages' : page.owner = d \/ page.path = printer[d].path
  <2>1. ~Reserved(printer[d].path)
    BY <1>1, <1>3, <1>14 DEF PathsFree
  <2>2. printer[d].path # Registry!Single
    BY <2>1, IdleType
  <2>3. QED
    BY <1>3, <2>2 DEF Registry!Under
<1>15. Registry!PagesThere'
  <2>1. SUFFICES ASSUME multi_queue
                 PROVE  /\ Registry!SystemPage \in pages'
                        /\ \A q \in {x \in printers : ~printer'[x].freed} :
                             \/ \E u \in Creators : thread'[u].object = q
                             \/ [path |-> printer'[q].path, owner |-> q] \in pages'
                             \/ causes \cap {"creations", "replaced", "unfinished"} # {}
    BY <1>3, <1>4 DEF Registry!PagesThere, Registry!SystemPage
  <2>2. Registry!SystemPage \in pages'
    <3>1. Registry!SystemPage \in pages /\ ~Reserved(printer[d].path)
      BY <1>1, <1>3, <2>1 DEF Registry!PagesThere, PathsFree
    <3>2. Registry!SystemPage.owner # d /\ Registry!SystemPage.path # printer[d].path
      BY <1>3, <1>4, <3>1, IdleType
    <3>3. QED
      BY <1>14, <2>1, <3>1, <3>2
  <2>3. ASSUME NEW q \in printers, ~printer'[q].freed,
               causes \cap {"creations", "replaced", "unfinished"} = {}
        PROVE  \/ \E u \in Creators : thread'[u].object = q
               \/ [path |-> printer'[q].path, owner |-> q] \in pages'
    <3>1. PICK page : page = [path |-> printer[q].path, owner |-> q]
      OBVIOUS
    <3>2. q # d /\ q \in 1..Len(printer) /\ ~printer[q].freed
      BY <1>3, <1>4, <2>3
    <3>3. (\E u \in Creators : thread[u].object = q) \/ page \in pages
      BY <1>1, <2>1, <2>3, <3>1, <3>2 DEF Registry!PagesThere
    <3>4. CASE \E u \in Creators : thread[u].object = q
      BY <1>2, <1>4, <3>2, <3>4
    <3>5. CASE page \in pages
      <4>1. page.owner = q /\ page.path = printer[q].path
        BY <3>1
      <4>2. printer[q].path # printer[d].path
        <5>1. "unfound" \notin causes
          BY <1>1, <2>1 DEF PathsFree
        <5>2. CASE d \in printers
          BY <1>1, <2>3, <3>2, <5>1, <5>2 DEF Registry!PrintersDiffer
        <5>3. CASE d \notin printers
          <6>1. Registry!Lingers(d)
            BY <1>2, <1>3, <5>3 DEF Registry!Lingers, Registry!Deleting
          <6>2. QED
            BY <1>1, <1>3, <2>1, <2>3, <6>1 DEF LingersApart
        <5>4. QED
          BY <5>2, <5>3
      <4>3. page \in pages'
        BY <1>14, <2>1, <3>2, <3>5, <4>1, <4>2
      <4>4. printer'[q].path = printer[q].path
        BY <1>3, <3>2
      <4>5. QED
        BY <3>1, <4>3, <4>4
    <3>6. QED
      BY <3>3, <3>4, <3>5
  <2>4. QED
    BY <2>2, <2>3
<1>16. QED
  BY <1>5, <1>6, <1>7, <1>8, <1>9, <1>10, <1>11, <1>12, <1>13, <1>15
  DEF RegistryInv, Registry!PrintersKept

\* What nothing happens to, but that a thread may have found a freed printer.
LEMMA CrashKeeps ==
  ASSUME RegistryInv,
         UNCHANGED <<multi_queue, printers, printer, pages, default_printer_id, thread>>,
         causes \subseteq causes', causes' \subseteq causes \cup {"crashed"}
  PROVE  RegistryInv'
<1>1. /\ multi_queue' = multi_queue /\ printers' = printers /\ printer' = printer
      /\ pages' = pages /\ default_printer_id' = default_printer_id
      /\ thread' = thread
  OBVIOUS
<1>2. /\ \A c \in {"creations", "unfound", "displaced", "replaced", "unfinished"} :
           c \in causes' <=> c \in causes
  OBVIOUS
<1>3. RegistryTypes' /\ PathsFree' /\ PagesOwned'
  <2>1. RegistryTypes'
    BY <1>1 DEF RegistryInv, RegistryTypes, ThreadUses, Registry!BasePath
  <2>2. PathsFree'
    <3> USE DEF PathsFree
    <3>1. "unfound" \in causes' <=> "unfound" \in causes
      BY <1>2
    <3>2. HAVE multi_queue'
    <3>3. PathsFree /\ multi_queue
      BY <1>1, <3>2 DEF RegistryInv
    <3>4. QED
      BY <1>1, <3>1, <3>3
  <2>3. PagesOwned'
    BY <1>1 DEF RegistryInv, PagesOwned, Registry!SystemPage
  <2>4. QED
    BY <2>1, <2>2, <2>3
<1>4. OneCreates' /\ PathFound' /\ NameFound'
  BY <1>1, <1>2 DEF RegistryInv, OneCreates, Creates, PathFound, NameFound
<1>5. FreeUnlisted' /\ PagesToCome'
  BY <1>1, <1>2 DEF RegistryInv, FreeUnlisted, PagesToCome, Deletes
<1>6. LingersApart'
  BY <1>1, <1>2 DEF RegistryInv, LingersApart, Registry!Lingers
<1>7. Registry!PrintersDiffer' /\ Registry!ListedExist' /\ Registry!PagesLive'
  BY <1>1, <1>2 DEF RegistryInv, Registry!PrintersKept, Registry!PrintersDiffer,
              Registry!ListedExist, Registry!PagesLive
<1>8. Registry!PagesThere'
  BY <1>1, <1>2 DEF RegistryInv, Registry!PrintersKept, Registry!PagesThere,
              Registry!SystemPage
<1>9. QED
  BY <1>3, <1>4, <1>5, <1>6, <1>7, <1>8 DEF RegistryInv, Registry!PrintersKept

\* Every step keeps what is so of the printers.
LEMMA RegistryStep ==
  ASSUME RegistryConstants, RegistryInv, [Registry!Next]_printersVars
  PROVE  RegistryInv'
<1>1. CASE UNCHANGED printersVars
  BY <1>1, CrashKeeps DEF printersVars
<1>2. CASE Registry!Next
  <2>1. PICK t \in Creators :
          \/ \E name \in PrinterNames : \/ Registry!CreatePrinter(t, name)
                                       \/ Registry!AddPrinterForm(t, name)
                                       \/ Registry!DiscoverPrinter(t, name)
          \/ Registry!FindExisting(t) \/ Registry!TryInstance(t)
          \/ Registry!AddPrinter(t) \/ Registry!FailDriver(t) \/ Registry!AddPages(t)
          \/ \E o \in printers : Registry!DeletePrinter(t, o) \/ Registry!DeletePage(t, o)
          \/ Registry!RemovePrinter(t) \/ Registry!FreePrinter(t)
          \/ Registry!UseFreed(t)
    BY <1>2 DEF Registry!Next
  <2>2. ASSUME NEW name \in PrinterNames,
               \/ Registry!CreatePrinter(t, name) \/ Registry!AddPrinterForm(t, name)
               \/ Registry!DiscoverPrinter(t, name)
        PROVE  RegistryInv'
    <3>1. Registry!Begin(t, name)
      BY <2>2 DEF Registry!CreatePrinter, Registry!AddPrinterForm, Registry!DiscoverPrinter
    <3>2. QED
      BY <3>1, BeginKeeps
  <2>3. ASSUME NEW o \in printers, Registry!DeletePrinter(t, o) \/ Registry!DeletePage(t, o)
        PROVE  RegistryInv'
    <3>1. Registry!BeginDelete(t, o)
      BY <2>3 DEF Registry!DeletePrinter, Registry!DeletePage
    <3>2. QED
      BY <3>1, DeleteKeeps
  <2>4. CASE Registry!FindExisting(t)
    BY <2>4, FindKeeps
  <2>5. CASE Registry!TryInstance(t)
    BY <2>5, TryKeeps
  <2>6. CASE Registry!AddPrinter(t)
    BY <2>6, AddKeeps
  <2>7. CASE Registry!FailDriver(t)
    BY <2>7, FailKeeps
  <2>8. CASE Registry!AddPages(t)
    BY <2>8, PagesKeeps
  <2>9. CASE Registry!RemovePrinter(t)
    BY <2>9, RemoveKeeps
  <2>10. CASE Registry!FreePrinter(t)
    BY <2>10, FreeKeeps
  <2>11. CASE Registry!UseFreed(t)
    BY <2>11, CrashKeeps DEF Registry!UseFreed
  <2>12. QED
    BY <2>1, <2>2, <2>3, <2>4, <2>5, <2>6, <2>7, <2>8, <2>9, <2>10, <2>11
<1>3. QED
  BY <1>1, <1>2

\* A step of the whole is one of the printers or leaves them.
LEMMA RegistryOfParts ==
  ASSUME [PartsNext]_partsVars
  PROVE  [Registry!Next]_printersVars
BY DEF PartsNext, partsVars, Others

\* The printers of a system, those that are made and those that are deleted, for
\* any number of clients and printers (create_printer, papplPrinterDelete).
THEOREM RegistryAlways == PartsSpec => []RegistryInv
<1>1. PartsInit => RegistryInv
  <2>1. SUFFICES ASSUME PartsInit PROVE RegistryInv
    OBVIOUS
  <2>2. /\ multi_queue \in BOOLEAN /\ printers = {} /\ printer = << >>
        /\ pages = {Registry!SystemPage} /\ default_printer_id = 0
        /\ thread = [t \in Creators |-> Registry!Idle] /\ causes = {}
    BY <2>1 DEF PartsInit, Registry!Init
  <2>3. << >> \in Seq([name : NameType, path : PathType, freed : BOOLEAN]) /\ Len(<< >>) = 0
    BY EmptySeq
  <2>4. \A t \in Creators : thread[t].pc = "idle" /\ thread[t].object = 0
    BY <2>2, IdleType
  <2>5. RegistryTypes
    <3>1. thread \in [Creators -> ThreadType]
      BY <2>2, IdleType
    <3>2. QED
      BY <2>2, <2>3, <2>4, <3>1, RegistryConstants DEF RegistryTypes, ThreadUses,
                                                      RegistryConstants
  <2>6. 1..Len(printer) = {}
    BY <2>2, <2>3
  <2>7. /\ PathsFree /\ PagesOwned /\ OneCreates /\ PathFound /\ NameFound
        /\ FreeUnlisted /\ PagesToCome /\ LingersApart
    BY <2>2, <2>4, <2>6 DEF PathsFree, PagesOwned, OneCreates, Creates, PathFound,
                            NameFound, FreeUnlisted, PagesToCome, LingersApart
  <2>8. Registry!PrintersKept
    BY <2>2, IdleType DEF Registry!PrintersKept, Registry!PrintersDiffer,
      Registry!ListedExist, Registry!PagesLive, Registry!PagesThere
  <2>9. QED
    BY <2>5, <2>7, <2>8 DEF RegistryInv
<1>2. RegistryInv /\ [PartsNext]_partsVars => RegistryInv'
  BY RegistryConstants, RegistryOfParts, RegistryStep
<1>3. QED
  BY <1>1, <1>2, PTL DEF PartsSpec

\* The library's operator is the same in an instance of a module.
LEMMA SameCardinality ==
  \A S : Clients!Cardinality(S) = Cardinality(S)
BY DEF Clients!Cardinality, Cardinality, Clients!IsFiniteSet, IsFiniteSet

\* Every request gets one response, the clients are as many as are counted and not
\* too many, and the printers that requests ask for differ, exist and have their
\* pages, unless what breaks that has happened.
THEOREM RequestsServed == PartsSpec => []ClientsServed
<1>1. ClientsInv => Clients!AnsweredOnce /\ Clients!ClientsBounded
  <2>1. SUFFICES ASSUME ClientsInv PROVE Clients!AnsweredOnce /\ Clients!ClientsBounded
    OBVIOUS
  <2>2. Clients!AnsweredOnce
    BY <2>1 DEF ClientsInv, AnswersAt, Clients!AnsweredOnce
  <2>3. Clients!ClientsBounded
    <3>1. num_clients <= MaxClients - 1 + NumListeners
      BY <2>1 DEF ClientsInv, Room
    <3>2. QED
      BY <2>1, <3>1, SameCardinality DEF ClientsInv, Clients!ClientsBounded
  <2>4. QED
    BY <2>2, <2>3
<1>2. RegistryInv => Registry!PrintersKept
  BY DEF RegistryInv
<1>3. ClientsInv /\ RegistryInv => ClientsServed
  BY <1>1, <1>2 DEF ClientsServed, In
<1>4. QED
  BY <1>3, ClientsAlways, RegistryAlways, PTL

-----------------------------------------------------------------------------
(* Raster: what a driver is called with for a job.                         *)

\* Division with a remainder.
LEMMA Divided ==
  \A a \in Nat, b \in Nat \ {0} :
    /\ a \div b \in Nat /\ a % b \in Nat /\ a % b < b
    /\ a = (a \div b) * b + (a % b)
OBVIOUS

\* The product of a sum.
LEMMA SumTimes ==
  \A a, b, c \in Int : (a + b) * c = a * c + b * c
OBVIOUS

\* Products are numbers.
LEMMA ProductType ==
  /\ \A a, b \in Nat : a * b \in Nat
  /\ \A a, b \in Int : a * b \in Int
OBVIOUS

\* A line of the page more: the row and the error together grow by the rows of the
\* image, spread over the lines of the page.
LEMMA RowStep ==
  ASSUME NEW rows \in Nat, NEW tall \in Nat \ {0}, NEW s \in Int, NEW e \in Int,
         NEW k \in Int, NEW h \in Int, s * tall + e <= k * rows - h, NEW c \in {0, 1}
  PROVE  (s + (rows \div tall) + c) * tall + (e + (rows % tall) - c * tall)
           <= (k + 1) * rows - h
<1>1. PICK q \in Nat, r \in Nat :
        q = rows \div tall /\ r = rows % tall /\ rows = q * tall + r
  BY Divided
<1>2. (s + q + c) * tall = s * tall + q * tall + c * tall
  BY <1>1, SumTimes
<1>3. (k + 1) * rows = k * rows + rows
  BY SumTimes
<1>4. s * tall \in Int /\ q * tall \in Int /\ c * tall \in Int /\ k * rows \in Int
  BY <1>1, ProductType
<1>5. PICK st \in Int, qt \in Int, ct \in Int, kr \in Int :
        st = s * tall /\ qt = q * tall /\ ct = c * tall /\ kr = k * rows
  BY <1>4
<1>6. QED
  BY <1>1, <1>2, <1>3, <1>5

\* So the row is one of the image as long as the line is one of the image on the page.
LEMMA RowBound ==
  ASSUME NEW rows \in Nat \ {0}, NEW tall \in Nat \ {0}, NEW s \in Int, NEW e \in Int,
         NEW k \in Int, NEW h \in Nat, s * tall + e <= k * rows - h, e >= -h, k < tall
  PROVE  s < rows
<1>1. s * tall <= k * rows
  <2>1. PICK st \in Int, kr \in Int : st = s * tall /\ kr = k * rows
    BY ProductType
  <2>2. QED
    BY <2>1
<1>2. k * rows <= (tall - 1) * rows
  <2>1. tall - 1 - k \in Nat
    OBVIOUS
  <2>2. (tall - 1 - k) * rows \in Nat
    BY <2>1, ProductType
  <2>3. (tall - 1) * rows = (tall - 1 - k) * rows + k * rows
    BY <2>1, SumTimes
  <2>4. PICK x \in Nat, kr \in Int, tr \in Int :
          x = (tall - 1 - k) * rows /\ kr = k * rows /\ tr = (tall - 1) * rows
    BY <2>2, ProductType
  <2>5. QED
    BY <2>3, <2>4
<1>3. (tall - 1) * rows < tall * rows
  OBVIOUS
<1>4. s * tall < rows * tall
  BY <1>1, <1>2, <1>3
<1>5. CASE s >= rows
  <2>1. (s - rows) * tall \in Nat
    BY <1>5, ProductType
  <2>2. s * tall = (s - rows) * tall + rows * tall
    BY SumTimes
  <2>3. PICK x \in Nat, a \in Int, b \in Int :
          x = (s - rows) * tall /\ a = s * tall /\ b = rows * tall
    BY <2>1, ProductType
  <2>4. QED
    BY <1>4, <2>2, <2>3
<1>6. QED
  BY <1>5

\* What is above the page is passed over: no more rows than lines call for.
LEMMA StartBound ==
  ASSUME NEW rows \in Nat, NEW tall \in Nat \ {0}, NEW above \in Nat
  PROVE  LET q == (above * (rows % tall)) \div tall
             r == (above * (rows % tall)) % tall
         IN q \in Nat /\ r \in Nat /\ q * tall + r <= above * rows
<1>1. rows % tall \in Nat /\ rows % tall <= rows
  <2>1. PICK q \in Nat, r \in Nat :
          q = rows \div tall /\ r = rows % tall /\ rows = q * tall + r
    BY Divided
  <2>2. q * tall \in Nat
    BY <2>1, ProductType
  <2>3. QED
    BY <2>1, <2>2
<1>2. above * (rows % tall) \in Nat
  BY <1>1, ProductType
<1>3. above * (rows % tall) <= above * rows
  <2>1. PICK r \in Nat : r = rows % tall
    BY <1>1
  <2>2. above * (rows - r) \in Nat /\ above * rows = above * (rows - r) + above * r
    BY <1>1, <2>1, ProductType
  <2>3. above * rows \in Nat /\ above * r \in Nat
    BY <2>1, ProductType
  <2>4. above * r <= above * rows
    BY <2>2, <2>3
  <2>5. QED
    BY <2>1, <2>4
<1>4. QED
  BY <1>2, <1>3, Divided

RasterPcs == {"page", "lines", "rest", "endpage"}
CopyPcs   == {"copy", "blank", "trailing"}
DocPcs    == CopyPcs \cup {"document", "image", "crashed"}

RasterTypes ==
  /\ Raster!TypeOK
  /\ streamed \in BOOLEAN /\ margin \in Nat /\ impcompleted \in Nat

\* Where the thread is says what the driver has been called with.
Calls ==
  /\ ~served.amiss /\ (served.short => served.cut)
  /\ served.job = IF jpc = "start" THEN "none"
                  ELSE IF jpc = "finish" THEN served.job ELSE "open"
  /\ jpc = "finish" => served.job # "open"
  /\ jpc \in {"start", "page", "document", "image", "copy"} => ~served.page
  /\ jpc \in {"lines", "rest", "endpage", "blank", "trailing"} => served.page
  /\ jpc \in {"lines", "rest", "blank", "trailing"} =>
       served.next = y /\ y <= Height
  /\ jpc = "rest" => is_canceled \/ y >= height \/ y >= Height \/ served.cut
  /\ jpc = "endpage" => served.next >= Height \/ served.cut

\* What is counted at each place.
Counts ==
  /\ jpc \in RasterPcs => streamed
  /\ jpc \in DocPcs => ~streamed
  /\ jpc \in DocPcs \cup {"start", "page"} => impcompleted >= served.pages
  /\ jpc \in {"start", "page"} => impcompleted = served.pages
  /\ jpc \in {"lines", "rest", "endpage"} => impcompleted = served.pages + 1
  /\ impcompleted >= served.pages - 1
  /\ streamed => served.pages <= impcompleted /\ impcompleted <= served.pages + 1

\* Copies are left to print.
CopiesLeft ==
  /\ jpc \notin {"end", "finish"} => set < Raster!Sets
  /\ jpc \in CopyPcs => copy <= Raster!HeaderCopies
  /\ jpc \in {"blank", "trailing"} => copy < Raster!HeaderCopies

\* An image that is printed has lines on the page, and the row of a line is that of
\* the lines before it.
Rows ==
  /\ jpc \in CopyPcs => Raster!Size[2] \in Nat \ {0} /\ Raster!Inside(Height) > 0
  /\ jpc = "blank" =>
       LET tall == Raster!Size[2]
           half == (Raster!Down % tall) \div 2
       IN /\ height <= Height /\ height <= Raster!First(tall) + tall
          /\ error >= -half
          /\ source * tall + error <=
               (IF y < Raster!First(tall) THEN 0
                ELSE (y - Raster!First(tall)) * Raster!Down) - half

RasterInv == RasterTypes /\ Calls /\ Counts /\ CopiesLeft /\ Rows

\* What the driver has seen after each call, if it comes in order.
LEMMA CallsSeen ==
  ASSUME served \in Raster!Driver, ~served.amiss
  PROVE  /\ Raster!StartedJob \in Raster!Driver
         /\ Raster!StartedJob.job = "open" /\ Raster!StartedJob.page = served.page
         /\ Raster!StartedJob.pages = served.pages
         /\ Raster!StartedJob.short = served.short /\ Raster!StartedJob.cut = served.cut
         /\ served.job = "none" => ~Raster!StartedJob.amiss
         /\ Raster!StartedPage \in Raster!Driver
         /\ Raster!StartedPage.job = served.job /\ Raster!StartedPage.page
         /\ Raster!StartedPage.next = 0 /\ Raster!StartedPage.pages = served.pages
         /\ Raster!StartedPage.short = served.short /\ Raster!StartedPage.cut = served.cut
         /\ ~served.page /\ served.job = "open" => ~Raster!StartedPage.amiss
         /\ Raster!EndedPage \in Raster!Driver
         /\ Raster!EndedPage.job = served.job /\ ~Raster!EndedPage.page
         /\ Raster!EndedPage.pages = served.pages + 1 /\ Raster!EndedPage.cut = served.cut
         /\ served.page => ~Raster!EndedPage.amiss
         /\ Raster!EndedPage.short => served.short \/ served.next < Height
         /\ Raster!EndedJob \in Raster!Driver
         /\ Raster!EndedJob.job = "ended" /\ ~Raster!EndedJob.page
         /\ Raster!EndedJob.pages = served.pages
         /\ Raster!EndedJob.short = served.short /\ Raster!EndedJob.cut = served.cut
         /\ served.job = "open" => ~Raster!EndedJob.amiss
<1>1. /\ served.amiss = FALSE /\ served.page \in BOOLEAN /\ served.short \in BOOLEAN
      /\ served.cut \in BOOLEAN /\ served.next \in Nat /\ served.pages \in Nat
      /\ served.job \in {"none", "open", "ended"}
  BY DEF Raster!Driver
<1>2. PICK jobs, opens, ends, last, short :
        /\ jobs = (served.amiss \/ served.job # "none")
        /\ opens = (served.amiss \/ served.page \/ served.job # "open")
        /\ ends = (served.amiss \/ ~served.page)
        /\ last = (served.amiss \/ served.job # "open")
        /\ short = (served.short \/ served.next < Height)
  OBVIOUS
<1>3. /\ jobs \in BOOLEAN /\ opens \in BOOLEAN /\ ends \in BOOLEAN /\ last \in BOOLEAN
      /\ short \in BOOLEAN
  BY <1>2
<1>4. /\ served.job = "none" => ~jobs
      /\ ~served.page /\ served.job = "open" => ~opens
      /\ served.page => ~ends
      /\ served.job = "open" => ~last
      /\ short => served.short \/ served.next < Height
  BY <1>1, <1>2
<1>5. /\ Raster!StartedJob = [served EXCEPT !.job = "open", !.amiss = jobs]
      /\ Raster!StartedPage = [served EXCEPT !.page = TRUE, !.next = 0, !.amiss = opens]
      /\ Raster!EndedPage = [served EXCEPT !.page = FALSE, !.pages = served.pages + 1,
                                !.amiss = ends, !.short = short]
      /\ Raster!EndedJob = [served EXCEPT !.job = "ended", !.page = FALSE, !.amiss = last]
  BY <1>2 DEF Raster!StartedJob, Raster!StartedPage, Raster!EndedPage, Raster!EndedJob
<1>6. /\ Raster!StartedJob \in Raster!Driver
      /\ Raster!StartedJob.job = "open" /\ Raster!StartedJob.page = served.page
      /\ Raster!StartedJob.pages = served.pages
      /\ Raster!StartedJob.short = served.short /\ Raster!StartedJob.cut = served.cut
      /\ served.job = "none" => ~Raster!StartedJob.amiss
  BY <1>3, <1>4, <1>5 DEF Raster!Driver
<1>7. /\ Raster!StartedPage \in Raster!Driver
      /\ Raster!StartedPage.job = served.job /\ Raster!StartedPage.page
      /\ Raster!StartedPage.next = 0 /\ Raster!StartedPage.pages = served.pages
      /\ Raster!StartedPage.short = served.short /\ Raster!StartedPage.cut = served.cut
      /\ ~served.page /\ served.job = "open" => ~Raster!StartedPage.amiss
  BY <1>3, <1>4, <1>5 DEF Raster!Driver
<1>8. /\ Raster!EndedPage \in Raster!Driver
      /\ Raster!EndedPage.job = served.job /\ ~Raster!EndedPage.page
      /\ Raster!EndedPage.pages = served.pages + 1 /\ Raster!EndedPage.cut = served.cut
      /\ served.page => ~Raster!EndedPage.amiss
      /\ Raster!EndedPage.short => served.short \/ served.next < Height
  <2>1. PICK pages_ \in Nat : pages_ = served.pages + 1
    BY <1>1
  <2>2. Raster!EndedPage = [served EXCEPT !.page = FALSE, !.pages = pages_, !.amiss = ends,
                              !.short = short]
    BY <1>5, <2>1
  <2>3. Raster!EndedPage \in Raster!Driver
    BY <1>3, <2>1, <2>2 DEF Raster!Driver
  <2>4. /\ Raster!EndedPage.job = served.job /\ Raster!EndedPage.page = FALSE
        /\ Raster!EndedPage.pages = pages_ /\ Raster!EndedPage.cut = served.cut
        /\ Raster!EndedPage.amiss = ends /\ Raster!EndedPage.short = short
    BY <2>2 DEF Raster!Driver
  <2>5. QED
    BY <1>4, <2>1, <2>3, <2>4
<1>9. /\ Raster!EndedJob \in Raster!Driver
      /\ Raster!EndedJob.job = "ended" /\ ~Raster!EndedJob.page
      /\ Raster!EndedJob.pages = served.pages
      /\ Raster!EndedJob.short = served.short /\ Raster!EndedJob.cut = served.cut
      /\ served.job = "open" => ~Raster!EndedJob.amiss
  BY <1>3, <1>4, <1>5 DEF Raster!Driver
<1>10. QED
  BY <1>6, <1>7, <1>8, <1>9

\* Lines that follow those before them.
LEMMA LinesSeen ==
  ASSUME RasterConstants, served \in Raster!Driver, ~served.amiss,
         NEW first \in Nat, NEW last \in Int,
         last < first \/ (served.page /\ served.next = first /\ last < Height),
         NEW wrote, wrote = Raster!Wrote(first, last)
  PROVE  /\ wrote \in Raster!Driver /\ ~wrote.amiss
         /\ wrote.job = served.job /\ wrote.pages = served.pages
         /\ (served.page => wrote.page)
         /\ (wrote.short => served.short) /\ (served.cut => wrote.cut)
         /\ wrote.next = IF last < first THEN served.next ELSE last + 1
<1>1. CASE last < first
  BY <1>1 DEF Raster!Wrote
<1>2. CASE ~(last < first)
  <2>1. PICK next \in Nat : next = last + 1
    BY <1>2
  <2>2. (served.amiss \/ ~served.page \/ served.next # first \/ last >= Height) = FALSE
    BY <1>2 DEF RasterConstants, Raster!Driver
  <2>3. wrote = [served EXCEPT !.next = next, !.amiss = FALSE]
    BY <1>2, <2>1, <2>2 DEF Raster!Wrote
  <2>4. QED
    BY <1>2, <2>1, <2>3 DEF Raster!Driver
<1>3. QED
  BY <1>1, <1>2

\* The same image is printed with the same options at the same place.
LEMMA PlaceKept ==
  ASSUME UNCHANGED <<image, margin, scaling, orientation>>
  PROVE  /\ Raster!Size' = Raster!Size /\ Raster!Down' = Raster!Down
         /\ Raster!Inside(Height)' = Raster!Inside(Height)
         /\ \A n : Raster!First(n)' = Raster!First(n)
<1>1. /\ Raster!Landscape' = Raster!Landscape /\ Raster!Least' = Raster!Least
      /\ \A n : /\ Raster!Inside(n)' = Raster!Inside(n)
                /\ Raster!Pixels(n)' = Raster!Pixels(n)
  BY DEF Raster!Landscape, Raster!Least, Raster!Inside, Raster!Pixels
<1>2. Raster!Across' = Raster!Across /\ Raster!Down' = Raster!Down
  BY <1>1 DEF Raster!Across, Raster!Down, Raster!Landscape
<1>3. Raster!Fits' = Raster!Fits
  BY <1>1, <1>2 DEF Raster!Fits
<1>4. Raster!Scaling' = Raster!Scaling
  BY <1>3 DEF Raster!Scaling, Raster!Fits
<1>5. Raster!Size' = Raster!Size
  BY <1>1, <1>2, <1>4 DEF Raster!Size
<1>6. \A n : Raster!First(n)' = Raster!First(n)
  BY <1>1 DEF Raster!First, Raster!Quotient
<1>7. QED
  BY <1>1, <1>2, <1>5, <1>6

\* The image of a document.
LEMMA ImageType ==
  ASSUME image \in Images
  PROVE  /\ Raster!Across \in Nat \ {0} /\ Raster!Down \in Nat \ {0}
         /\ image.ppi \in Nat
<1>1. image.width \in Nat \ {0} /\ image.height \in Nat \ {0} /\ image.ppi \in Nat
  BY RasterConstants DEF RasterConstants
<1>2. QED
  BY <1>1 DEF Raster!Across, Raster!Down

\* The size of an image that is printed on an area is one.
LEMMA SizeType ==
  ASSUME image \in Images, margin \in Nat,
         Raster!Inside(Width) > 0, Raster!Inside(Height) > 0
  PROVE  Raster!Size[1] \in Nat /\ Raster!Size[2] \in Nat
<1>1. Raster!Across \in Nat \ {0} /\ Raster!Down \in Nat \ {0} /\ image.ppi \in Nat
  BY ImageType
<1>2. Raster!Inside(Width) \in Nat /\ Raster!Inside(Height) \in Nat
  BY RasterConstants DEF RasterConstants, Raster!Inside
<1>3. ASSUME NEW n \in Nat PROVE Raster!Pixels(n) \in Nat
  <2>1. n * Resolution \in Nat
    BY ProductType, RasterConstants DEF RasterConstants
  <2>2. (IF image.ppi = 0 THEN 200 ELSE image.ppi) \in Nat \ {0}
    BY <1>1
  <2>3. QED
    BY <2>1, <2>2, Divided DEF Raster!Pixels
<1>4. (Raster!Inside(Width) * Raster!Down) \div Raster!Across \in Nat
  BY <1>1, <1>2, ProductType, Divided
<1>5. (Raster!Inside(Height) * Raster!Across) \div Raster!Down \in Nat
  BY <1>1, <1>2, ProductType, Divided
<1>6. QED
  BY <1>1, <1>2, <1>3, <1>4, <1>5 DEF Raster!Size

\* An image that has lines begins on the page, or above it, and ends below its top.
LEMMA FirstType ==
  ASSUME margin \in Nat, Raster!Inside(Height) > 0, NEW tall \in Nat \ {0}
  PROVE  /\ Raster!First(tall) \in Int /\ Raster!First(tall) <= Height
         /\ Raster!First(tall) + tall \in Nat
<1>1. /\ Raster!Inside(Height) \in Nat /\ Raster!Least \in Nat
      /\ Raster!Inside(Height) + Raster!Least <= Height
  BY RasterConstants DEF RasterConstants, Raster!Inside, Raster!Least
<1>2. PICK n \in Int : /\ n = Raster!Inside(Height) - tall
                       /\ n < Raster!Inside(Height) /\ n >= -tall
  BY <1>1
<1>3. PICK q \in Int : /\ q = Raster!Quotient(n, 2)
                       /\ q <= Raster!Inside(Height) /\ q >= -tall
  <2>1. CASE n < 0
    BY <1>1, <1>2, <2>1 DEF Raster!Quotient
  <2>2. CASE n >= 0
    BY <1>1, <1>2, <2>2 DEF Raster!Quotient
  <2>3. QED
    BY <2>1, <2>2
<1>4. Raster!First(tall) = Raster!Least + q
  BY <1>2, <1>3 DEF Raster!First
<1>5. QED
  BY <1>1, <1>3, <1>4, RasterConstants DEF RasterConstants

\* What a step leaves of the options, the documents and the image.
OptionsKept ==
  UNCHANGED <<streamed, margin, handling, documents, scaling, orientation>>

\* The steps that print a stream leave the documents and their image.
LEMMA StreamedKeeps ==
  ASSUME RasterInv, OptionsKept,
         UNCHANGED <<set, doc_number, copy, image, source, error>>,
         jpc \in RasterPcs \cup {"start"}, streamed,
         jpc' \in RasterPcs \cup {"end", "finish"},
         job_state' \in {"processing", "stopped", "aborted"}, is_canceled' \in BOOLEAN,
         height' \in Nat, y' \in Nat, impcompleted' \in Nat, served' \in Raster!Driver,
         Calls', Counts'
  PROVE  RasterInv'
<1>1. RasterTypes'
  BY DEF RasterInv, RasterTypes, Raster!TypeOK, OptionsKept, RasterPcs
<1>2. CopiesLeft'
  BY DEF RasterInv, CopiesLeft, OptionsKept, RasterPcs, CopyPcs, Raster!Sets,
         Raster!HeaderCopies
<1>3. Rows'
  BY DEF Rows, RasterPcs, CopyPcs
<1>4. QED
  BY <1>1, <1>2, <1>3 DEF RasterInv

\* _papplJobProcessRaster.
LEMMA RasterStreamStep ==
  ASSUME RasterInv,
         \/ Raster!StartStream \/ Raster!StreamPage \/ Raster!StreamLine
         \/ Raster!StreamLinesEnd \/ Raster!StreamRest \/ Raster!StreamEndPage
  PROVE  RasterInv'
<1> USE RasterConstants DEF RasterConstants
<1>1. /\ served \in Raster!Driver /\ ~served.amiss /\ (served.short => served.cut)
      /\ height \in Nat /\ y \in Nat /\ impcompleted \in Nat /\ served.pages \in Nat
      /\ is_canceled \in BOOLEAN /\ job_state \in {"processing", "stopped", "aborted"}
      /\ Calls /\ Counts
  BY DEF RasterInv, RasterTypes, Raster!TypeOK, Calls, Raster!Driver
<1>2. CASE Raster!StartStream
  <2>1. /\ OptionsKept /\ streamed /\ jpc = "start"
        /\ UNCHANGED <<is_canceled, set, doc_number, copy, image, source, error, y,
                       impcompleted>>
        /\ job_state' \in {"processing", "stopped", "aborted"}
        /\ \/ jpc' = "finish" /\ served' = served /\ height' = height
           \/ jpc' = "page" /\ served' = Raster!StartedJob /\ height' \in Nat
    BY <1>1, <1>2 DEF Raster!StartStream, Raster!At, Raster!Keep, Raster!Abort, Raster!Go,
      OptionsKept, Raster!optionVars, Raster!docVars, Raster!imageVars
  <2>2. Calls' /\ served' \in Raster!Driver
    BY <1>1, <2>1, CallsSeen DEF Calls
  <2>3. Counts'
    BY <1>1, <2>1, CallsSeen DEF Counts, RasterPcs, DocPcs, CopyPcs, OptionsKept
  <2>4. QED
    BY <1>1, <2>1, <2>2, <2>3, StreamedKeeps DEF RasterPcs
<1>3. CASE Raster!StreamPage
  <2>1. /\ OptionsKept /\ jpc = "page" /\ y' = 0
        /\ UNCHANGED <<is_canceled, set, doc_number, copy, image, source, error, height>>
        /\ job_state' \in {"processing", "stopped", "aborted"}
        /\ \/ jpc' = "end" /\ served' = served /\ impcompleted' = impcompleted
           \/ jpc' = "end" /\ served' = served /\ impcompleted' = impcompleted + 1
           \/ /\ jpc' \in {"end", "lines"} /\ served' = Raster!StartedPage
              /\ impcompleted' = impcompleted + 1
    BY <1>1, <1>3 DEF Raster!StreamPage, Raster!At, Raster!Keep, Raster!Abort, Raster!Go,
      OptionsKept, Raster!optionVars, Raster!docVars, Raster!imageVars
  <2>2. Calls' /\ served' \in Raster!Driver
    BY <1>1, <2>1, CallsSeen DEF Calls
  <2>3. Counts'
    BY <1>1, <2>1, CallsSeen DEF Counts, RasterPcs, DocPcs, CopyPcs, OptionsKept
  <2>4. QED
    BY <1>1, <2>1, <2>2, <2>3, StreamedKeeps DEF RasterPcs, Counts
<1>4. CASE Raster!StreamLine
  <2>1. /\ OptionsKept /\ jpc = "lines" /\ y < Height
        /\ UNCHANGED <<is_canceled, set, doc_number, copy, image, source, error, height,
                       impcompleted>>
        /\ job_state' = job_state
        /\ \/ jpc' = "lines" /\ served' = Raster!Wrote(y, y) /\ y' = y + 1
           \/ jpc' = "rest" /\ served' = [served EXCEPT !.cut = TRUE] /\ y' = y
    BY <1>1, <1>4 DEF Raster!StreamLine, Raster!At, Raster!Keep, Raster!Go,
      OptionsKept, Raster!optionVars, Raster!docVars, Raster!imageVars
  <2>2. CASE jpc' = "lines"
    <3>1. /\ served.page /\ served.next = y /\ y \in Int
          /\ y < y \/ (served.page /\ served.next = y /\ y < Height)
      BY <1>1, <2>1 DEF Calls
    <3>2. /\ served' \in Raster!Driver /\ ~served'.amiss
          /\ served'.job = served.job /\ served'.pages = served.pages
          /\ (served.page => served'.page)
          /\ (served'.short => served.short) /\ (served.cut => served'.cut)
          /\ served'.next = IF y < y THEN served.next ELSE y + 1
      BY <1>1, <2>1, <2>2, <3>1, LinesSeen
    <3>3. Calls'
      BY <1>1, <2>1, <2>2, <3>1, <3>2 DEF Calls
    <3>4. Counts'
      BY <1>1, <2>1, <2>2, <3>2 DEF Counts, RasterPcs, DocPcs, CopyPcs, OptionsKept
    <3>5. QED
      BY <1>1, <2>1, <2>2, <3>2, <3>3, <3>4, StreamedKeeps DEF RasterPcs, Counts
  <2>3. CASE jpc' = "rest"
    <3>1. /\ served' \in Raster!Driver /\ served'.cut
          /\ served'.job = served.job /\ served'.page = served.page
          /\ served'.next = served.next /\ served'.pages = served.pages
          /\ served'.amiss = served.amiss
      BY <1>1, <2>1, <2>3 DEF Raster!Driver
    <3>2. Calls'
      BY <1>1, <2>1, <2>3, <3>1 DEF Calls
    <3>3. Counts'
      BY <1>1, <2>1, <2>3, <3>1 DEF Counts, RasterPcs, DocPcs, CopyPcs, OptionsKept
    <3>4. QED
      BY <1>1, <2>1, <2>3, <3>1, <3>2, <3>3, StreamedKeeps DEF RasterPcs, Counts
  <2>4. QED
    BY <2>1, <2>2, <2>3
<1>5. CASE Raster!StreamLinesEnd
  <2>1. /\ OptionsKept /\ jpc = "lines" /\ jpc' = "rest"
        /\ is_canceled \/ y >= height \/ y >= Height
        /\ UNCHANGED <<is_canceled, set, doc_number, copy, image, source, error, height, y,
                       impcompleted, served, job_state>>
    BY <1>1, <1>5 DEF Raster!StreamLinesEnd, Raster!At, Raster!Keep, Raster!Go,
      OptionsKept, Raster!optionVars, Raster!docVars, Raster!imageVars
  <2>2. Calls'
    BY <1>1, <2>1 DEF Calls
  <2>3. Counts'
    BY <1>1, <2>1 DEF Counts, RasterPcs, DocPcs, CopyPcs, OptionsKept
  <2>4. QED
    BY <1>1, <2>1, <2>2, <2>3, StreamedKeeps DEF RasterPcs, Counts
<1>6. CASE Raster!StreamRest
  <2>1. /\ OptionsKept /\ jpc = "rest" /\ jpc' = "endpage" /\ y' \in Nat
        /\ \/ ~is_canceled /\ y < height /\ served' = served
           \/ served' = Raster!Wrote(y, Height - 1)
        /\ UNCHANGED <<is_canceled, set, doc_number, copy, image, source, error, height,
                       impcompleted, job_state>>
    BY <1>1, <1>6 DEF Raster!StreamRest, Raster!At, Raster!Keep, Raster!Go, Raster!AtLeast,
      OptionsKept, Raster!optionVars, Raster!docVars, Raster!imageVars
  <2>2. /\ served.page /\ served.next = y /\ y <= Height
        /\ is_canceled \/ y >= height \/ y >= Height \/ served.cut
    BY <1>1, <2>1 DEF Calls
  <2>3. PICK wrote :
        /\ wrote = Raster!Wrote(y, Height - 1)
        /\ wrote \in Raster!Driver /\ ~wrote.amiss
        /\ wrote.job = served.job /\ wrote.pages = served.pages
        /\ (served.page => wrote.page)
        /\ (wrote.short => served.short) /\ (served.cut => wrote.cut)
        /\ wrote.next = IF Height - 1 < y THEN served.next ELSE (Height - 1) + 1
    <3>1. /\ Height - 1 \in Int
          /\ Height - 1 < y \/ (served.page /\ served.next = y /\ Height - 1 < Height)
      BY <2>2
    <3>2. PICK wrote : wrote = Raster!Wrote(y, Height - 1)
      OBVIOUS
    <3>3. /\ wrote \in Raster!Driver /\ ~wrote.amiss
          /\ wrote.job = served.job /\ wrote.pages = served.pages
          /\ (served.page => wrote.page)
          /\ (wrote.short => served.short) /\ (served.cut => wrote.cut)
          /\ wrote.next = IF Height - 1 < y THEN served.next ELSE (Height - 1) + 1
      BY <1>1, <3>1, <3>2, LinesSeen
    <3>4. QED
      BY <3>2, <3>3
  <2>4. /\ served' \in Raster!Driver /\ ~served'.amiss
        /\ served'.job = served.job /\ served'.page /\ served'.pages = served.pages
        /\ (served'.short => served.short) /\ (served.cut => served'.cut)
        /\ served'.next >= Height \/ served'.cut
    <3>1. CASE served' = served
      <4>1. (~is_canceled /\ y < height) \/ served' = wrote
        BY <2>1, <2>3
      <4>2. CASE served' = wrote
        BY <1>1, <2>2, <2>3, <4>2
      <4>3. CASE ~is_canceled /\ y < height
        BY <1>1, <2>2, <3>1, <4>3
      <4>4. QED
        BY <4>1, <4>2, <4>3
    <3>2. CASE served' = wrote
      BY <1>1, <2>2, <2>3, <3>2
    <3>3. QED
      BY <2>1, <2>3, <3>1, <3>2
  <2>5. Calls'
    BY <1>1, <2>1, <2>4 DEF Calls
  <2>6. Counts'
    BY <1>1, <2>1, <2>4 DEF Counts, RasterPcs, DocPcs, CopyPcs, OptionsKept
  <2>7. QED
    BY <1>1, <2>1, <2>4, <2>5, <2>6, StreamedKeeps DEF RasterPcs, Counts
<1>7. CASE Raster!StreamEndPage
  <2>1. /\ OptionsKept /\ jpc = "endpage" /\ jpc' \in {"end", "page"} /\ height' \in Nat
        /\ served' = Raster!EndedPage
        /\ UNCHANGED <<is_canceled, set, doc_number, copy, image, source, error, y,
                       impcompleted>>
        /\ job_state' \in {"processing", "stopped", "aborted"}
    BY <1>1, <1>7 DEF Raster!StreamEndPage, Raster!At, Raster!Keep, Raster!Abort, Raster!Go,
      OptionsKept, Raster!optionVars, Raster!docVars, Raster!imageVars
  <2>2. served.page /\ (served.next >= Height \/ served.cut) /\ served.next \in Nat
    BY <1>1, <2>1 DEF Calls, Raster!Driver
  <2>3. /\ served' \in Raster!Driver /\ ~served'.amiss /\ ~served'.page
        /\ served'.job = served.job /\ served'.pages = served.pages + 1
        /\ served'.short => served'.cut
    <3>1. /\ served' \in Raster!Driver /\ ~served'.amiss /\ ~served'.page
          /\ served'.job = served.job /\ served'.pages = served.pages + 1
          /\ served'.cut = served.cut
          /\ served'.short => served.short \/ served.next < Height
      BY <1>1, <2>1, <2>2, CallsSeen
    <3>2. QED
      BY <1>1, <2>2, <3>1
  <2>4. Calls'
    BY <1>1, <2>1, <2>3 DEF Calls
  <2>5. Counts'
    BY <1>1, <2>1, <2>3 DEF Counts, RasterPcs, DocPcs, CopyPcs, OptionsKept
  <2>6. QED
    BY <1>1, <2>1, <2>3, <2>4, <2>5, StreamedKeeps DEF RasterPcs, Counts
<1>8. QED
  BY <1>2, <1>3, <1>4, <1>5, <1>6, <1>7

\* A document's step that is not on a page of an image: it may begin the next
\* document, and rewrite the options of this one.
LEMMA DocumentKeeps ==
  ASSUME RasterInv, UNCHANGED <<streamed, margin, handling>>,
         documents' \in [1..NumDocs -> Raster!Document],
         scaling' \in Raster!Scalings, orientation' \in Raster!Orientations,
         jpc' \in DocPcs \cup {"start", "end", "finish"},
         job_state' \in {"processing", "stopped", "aborted"}, is_canceled' \in BOOLEAN,
         set' \in 0..NumCopies, jpc' \notin {"end", "finish"} => set' < Raster!Sets,
         doc_number' \in 0..NumDocs, copy' \in 0..NumCopies, image' \in Images,
         height' \in Nat, y' \in Nat, source' \in Nat, error' \in Int,
         impcompleted' \in Nat, served' \in Raster!Driver,
         Calls', Counts', Rows',
         jpc' \in CopyPcs => copy' <= Raster!HeaderCopies,
         jpc' \in {"blank", "trailing"} => copy' < Raster!HeaderCopies
  PROVE  RasterInv'
<1>1. RasterTypes'
  BY DEF RasterInv, RasterTypes, Raster!TypeOK, DocPcs, CopyPcs
<1>2. Raster!Sets' = Raster!Sets /\ Raster!HeaderCopies' = Raster!HeaderCopies
  BY DEF Raster!Sets, Raster!HeaderCopies
<1>3. CopiesLeft'
  BY <1>2 DEF CopiesLeft
<1>4. QED
  BY <1>1, <1>3 DEF RasterInv

\* A step that keeps them.
LEMMA DocumentsKeep ==
  ASSUME RasterInv, OptionsKept, jpc' \in DocPcs \cup {"start", "end", "finish"},
         job_state' \in {"processing", "stopped", "aborted"}, is_canceled' \in BOOLEAN,
         set' \in 0..NumCopies, jpc' \notin {"end", "finish"} => set' < Raster!Sets,
         doc_number' \in 0..NumDocs, copy' \in 0..NumCopies, image' \in Images,
         height' \in Nat, y' \in Nat, source' \in Nat, error' \in Int,
         impcompleted' \in Nat, served' \in Raster!Driver,
         Calls', Counts', Rows',
         jpc' \in CopyPcs => copy' <= Raster!HeaderCopies,
         jpc' \in {"blank", "trailing"} => copy' < Raster!HeaderCopies
  PROVE  RasterInv'
<1>1. /\ documents \in [1..NumDocs -> Raster!Document]
      /\ scaling \in Raster!Scalings /\ orientation \in Raster!Orientations
  BY DEF RasterInv, RasterTypes, Raster!TypeOK
<1>2. /\ UNCHANGED <<streamed, margin, handling>>
      /\ documents' \in [1..NumDocs -> Raster!Document]
      /\ scaling' \in Raster!Scalings /\ orientation' \in Raster!Orientations
  BY <1>1 DEF OptionsKept
<1>3. QED
  BY <1>2, DocumentKeeps

\* What is so of every variable.
LEMMA RasterFacts ==
  ASSUME RasterInv
  PROVE  /\ served \in Raster!Driver /\ ~served.amiss /\ (served.short => served.cut)
         /\ height \in Nat /\ y \in Nat /\ impcompleted \in Nat /\ served.pages \in Nat
         /\ is_canceled \in BOOLEAN /\ job_state \in {"processing", "stopped", "aborted"}
         /\ set \in 0..NumCopies /\ doc_number \in 0..NumDocs /\ copy \in 0..NumCopies
         /\ documents \in [1..NumDocs -> Raster!Document]
         /\ scaling \in Raster!Scalings /\ orientation \in Raster!Orientations
         /\ image \in Images /\ source \in Nat /\ error \in Int /\ margin \in Nat
         /\ jpc \notin {"end", "finish"} => set < Raster!Sets
         /\ Raster!Sets \in 1..NumCopies /\ Raster!HeaderCopies \in 1..NumCopies
         /\ Calls /\ Counts /\ CopiesLeft /\ Rows
BY RasterConstants
DEF RasterConstants, RasterInv, RasterTypes, Raster!TypeOK, Calls, CopiesLeft, Raster!Driver,
    Raster!Sets, Raster!HeaderCopies

\* The documents of a job (_papplJobProcess).
LEMMA DocumentStep ==
  ASSUME RasterInv,
         \/ Raster!StartJob \/ Raster!NextDocument \/ Raster!LastDocument
         \/ Raster!FilterRaw \/ Raster!EndJob
  PROVE  RasterInv'
<1> USE DEF OptionsKept, Raster!optionVars, Raster!docVars, Raster!imageVars, Raster!At,
            Raster!Keep, Raster!Abort, Raster!Go
<1>1. /\ served \in Raster!Driver /\ ~served.amiss /\ (served.short => served.cut)
      /\ height \in Nat /\ y \in Nat /\ impcompleted \in Nat /\ served.pages \in Nat
      /\ is_canceled \in BOOLEAN /\ job_state \in {"processing", "stopped", "aborted"}
      /\ set \in 0..NumCopies /\ doc_number \in 0..NumDocs /\ copy \in 0..NumCopies
      /\ image \in Images /\ source \in Nat /\ error \in Int
      /\ jpc \notin {"end", "finish"} => set < Raster!Sets
      /\ Raster!Sets \in 1..NumCopies
      /\ Calls /\ Counts
  BY RasterFacts
<1>2. CASE Raster!StartJob
  <2>1. /\ OptionsKept /\ ~streamed /\ jpc = "start"
        /\ UNCHANGED <<is_canceled, set, doc_number, copy, image, source, error, y, height,
                       impcompleted>>
        /\ job_state' \in {"processing", "stopped", "aborted"}
        /\ \/ jpc' = "finish" /\ served' = served
           \/ jpc' = "document" /\ served' = Raster!StartedJob
    BY <1>1, <1>2 DEF Raster!StartJob
  <2>2. Calls' /\ served' \in Raster!Driver
    BY <1>1, <2>1, CallsSeen DEF Calls
  <2>3. Counts'
    BY <1>1, <2>1, CallsSeen DEF Counts, RasterPcs, DocPcs, CopyPcs
  <2>4. QED
    BY <1>1, <2>1, <2>2, <2>3, DocumentsKeep DEF DocPcs, CopyPcs, Rows
<1>3. CASE Raster!NextDocument
  <2>1. PICK n \in 1..NumDocs : n = doc_number + 1
    BY <1>1, <1>3, RasterConstants DEF RasterConstants, Raster!NextDocument
  <2>2. /\ documents \in [1..NumDocs -> Raster!Document]
        /\ documents[n].image \in Images /\ documents[n].scaling \in Raster!Scalings
        /\ documents[n].orientation \in Raster!Orientations
    BY RasterFacts DEF Raster!Document
  <2>3. /\ UNCHANGED <<streamed, margin, handling>> /\ jpc = "document"
        /\ jpc' \in {"document", "image", "end"}
        /\ doc_number' \in 0..NumDocs /\ image' \in Images
        /\ documents' \in [1..NumDocs -> Raster!Document]
        /\ scaling' \in Raster!Scalings /\ orientation' \in Raster!Orientations
        /\ UNCHANGED <<is_canceled, set, copy, source, error, y, height, impcompleted, served>>
        /\ job_state' \in {"processing", "stopped", "aborted"}
    BY <1>1, <1>3, <2>1, <2>2 DEF Raster!NextDocument
  <2>4. Calls'
    BY <1>1, <2>3 DEF Calls
  <2>5. Counts'
    BY <1>1, <2>3 DEF Counts, RasterPcs, DocPcs, CopyPcs
  <2>6. QED
    BY <1>1, <2>3, <2>4, <2>5, DocumentKeeps DEF DocPcs, CopyPcs, Rows
<1>4. CASE Raster!LastDocument
  <2>1. /\ OptionsKept /\ jpc = "document" /\ jpc' \in {"document", "end"}
        /\ set' = set + 1 /\ (jpc' = "document" => set + 1 < Raster!Sets)
        /\ doc_number' \in 0..NumDocs
        /\ UNCHANGED <<is_canceled, copy, image, source, error, y, height, impcompleted,
                       served, job_state>>
    BY <1>1, <1>4, RasterConstants DEF RasterConstants, Raster!LastDocument
  <2>2. Calls'
    BY <1>1, <2>1 DEF Calls
  <2>3. Counts'
    BY <1>1, <2>1 DEF Counts, RasterPcs, DocPcs, CopyPcs
  <2>4. set' \in 0..NumCopies /\ (jpc' \notin {"end", "finish"} => set' < Raster!Sets)
    BY <1>1, <2>1, RasterConstants DEF RasterConstants
  <2>5. QED
    BY <1>1, <2>1, <2>2, <2>3, <2>4, DocumentsKeep DEF DocPcs, CopyPcs, Rows
<1>5. CASE Raster!FilterRaw
  <2>1. /\ OptionsKept /\ jpc = "image"
        /\ \/ jpc' = "end" /\ impcompleted' = impcompleted
           \/ jpc' = "document" /\ impcompleted' = impcompleted + 1
        /\ UNCHANGED <<is_canceled, set, doc_number, copy, image, source, error, y, height,
                       served>>
        /\ job_state' \in {"processing", "stopped", "aborted"}
    BY <1>1, <1>5 DEF Raster!FilterRaw
  <2>2. Calls'
    BY <1>1, <2>1 DEF Calls
  <2>3. Counts'
    BY <1>1, <2>1 DEF Counts, RasterPcs, DocPcs, CopyPcs
  <2>4. QED
    BY <1>1, <2>1, <2>2, <2>3, DocumentsKeep DEF DocPcs, CopyPcs, Rows
<1>6. CASE Raster!EndJob
  <2>1. /\ OptionsKept /\ jpc = "end" /\ jpc' = "finish" /\ served' = Raster!EndedJob
        /\ UNCHANGED <<is_canceled, set, doc_number, copy, image, source, error, y, height,
                       impcompleted>>
        /\ job_state' \in {"processing", "stopped", "aborted"}
    BY <1>1, <1>6 DEF Raster!EndJob
  <2>2. served.job = "open"
    BY <1>1, <2>1 DEF Calls
  <2>3. /\ served' \in Raster!Driver /\ ~served'.amiss /\ served'.job = "ended"
        /\ served'.pages = served.pages
        /\ (served'.short => served.short) /\ (served.cut => served'.cut)
    BY <1>1, <2>1, <2>2, CallsSeen
  <2>4. Calls'
    BY <1>1, <2>1, <2>3 DEF Calls
  <2>5. Counts'
    BY <1>1, <2>1, <2>3 DEF Counts, RasterPcs, DocPcs, CopyPcs
  <2>6. QED
    BY <1>1, <2>1, <2>3, <2>4, <2>5, DocumentsKeep DEF DocPcs, CopyPcs, Rows
<1>7. QED
  BY <1>2, <1>3, <1>4, <1>5, <1>6

\* An image is placed on the page, or none is printed (_papplJobFilterPNG, -JPEG).
LEMMA PlaceStep ==
  ASSUME RasterInv, Raster!FilterPNG \/ Raster!FilterJPEG
  PROVE  RasterInv'
<1> USE DEF OptionsKept, Raster!optionVars, Raster!docVars, Raster!imageVars, Raster!At,
            Raster!Keep, Raster!Abort, Raster!Go
<1>1. /\ served \in Raster!Driver /\ height \in Nat /\ y \in Nat /\ impcompleted \in Nat
      /\ is_canceled \in BOOLEAN /\ job_state \in {"processing", "stopped", "aborted"}
      /\ set \in 0..NumCopies /\ doc_number \in 0..NumDocs /\ copy \in 0..NumCopies
      /\ image \in Images /\ source \in Nat /\ error \in Int /\ margin \in Nat
      /\ jpc \notin {"end", "finish"} => set < Raster!Sets
      /\ Raster!HeaderCopies \in 1..NumCopies
      /\ Calls /\ Counts
      /\ scaling \in Raster!Scalings /\ orientation \in Raster!Orientations
      /\ documents \in [1..NumDocs -> Raster!Document]
  BY RasterFacts
<1>2. /\ UNCHANGED <<streamed, margin, handling, scaling, orientation>>
      /\ documents' \in {documents, Raster!Resolved}
      /\ jpc \in {"image", "copy"} /\ jpc' \in {"end", "copy", "crashed"}
      /\ UNCHANGED <<is_canceled, set, doc_number, image, source, error, y, height,
                     impcompleted, served>>
      /\ job_state' \in {"processing", "stopped", "aborted"}
      /\ jpc' # "copy" => copy' \in {copy, 0, Raster!HeaderCopies - 1}
      /\ jpc' = "copy" => /\ Raster!Inside(Width) > 0 /\ Raster!Inside(Height) > 0
                          /\ Raster!Size[1] # 0 /\ Raster!Size[2] # 0
                          /\ copy' \in {0, Raster!HeaderCopies - 1}
  BY <1>1 DEF Raster!FilterPNG, Raster!FilterJPEG, Raster!PlaceImage, Raster!FilterFails
<1>3. Calls'
  BY <1>1, <1>2 DEF Calls
<1>4. Counts'
  BY <1>1, <1>2 DEF Counts, RasterPcs, DocPcs, CopyPcs
<1>5. copy' \in 0..NumCopies /\ (jpc' = "copy" => copy' <= Raster!HeaderCopies)
  BY <1>1, <1>2, RasterConstants DEF RasterConstants
<1>6. Rows'
  <2>1. jpc' = "copy" => Raster!Size[2] \in Nat \ {0}
    BY <1>1, <1>2, SizeType
  <2>2. Raster!Size' = Raster!Size /\ Raster!Inside(Height)' = Raster!Inside(Height)
    BY <1>2, PlaceKept
  <2>3. QED
    BY <1>2, <2>1, <2>2 DEF Rows, CopyPcs
<1>7. Raster!Scaling \in Raster!Scalings /\ "portrait" \in Raster!Orientations
  BY <1>1 DEF Raster!Scaling, Raster!Scalings, Raster!Orientations
<1>8. documents' \in [1..NumDocs -> Raster!Document]
  BY <1>1, <1>2, <1>7 DEF Raster!Resolved, Raster!Document
<1>9. QED
  BY <1>1, <1>2, <1>3, <1>4, <1>5, <1>6, <1>8, DocumentKeeps DEF DocPcs, CopyPcs

\* Where the first line of an image begins, on the page or above it.
LEMMA CopyBegins ==
  ASSUME image \in Images, margin \in Nat, Raster!Inside(Height) > 0, NEW tall \in Nat \ {0}
  PROVE  LET half == (Raster!Down % tall) \div 2 IN
         /\ Raster!Last(tall) \in Nat /\ Raster!Last(tall) <= Height
         /\ Raster!Last(tall) <= Raster!First(tall) + tall
         /\ Raster!StartRow(tall) \in Nat /\ Raster!StartError(tall) \in Int
         /\ Raster!StartError(tall) >= -half
         /\ Raster!StartRow(tall) * tall + Raster!StartError(tall) <=
              (IF 0 < Raster!First(tall) THEN 0
               ELSE (0 - Raster!First(tall)) * Raster!Down) - half
<1>1. PICK first \in Int : /\ first = Raster!First(tall) /\ first <= Height
                          /\ first + tall \in Nat
  BY FirstType
<1>2. PICK down \in Nat : down = Raster!Down
  BY ImageType
<1>3. PICK half \in Nat : half = (down % tall) \div 2
  BY <1>2, Divided
<1>4. Raster!Last(tall) \in Nat /\ Raster!Last(tall) <= Height
      /\ Raster!Last(tall) <= first + tall
  BY <1>1, RasterConstants DEF RasterConstants, Raster!Last
<1>5. CASE first >= 0
  <2>1. Raster!StartRow(tall) = 0 /\ Raster!StartError(tall) = -half
    BY <1>1, <1>2, <1>3, <1>5 DEF Raster!StartRow, Raster!StartError
  <2>2. 0 * tall = 0 /\ (first = 0 => (0 - first) * down = 0)
    BY <1>5
  <2>3. QED
    BY <1>1, <1>2, <1>3, <1>4, <1>5, <2>1, <2>2
<1>6. CASE first < 0
  <2>1. PICK above \in Nat : above = -first /\ above = 0 - first
    BY <1>6
  <2>2. PICK q \in Nat, r \in Nat :
          /\ q = (above * (down % tall)) \div tall /\ r = (above * (down % tall)) % tall
          /\ q * tall + r <= above * down
    BY StartBound
  <2>3. Raster!StartRow(tall) = q /\ Raster!StartError(tall) = -half + r
    BY <1>1, <1>2, <1>3, <1>6, <2>1, <2>2 DEF Raster!StartRow, Raster!StartError
  <2>4. PICK product \in Nat, lines \in Nat : product = q * tall /\ lines = above * down
    BY ProductType
  <2>5. QED
    BY <1>1, <1>2, <1>3, <1>4, <1>6, <2>1, <2>2, <2>3, <2>4
<1>7. QED
  BY <1>5, <1>6

\* A copy of an image begins, or the last one has ended.
LEMMA CopyStep ==
  ASSUME RasterInv, Raster!StartCopy \/ Raster!CopiesDone
  PROVE  RasterInv'
<1> USE DEF OptionsKept, Raster!optionVars, Raster!docVars, Raster!imageVars, Raster!At,
            Raster!Keep, Raster!Abort, Raster!Go
<1>1. /\ served \in Raster!Driver /\ ~served.amiss /\ (served.short => served.cut)
      /\ height \in Nat /\ y \in Nat /\ impcompleted \in Nat /\ served.pages \in Nat
      /\ is_canceled \in BOOLEAN /\ job_state \in {"processing", "stopped", "aborted"}
      /\ set \in 0..NumCopies /\ doc_number \in 0..NumDocs /\ copy \in 0..NumCopies
      /\ image \in Images /\ source \in Nat /\ error \in Int /\ margin \in Nat
      /\ jpc \notin {"end", "finish"} => set < Raster!Sets
      /\ Raster!HeaderCopies \in 1..NumCopies
      /\ Calls /\ Counts /\ CopiesLeft /\ Rows
  BY RasterFacts
<1>2. CASE jpc' \in {"end", "document"}
  <2>1. /\ OptionsKept /\ jpc = "copy"
        /\ UNCHANGED <<is_canceled, set, doc_number, copy, image, source, error, y, height,
                       impcompleted, served>>
        /\ job_state' \in {"processing", "stopped", "aborted"}
    BY <1>1, <1>2 DEF Raster!StartCopy, Raster!CopiesDone, Raster!FilterFails
  <2>2. Calls'
    BY <1>1, <1>2, <2>1 DEF Calls
  <2>3. Counts'
    BY <1>1, <1>2, <2>1 DEF Counts, RasterPcs, DocPcs, CopyPcs
  <2>4. QED
    BY <1>1, <1>2, <2>1, <2>2, <2>3, DocumentsKeep DEF DocPcs, CopyPcs, Rows
<1>3. CASE jpc' \notin {"end", "document"}
  <2>1. /\ OptionsKept /\ jpc = "copy" /\ jpc' = "blank" /\ copy < Raster!HeaderCopies
        /\ UNCHANGED <<is_canceled, set, doc_number, copy, image, impcompleted, job_state>>
        /\ served' = Raster!StartedPage /\ y' = 0
        /\ height' = Raster!Last(Raster!Size[2])
        /\ source' = Raster!StartRow(Raster!Size[2])
        /\ error' = Raster!StartError(Raster!Size[2])
    BY <1>1, <1>3 DEF Raster!StartCopy, Raster!CopiesDone, Raster!FilterFails
  <2>2. PICK tall \in Nat \ {0} : tall = Raster!Size[2] /\ Raster!Inside(Height) > 0
    BY <1>1, <2>1 DEF Rows, CopyPcs
  <2>3. PICK half : half = (Raster!Down % tall) \div 2
    OBVIOUS
  <2>4. /\ height' \in Nat /\ height' <= Height /\ height' <= Raster!First(tall) + tall
        /\ source' \in Nat /\ error' \in Int /\ error' >= -half
        /\ source' * tall + error' <=
             (IF 0 < Raster!First(tall) THEN 0
              ELSE (0 - Raster!First(tall)) * Raster!Down) - half
    BY <1>1, <2>1, <2>2, <2>3, CopyBegins
  <2>5. Rows'
    <3>1. /\ Raster!Size' = Raster!Size /\ Raster!Down' = Raster!Down
          /\ Raster!Inside(Height)' = Raster!Inside(Height)
          /\ \A n : Raster!First(n)' = Raster!First(n)
      BY <2>1, PlaceKept
    <3>2. QED
      BY <2>1, <2>2, <2>3, <2>4, <3>1 DEF Rows, CopyPcs
  <2>6. served.job = "open" /\ ~served.page
    BY <1>1, <2>1 DEF Calls
  <2>7. Calls' /\ served' \in Raster!Driver
    BY <1>1, <2>1, <2>6, CallsSeen, RasterConstants DEF Calls, RasterConstants
  <2>8. Counts'
    BY <1>1, <2>1, CallsSeen DEF Counts, RasterPcs, DocPcs, CopyPcs
  <2>9. QED
    BY <1>1, <2>1, <2>4, <2>5, <2>7, <2>8, DocumentsKeep DEF DocPcs, CopyPcs
<1>4. QED
  BY <1>2, <1>3

\* A line for the driver, who may fail.
LEMMA LineWritten ==
  ASSUME RasterInv, jpc \in {"blank", "trailing"}, y < Height,
         Raster!WriteLine(jpc), OptionsKept, source' \in Nat, error' \in Int,
         jpc' = jpc => Rows'
  PROVE  RasterInv'
<1> USE DEF Raster!docVars, Raster!Keep, Raster!Abort, Raster!Go
<1>1. /\ served \in Raster!Driver /\ ~served.amiss /\ (served.short => served.cut)
      /\ height \in Nat /\ y \in Nat /\ impcompleted \in Nat /\ served.pages \in Nat
      /\ is_canceled \in BOOLEAN /\ job_state \in {"processing", "stopped", "aborted"}
      /\ set \in 0..NumCopies /\ doc_number \in 0..NumDocs /\ copy \in 0..NumCopies
      /\ image \in Images
      /\ jpc \notin {"end", "finish"} => set < Raster!Sets
      /\ Calls /\ Counts /\ CopiesLeft
  BY RasterFacts
<1>2. /\ jpc' \in {jpc, "end"} /\ served' = Raster!Wrote(y, y) /\ y' = y + 1
      /\ UNCHANGED <<is_canceled, set, doc_number, copy, height, image, impcompleted>>
      /\ job_state' \in {"processing", "stopped", "aborted"}
  BY <1>1 DEF Raster!WriteLine, Raster!FilterFails
<1>3. /\ served.page /\ served.next = y /\ y \in Int /\ served.job = "open"
      /\ y < y \/ (served.page /\ served.next = y /\ y < Height)
  BY <1>1 DEF Calls
<1>4. PICK wrote : wrote = Raster!Wrote(y, y)
  OBVIOUS
<1>5. /\ wrote \in Raster!Driver /\ ~wrote.amiss
      /\ wrote.job = served.job /\ wrote.pages = served.pages
      /\ (served.page => wrote.page)
      /\ (wrote.short => served.short) /\ (served.cut => wrote.cut)
      /\ wrote.next = IF y < y THEN served.next ELSE y + 1
  BY <1>1, <1>3, <1>4, LinesSeen, RasterConstants
<1>6. served' = wrote /\ wrote.next = y' /\ y' <= Height /\ wrote.page
  BY <1>1, <1>2, <1>3, <1>4, <1>5, RasterConstants DEF RasterConstants
<1>7. Calls'
  BY <1>1, <1>2, <1>3, <1>5, <1>6 DEF Calls
<1>8. Counts'
  BY <1>1, <1>2, <1>5, <1>6 DEF Counts, RasterPcs, DocPcs, CopyPcs, OptionsKept
<1>9. Rows'
  BY <1>2 DEF Rows, CopyPcs
<1>10. QED
  BY <1>1, <1>2, <1>5, <1>6, <1>7, <1>8, <1>9, DocumentsKeep DEF DocPcs, CopyPcs, CopiesLeft

\* The lines of a page: blank ones, those of the image, and blank ones again.
LEMMA LineStep ==
  ASSUME RasterInv, Raster!LeadingLine \/ Raster!ImageLine \/ Raster!TrailingLine
  PROVE  RasterInv'
<1> USE DEF OptionsKept, Raster!optionVars, Raster!docVars, Raster!imageVars, Raster!At
<1>1. /\ height \in Nat /\ y \in Nat /\ image \in Images /\ margin \in Nat
      /\ source \in Nat /\ error \in Int /\ Calls /\ Rows
  BY RasterFacts
<1>2. /\ OptionsKept /\ jpc \in {"blank", "trailing"} /\ Raster!WriteLine(jpc)
      /\ y' = y + 1 /\ UNCHANGED <<image, height>>
  BY DEF Raster!LeadingLine, Raster!ImageLine, Raster!TrailingLine, Raster!WriteLine
<1>3. PICK tall \in Nat \ {0} : tall = Raster!Size[2] /\ Raster!Inside(Height) > 0
  BY <1>1, <1>2 DEF Rows, CopyPcs
<1>4. PICK first \in Int : first = Raster!First(tall) /\ first <= Height
  BY <1>1, <1>3, FirstType
<1>5. PICK down \in Nat \ {0} : down = Raster!Down
  BY <1>1, ImageType
<1>6. PICK half \in Nat : half = (down % tall) \div 2
  BY <1>5, Divided
<1>7. /\ Raster!Size' = Raster!Size /\ Raster!Down' = down
      /\ Raster!Inside(Height)' = Raster!Inside(Height)
      /\ Raster!First(tall)' = first
  BY <1>2, <1>4, <1>5, PlaceKept
<1>8. CASE Raster!TrailingLine
  <2>1. /\ jpc = "trailing" /\ y < Height /\ UNCHANGED <<source, error>>
    BY <1>8 DEF Raster!TrailingLine
  <2>2. jpc' = jpc => Rows'
    BY <1>3, <1>7, <2>1 DEF Rows, CopyPcs
  <2>3. QED
    BY <1>1, <1>2, <2>1, <2>2, LineWritten
<1>9. ASSUME jpc = "blank"
      PROVE  /\ height <= Height /\ height <= first + tall /\ error >= -half
             /\ source * tall + error <=
                  (IF y < first THEN 0 ELSE (y - first) * down) - half
  BY <1>1, <1>3, <1>4, <1>5, <1>6, <1>9 DEF Rows
<1>10. ASSUME jpc = "blank", error' >= -half,
              source' * tall + error' <=
                (IF y + 1 < first THEN 0 ELSE (y + 1 - first) * down) - half
       PROVE  jpc' = jpc => Rows'
  BY <1>1, <1>2, <1>3, <1>4, <1>5, <1>6, <1>7, <1>9, <1>10 DEF Rows, CopyPcs
<1>11. CASE Raster!LeadingLine
  <2>1. /\ jpc = "blank" /\ y < first /\ y < Height /\ UNCHANGED <<source, error>>
    BY <1>1, <1>3, <1>4, <1>11, RasterConstants DEF RasterConstants, Raster!LeadingLine
  <2>2. y + 1 >= first => (y + 1 - first) * down = 0
    <3>1. y + 1 >= first => y + 1 - first = 0
      BY <1>1, <2>1
    <3>2. 0 * down = 0
      OBVIOUS
    <3>3. QED
      BY <3>1, <3>2
  <2>3. source' * tall + error' <=
          (IF y + 1 < first THEN 0 ELSE (y + 1 - first) * down) - half
    BY <1>1, <1>9, <2>1, <2>2
  <2>4. jpc' = jpc => Rows'
    BY <1>9, <1>10, <2>1, <2>3
  <2>5. QED
    BY <1>1, <1>2, <2>1, <2>4, LineWritten
<1>12. CASE Raster!ImageLine
  <2>1. /\ jpc = "blank" /\ y >= first /\ y < height
    BY <1>3, <1>4, <1>12 DEF Raster!ImageLine
  <2>2. PICK q \in Nat, r \in Nat : q = down \div tall /\ r = down % tall /\ r < tall
    BY Divided
  <2>3. PICK c \in {0, 1} : /\ c = (IF error + r >= tall THEN 1 ELSE 0)
                           /\ source' = source + q + c
                           /\ error' = error + r - (IF c = 1 THEN tall ELSE 0)
    BY <1>3, <1>5, <1>12, <2>2 DEF Raster!ImageLine
  <2>4. c * tall = IF c = 1 THEN tall ELSE 0
    OBVIOUS
  <2>5. /\ source' \in Nat /\ error' \in Int /\ error' >= -half
        /\ error' = error + r - c * tall
    BY <1>1, <1>9, <2>1, <2>2, <2>3, <2>4
  <2>6. source * tall + error <= (y - first) * down - half
    BY <1>1, <1>9, <2>1
  <2>7. source' * tall + error' <= ((y - first) + 1) * down - half
    <3>1. (source + q + c) * tall + (error + r - c * tall) <= ((y - first) + 1) * down - half
      BY <1>1, <2>2, <2>6, RowStep
    <3>2. QED
      BY <2>3, <2>5, <3>1
  <2>8. source' * tall + error' <=
          (IF y + 1 < first THEN 0 ELSE (y + 1 - first) * down) - half
    <3>1. (y - first) + 1 = y + 1 - first /\ ~(y + 1 < first)
      BY <1>1, <2>1
    <3>2. QED
      BY <2>7, <3>1
  <2>9. jpc' = jpc => Rows'
    BY <1>10, <2>1, <2>5, <2>8
  <2>10. y < Height
    BY <1>1, <1>9, <2>1, RasterConstants DEF RasterConstants
  <2>11. QED
    BY <1>1, <1>2, <2>1, <2>5, <2>9, <2>10, LineWritten
<1>13. QED
  BY <1>8, <1>11, <1>12

\* The rest of a page, and its end.
LEMMA CopyEnds ==
  ASSUME RasterInv, Raster!EndOfImage \/ Raster!EndCopy
  PROVE  RasterInv'
<1> USE DEF OptionsKept, Raster!optionVars, Raster!docVars, Raster!imageVars, Raster!At,
            Raster!Keep, Raster!Abort, Raster!Go
<1>1. /\ served \in Raster!Driver /\ ~served.amiss /\ (served.short => served.cut)
      /\ height \in Nat /\ y \in Nat /\ impcompleted \in Nat /\ served.pages \in Nat
      /\ is_canceled \in BOOLEAN /\ job_state \in {"processing", "stopped", "aborted"}
      /\ set \in 0..NumCopies /\ doc_number \in 0..NumDocs /\ copy \in 0..NumCopies
      /\ image \in Images /\ source \in Nat /\ error \in Int
      /\ jpc \notin {"end", "finish"} => set < Raster!Sets
      /\ Raster!HeaderCopies \in 1..NumCopies
      /\ Calls /\ Counts /\ CopiesLeft /\ Rows
  BY RasterFacts
<1>2. CASE Raster!EndOfImage
  <2>1. /\ OptionsKept /\ jpc = "blank" /\ jpc' = "trailing"
        /\ UNCHANGED <<is_canceled, set, doc_number, copy, image, source, error, y, height,
                       impcompleted, served, job_state>>
    BY <1>2 DEF Raster!EndOfImage
  <2>2. Calls'
    BY <1>1, <2>1 DEF Calls
  <2>3. Counts'
    BY <1>1, <2>1 DEF Counts, RasterPcs, DocPcs, CopyPcs
  <2>4. Rows'
    <3>1. Raster!Size' = Raster!Size /\ Raster!Inside(Height)' = Raster!Inside(Height)
      BY <2>1, PlaceKept
    <3>2. QED
      BY <1>1, <2>1, <3>1 DEF Rows, CopyPcs
  <2>5. QED
    BY <1>1, <2>1, <2>2, <2>3, <2>4, DocumentsKeep DEF DocPcs, CopyPcs, CopiesLeft
<1>3. CASE Raster!EndCopy
  <2>1. /\ OptionsKept /\ jpc = "trailing" /\ y >= Height
        /\ served' = Raster!EndedPage
        /\ \/ jpc' = "end" /\ UNCHANGED <<copy, impcompleted>>
           \/ jpc' = "copy" /\ copy' = copy + 1 /\ impcompleted' = impcompleted + 1
        /\ UNCHANGED <<is_canceled, set, doc_number, image, source, error, y, height>>
        /\ job_state' \in {"processing", "stopped", "aborted"}
    BY <1>1, <1>3 DEF Raster!EndCopy, Raster!FilterFails
  <2>2. served.page /\ served.next = y /\ served.job = "open"
    BY <1>1, <2>1 DEF Calls
  <2>3. ~(served.next < Height)
    BY <1>1, <2>1, <2>2, RasterConstants DEF RasterConstants
  <2>4. /\ served' \in Raster!Driver /\ ~served'.amiss /\ ~served'.page
        /\ served'.job = served.job /\ served'.pages = served.pages + 1
        /\ served'.cut = served.cut
        /\ served'.short => served.short \/ served.next < Height
    BY <1>1, <2>1, <2>2, CallsSeen
  <2>5. served'.short => served'.cut
    BY <1>1, <2>3, <2>4
  <2>6. Calls'
    BY <1>1, <2>1, <2>2, <2>4, <2>5 DEF Calls
  <2>7. Counts'
    BY <1>1, <2>1, <2>4 DEF Counts, RasterPcs, DocPcs, CopyPcs
  <2>8. copy < Raster!HeaderCopies
    BY <1>1, <2>1 DEF CopiesLeft
  <2>9. /\ copy' \in 0..NumCopies /\ (jpc' = "copy" => copy' <= Raster!HeaderCopies)
        /\ impcompleted' \in Nat
    BY <1>1, <2>1, <2>8, RasterConstants DEF RasterConstants
  <2>10. Rows'
    <3>1. Raster!Size' = Raster!Size /\ Raster!Inside(Height)' = Raster!Inside(Height)
      BY <2>1, PlaceKept
    <3>2. QED
      BY <1>1, <2>1, <3>1 DEF Rows, CopyPcs
  <2>11. QED
    BY <1>1, <2>1, <2>4, <2>6, <2>7, <2>9, <2>10, DocumentsKeep DEF DocPcs, CopyPcs
<1>4. QED
  BY <1>2, <1>3

\* Where the thread is and what it has printed stays the same.
LEMMA RasterStays ==
  ASSUME RasterInv,
         UNCHANGED <<streamed, jpc, margin, handling, documents, set, doc_number, copy,
                     image, scaling, orientation, height, y, source, error,
                     impcompleted, served>>,
         job_state' \in {"processing", "stopped", "aborted"},
         is_canceled' \in BOOLEAN, is_canceled => is_canceled'
  PROVE  RasterInv'
<1>1. RasterTypes' /\ CopiesLeft'
  BY DEF RasterInv, RasterTypes, Raster!TypeOK, CopiesLeft, Raster!Sets, Raster!HeaderCopies
<1>2. Calls' /\ Counts'
  BY DEF RasterInv, Calls, Counts
<1>3. Rows'
  <2>1. /\ Raster!Size' = Raster!Size /\ Raster!Down' = Raster!Down
        /\ Raster!Inside(Height)' = Raster!Inside(Height)
        /\ \A n : Raster!First(n)' = Raster!First(n)
    BY PlaceKept
  <2>2. QED
    BY <2>1 DEF RasterInv, Rows
<1>4. QED
  BY <1>1, <1>2, <1>3 DEF RasterInv

\* Every step keeps what is so of the driver's calls.
LEMMA RasterStep ==
  ASSUME RasterInv, [Raster!Next]_rasterVars
  PROVE  RasterInv'
<1>1. is_canceled \in BOOLEAN /\ job_state \in {"processing", "stopped", "aborted"}
  BY RasterFacts
<1>2. CASE UNCHANGED rasterVars
  BY <1>1, <1>2, RasterStays DEF rasterVars
<1>3. CASE Raster!CancelJob
  BY <1>1, <1>3, RasterStays DEF Raster!CancelJob, Raster!optionVars, Raster!docVars,
                                Raster!imageVars
<1>4. CASE Raster!SuspendJob
  BY <1>1, <1>4, RasterStays DEF Raster!SuspendJob, Raster!optionVars, Raster!docVars,
                                Raster!imageVars
<1>5. QED
  BY <1>2, <1>3, <1>4, RasterStreamStep, DocumentStep, PlaceStep, CopyStep, LineStep,
     CopyEnds DEF Raster!Next

\* A step of the whole is one of the job's or leaves it.
LEMMA RasterOfParts ==
  ASSUME [PartsNext]_partsVars
  PROVE  [Raster!Next]_rasterVars
BY DEF PartsNext, partsVars, Others

\* What the driver has been called with follows from where the thread of the job is,
\* and the row of an image from the line of the page (_papplJobProcessRaster,
\* _papplJobProcess, papplJobFilterImage).
THEOREM RasterAlways == PartsSpec => []RasterInv
<1>1. PartsInit => RasterInv
  <2>1. SUFFICES ASSUME PartsInit PROVE RasterInv
    OBVIOUS
  <2>2. /\ Raster!Init /\ streamed \in BOOLEAN /\ margin \in Nat
    BY <2>1, RasterConstants DEF PartsInit, Raster!Init, RasterConstants
  <2>3. served \in Raster!Driver /\ ~served.amiss /\ ~served.short /\ served.job = "none"
        /\ ~served.page /\ served.pages = 0
    BY <2>2 DEF Raster!Init, Raster!Driver
  <2>4. /\ image \in Images /\ documents \in [1..NumDocs -> Raster!Document]
        /\ scaling \in Raster!Scalings /\ orientation \in Raster!Orientations
    <3>1. (CHOOSE i \in Images : TRUE) \in Images
      BY RasterConstants DEF RasterConstants
    <3>2. QED
      BY <2>2, <3>1 DEF Raster!Init, Raster!Scalings, Raster!Orientations
  <2>5. RasterTypes
    <3>1. /\ jpc = "start" /\ job_state = "processing" /\ is_canceled = FALSE /\ set = 0
          /\ doc_number = 0 /\ copy = 0 /\ height = 0 /\ y = 0 /\ source = 0 /\ error = 0
          /\ impcompleted = 0
      BY <2>2 DEF Raster!Init
    <3>2. is_canceled \in BOOLEAN /\ job_state \in {"processing", "stopped", "aborted"}
      BY <3>1
    <3>3. set \in 0..NumCopies /\ doc_number \in 0..NumDocs /\ copy \in 0..NumCopies
      BY <3>1, RasterConstants DEF RasterConstants
    <3>4. Raster!TypeOK
      BY <2>3, <2>4, <3>1, <3>2, <3>3 DEF Raster!TypeOK
    <3>5. QED
      BY <2>2, <3>1, <3>4 DEF RasterTypes
  <2>6. jpc = "start" /\ impcompleted = 0 /\ set = 0
    BY <2>2 DEF Raster!Init
  <2>7. Calls
    BY <2>3, <2>6 DEF Calls
  <2>8. Counts /\ Rows
    BY <2>3, <2>6 DEF Counts, Rows, RasterPcs, DocPcs, CopyPcs
  <2>9. CopiesLeft
    BY <2>6, RasterConstants DEF CopiesLeft, CopyPcs, Raster!Sets, RasterConstants
  <2>10. QED
    BY <2>5, <2>7, <2>8, <2>9 DEF RasterInv
<1>2. RasterInv /\ [PartsNext]_partsVars => RasterInv'
  BY RasterOfParts, RasterStep
<1>3. QED
  BY <1>1, <1>2, PTL DEF PartsSpec

\* Whatever is canceled, fails or breaks off, a driver is called in order, and for
\* every size of page and margins what it prints of an image is part of it.
THEOREM DriverIsServed == PartsSpec => []DriverServed
<1>1. RasterInv => Raster!DriverServed
  BY DEF RasterInv, Calls, Counts, Raster!DriverServed
<1>2. RasterInv => Raster!RowsInImage
  <2>1. SUFFICES ASSUME RasterInv, jpc = "blank", y >= Raster!First(Raster!Size[2]),
                        y < height
                 PROVE  source < Raster!Down
    BY DEF Raster!RowsInImage
  <2>2. /\ height \in Nat /\ y \in Nat /\ image \in Images /\ margin \in Nat
        /\ source \in Nat /\ error \in Int /\ Rows
    BY <2>1, RasterFacts
  <2>3. PICK tall \in Nat \ {0} : tall = Raster!Size[2] /\ Raster!Inside(Height) > 0
    BY <2>1, <2>2 DEF Rows, CopyPcs
  <2>4. PICK first \in Int : first = Raster!First(tall)
    BY <2>2, <2>3, FirstType
  <2>5. PICK down \in Nat \ {0} : down = Raster!Down
    BY <2>2, ImageType
  <2>6. PICK half \in Nat : half = (down % tall) \div 2
    BY <2>5, Divided
  <2>7. /\ height <= first + tall /\ error >= -half
        /\ source * tall + error <= (IF y < first THEN 0 ELSE (y - first) * down) - half
    BY <2>1, <2>2, <2>3, <2>4, <2>5, <2>6 DEF Rows
  <2>8. PICK k \in Int : k = y - first /\ k < tall /\ ~(y < first)
    BY <2>1, <2>2, <2>3, <2>4, <2>7
  <2>9. source * tall + error <= k * down - half
    BY <2>7, <2>8
  <2>10. QED
    BY <2>2, <2>5, <2>7, <2>8, <2>9, RowBound
<1>3. RasterInv => DriverServed
  BY <1>1, <1>2 DEF DriverServed, In
<1>4. QED
  BY <1>3, RasterAlways, PTL

-----------------------------------------------------------------------------
(* HTTPMonitor: host and device send what their scripts say, and the       *)
(* monitor is at the place in a message that the rest of the script is of. *)

HttpLines ==
  [kind : {"request"}, value : Monitor!Methods]
    \cup [kind : {"status"}, value : {"continue", "ok", "fail"}]
    \cup [kind : {"header", "blank", "body", "chunked"}, value : {0, 1}]
    \cup [kind : {"content-length", "chunk"}, value : 0..MaxBody]

Continues == Monitor!Line("status", "continue")
Chunk(n)  == Monitor!Line("chunk", n)
AnyBody   == Monitor!Bodies \cup {Monitor!NoBody}

Sides  == {"host", "device"}
HttpPieces == [from : Sides, line : HttpLines, part : {"whole", "begin", "end", "unit"}]
MonitorTypes ==
  /\ Monitor!TypeOK
  /\ host_buffer \in Seq([from : Sides, line : HttpLines, part : {"begin", "unit"}])
  /\ input \in HttpPieces \cup {Monitor!None}
  /\ host \in Seq(HttpLines) /\ device \in Seq(HttpLines)
  /\ begun \in [Sides -> BOOLEAN]

\* After the first n lines of q come k units, the end of data in chunks, all data.
UnitsAt(q, n, k) == \A i \in 1..k : q[n + i] = Monitor!Unit
LastAt(q, n)     == /\ Len(q) = n + 2
                    /\ q[n + 1] = Chunk(0) /\ q[n + 2] = Monitor!Blank
DataAt(q, n, b) ==
  /\ b.encoding = "none" => Len(q) = n
  /\ b.encoding = "length" => Len(q) = n + b.size /\ UnitsAt(q, n, b.size)
  /\ b.encoding = "chunked" /\ b.size = 0 => LastAt(q, n)
  /\ b.encoding = "chunked" /\ b.size > 0 =>
       /\ Len(q) = n + b.size + 4
       /\ q[n + 1] = Chunk(b.size) /\ UnitsAt(q, n + 1, b.size)
       /\ q[n + b.size + 2] = Monitor!Blank /\ LastAt(q, n + b.size + 2)

\* After the first n lines come the headers of b, and the data of d.
HeadersAt(q, n, b, d) ==
  /\ b.encoding = "none" =>
       Len(q) > n /\ q[n + 1] = Monitor!Blank /\ DataAt(q, n + 1, d)
  /\ b.encoding = "length" =>
       /\ Len(q) > n + 1 /\ q[n + 1] = Monitor!Line("content-length", b.size)
       /\ q[n + 2] = Monitor!Blank /\ DataAt(q, n + 2, d)
  /\ b.encoding = "chunked" =>
       /\ Len(q) > n + 1 /\ q[n + 1] = Monitor!Line("chunked", 0)
       /\ q[n + 2] = Monitor!Blank /\ DataAt(q, n + 2, d)

\* What is left of a message, as the monitor's variables have it: of the headers,
\* of the data, and of what the device answers.
NotSet     == encoding = "length" /\ remaining = 0
BodySet(b) == IF b.encoding = "chunked" THEN encoding = "chunked" /\ chunk = "header"
              ELSE encoding = "length" /\ remaining = b.size
HeadersLeft(q, b, d) ==
  \/ NotSet /\ HeadersAt(q, 0, b, d)
  \/ BodySet(b) /\ Len(q) > 0 /\ q[1] = Monitor!Blank /\ DataAt(q, 1, d)

\* Of data, with n units of a body or of a chunk of k to come.
DataIs(q, e, n, c, k) ==
  \/ e = "length" /\ n > 0 /\ Len(q) = n /\ UnitsAt(q, 0, n)
  \/ /\ e = "chunked" /\ c = "header"
     /\ \E m \in 0..MaxBody : DataAt(q, 0, [encoding |-> "chunked", size |-> m])
  \/ /\ e = "chunked" /\ c = "data"
     /\ n > 0 /\ k > 0 /\ Len(q) = n + 3 /\ UnitsAt(q, 0, n)
     /\ q[n + 1] = Monitor!Blank /\ LastAt(q, n + 1)
  \/ /\ e = "chunked" /\ c = "trailer" /\ k > 0
     /\ Len(q) = 3 /\ q[1] = Monitor!Blank /\ LastAt(q, 1)
  \/ /\ e = "chunked" /\ c = "trailer" /\ k = 0
     /\ Len(q) = 1 /\ q[1] = Monitor!Blank
DataLeft(q) == DataIs(q, encoding, remaining, chunk, length)

Carries(m, b) == IF m = "HEAD" THEN Monitor!NoBody ELSE b
AnswerAt(q, n, m) ==
  \E b \in AnyBody, code \in {"ok", "fail"} :
    /\ Len(q) > n /\ q[n + 1] = Monitor!Line("status", code)
    /\ HeadersAt(q, n + 1, b, Carries(m, b))
AnswerLeft(q, m) ==
  \/ AnswerAt(q, 0, m)
  \/ Len(q) > 0 /\ q[1] = Monitor!Blank /\ AnswerAt(q, 1, m)
  \/ Len(q) > 1 /\ q[1] = Continues /\ q[2] = Monitor!Blank /\ AnswerAt(q, 2, m)

\* The bodies that a request has: only a POST has one, and not an empty one.
RequestBody(m, b) ==
  IF m = "POST" THEN b \in Monitor!Bodies /\ (b.encoding = "length" => b.size > 0)
  ELSE b = Monitor!NoBody

\* What the monitor has still to see of a side: the piece that it looks at, or the
\* line that it has the beginning of, and what follows.
Script(s) == IF s = "host" THEN host ELSE device
ToCome(s) == IF input # Monitor!None /\ input.from = s /\ input.part # "begin"
             THEN <<input.line>> \o Script(s) ELSE Script(s)

\* The phases of a connection, each with what is to come from host and device.
AtRest(h, d) ==
  /\ state = "waiting" /\ phase = "client headers" /\ h = << >> /\ d = << >>
AtRequestLine(h, d) ==
  /\ state = "waiting" /\ phase = "client headers"
  /\ \E m \in Monitor!Methods, b \in AnyBody :
       /\ RequestBody(m, b) /\ AnswerLeft(d, m)
       /\ Len(h) > 1 /\ h[1] = Monitor!Line("request", m)
       /\ h[2] = Monitor!Line("header", 0) /\ HeadersAt(h, 2, b, b)
AtRequestHeaders(h, d) ==
  /\ state \in Monitor!Methods /\ phase = "client headers" /\ status = "continue"
  /\ AnswerLeft(d, state)
  /\ \E b \in AnyBody :
       /\ RequestBody(state, b)
       /\ \/ HeadersLeft(h, b, b)
          \/ /\ NotSet /\ Len(h) > 0 /\ h[1] = Monitor!Line("header", 0)
             /\ HeadersAt(h, 1, b, b)
AtRequestData(h, d) ==
  /\ state = "POST" /\ phase = "client data" /\ status = "continue"
  /\ AnswerLeft(d, state) /\ DataLeft(h)
AtAnswer(h, d) ==
  /\ state \in Monitor!Methods /\ phase = "server headers" /\ status = "continue"
  /\ h = << >> /\ NotSet /\ AnswerLeft(d, state)
AtAnswerHeaders(h, d) ==
  /\ state \in Monitor!Methods /\ phase = "server headers"
  /\ status \in {"ok", "fail"} /\ h = << >>
  /\ \E b \in AnyBody : HeadersLeft(d, b, Carries(state, b))
AtAnswerData(h, d) ==
  /\ state \in Monitor!Methods /\ phase = "server data"
  /\ status \in {"ok", "fail"} /\ h = << >> /\ DataLeft(d)

Turns(h, d) ==
  \/ AtRest(h, d) \/ AtRequestLine(h, d) \/ AtRequestHeaders(h, d)
  \/ AtRequestData(h, d) \/ AtAnswer(h, d) \/ AtAnswerHeaders(h, d)
  \/ AtAnswerData(h, d)

\* The pieces: a side that has sent the beginning of a line sends the end of it
\* next, and the buffer has the beginning.
Begins(s, l) == [from |-> s, line |-> l, part |-> "begin"]
OnlyBegun(s) == begun = [r \in Sides |-> r = s]
NoneBegun    == begun = [r \in Sides |-> FALSE]
BetweenPieces ==
  /\ input = Monitor!None
  /\ \/ host_buffer = << >> /\ NoneBegun
     \/ \E s \in Sides :
          /\ OnlyBegun(s) /\ Script(s) # << >> /\ Script(s)[1] # Monitor!Unit
          /\ host_buffer = <<Begins(s, Script(s)[1])>>
PieceOf(s, l) ==
  \/ /\ input = [from |-> s, line |-> l, part |-> "whole"]
     /\ NoneBegun /\ host_buffer = << >> /\ l # Monitor!Unit
  \/ /\ input = [from |-> s, line |-> l, part |-> "unit"]
     /\ NoneBegun /\ host_buffer = << >> /\ l = Monitor!Unit
  \/ /\ input = [from |-> s, line |-> l, part |-> "end"]
     /\ NoneBegun /\ host_buffer = <<Begins(s, l)>> /\ l # Monitor!Unit
  \/ /\ input = Begins(s, l)
     /\ OnlyBegun(s) /\ host_buffer = << >> /\ l # Monitor!Unit
     /\ Script(s) # << >> /\ Script(s)[1] = l
PiecesOK ==
  \/ BetweenPieces
  \/ input # Monitor!None /\ \E s \in Sides, l \in HttpLines : PieceOf(s, l)

\* The device sends nothing before the host has, but that it may continue.
DeviceWaits ==
  (input # Monitor!None /\ input.from = "device" /\ host # << >>) =>
    phase = "client data" /\ input.line \in {Continues, Monitor!Blank}

MonitorInv ==
  /\ unusual \in BOOLEAN
  /\ ~unusual =>
       /\ MonitorTypes /\ status # "error" /\ PiecesOK /\ DeviceWaits
       /\ \E h, d \in Seq(HttpLines) :
            h = ToCome("host") /\ d = ToCome("device") /\ Turns(h, d)

\* Constants of the monitor's types.
LEMMA MonitorFacts ==
  /\ MaxBody \in Nat /\ MaxRequests \in Nat
  /\ Monitor!Unit \in HttpLines /\ Monitor!Blank \in HttpLines
  /\ Monitor!Line("header", 0) \in HttpLines /\ Monitor!Line("chunked", 0) \in HttpLines
  /\ Chunk(0) \in HttpLines
  /\ \A c \in {"continue", "ok", "fail"} : Monitor!Line("status", c) \in HttpLines
  /\ \A m \in Monitor!Methods : Monitor!Line("request", m) \in HttpLines
  /\ \A b \in AnyBody :
       /\ b.encoding \in {"none", "length", "chunked"} /\ b.size \in 0..MaxBody
       /\ b.encoding = "none" => b = Monitor!NoBody
       /\ Chunk(b.size) \in HttpLines /\ Monitor!Line("content-length", b.size) \in HttpLines
<1>1. MaxBody \in Nat /\ MaxRequests \in Nat
  BY MonitorConstants DEF MonitorConstants
<1>2. 0 \in 0..MaxBody
  BY <1>1
<1>3. \A b \in AnyBody :
       /\ b.encoding \in {"none", "length", "chunked"} /\ b.size \in 0..MaxBody
       /\ b.encoding = "none" => b = Monitor!NoBody
  BY <1>2 DEF AnyBody, Monitor!Bodies, Monitor!NoBody
<1>4. \A n \in 0..MaxBody :
        Chunk(n) \in HttpLines /\ Monitor!Line("content-length", n) \in HttpLines
  BY DEF HttpLines, Chunk, Monitor!Line
<1>5. QED
  BY <1>1, <1>2, <1>3, <1>4 DEF HttpLines, Monitor!Line, Monitor!Unit, Monitor!Blank

\* One line before others.
LEMMA OneBefore ==
  ASSUME NEW S, NEW x \in S, NEW s \in Seq(S)
  PROVE  /\ <<x>> \o s \in Seq(S) /\ Len(<<x>> \o s) = Len(s) + 1
         /\ (<<x>> \o s)[1] = x /\ \A i \in 1..Len(s) : (<<x>> \o s)[i + 1] = s[i]
         /\ <<x>> \o s # << >>
<1>1. <<x>> \in Seq(S) /\ Len(<<x>>) = 1 /\ <<x>>[1] = x
  OBVIOUS
<1>2. Len(s) \in Nat
  BY LenProperties
<1>3. /\ <<x>> \o s \in Seq(S) /\ Len(<<x>> \o s) = 1 + Len(s)
      /\ \A i \in 1 .. 1 + Len(s) :
           (<<x>> \o s)[i] = IF i <= 1 THEN <<x>>[i] ELSE s[i - 1]
  BY <1>1, ConcatProperties
<1>4. Len(<<x>> \o s) # 0
  BY <1>2, <1>3
<1>5. <<x>> \o s # << >>
  BY <1>4
<1>6. ASSUME NEW i \in 1..Len(s)
      PROVE  (<<x>> \o s)[i + 1] = s[i]
  <2>1. i + 1 \in 1 .. 1 + Len(s) /\ ~(i + 1 <= 1) /\ (i + 1) - 1 = i
    BY <1>2
  <2>2. QED
    BY <1>3, <2>1
<1>7. QED
  BY <1>1, <1>2, <1>3, <1>5, <1>6

\* A script that is not empty is its first line and the rest.
LEMMA FirstAndRest ==
  ASSUME NEW S, NEW s \in Seq(S), s # << >>
  PROVE  /\ Len(s) > 0 /\ s[1] \in S /\ Tail(s) \in Seq(S)
         /\ <<s[1]>> \o Tail(s) = s
<1>1. Len(s) \in Nat \ {0}
  BY EmptySeq
<1>2. s[1] \in S
  BY <1>1, ElementOfSeq
<1>3. /\ Tail(s) \in Seq(S) /\ Len(Tail(s)) = Len(s) - 1
      /\ \A i \in 1 .. Len(Tail(s)) : Tail(s)[i] = s[i + 1]
  BY HeadTailProperties
<1>4. PICK q : q = <<s[1]>> \o Tail(s)
  OBVIOUS
<1>5. /\ q \in Seq(S) /\ Len(q) = Len(Tail(s)) + 1 /\ q[1] = s[1]
      /\ \A i \in 1..Len(Tail(s)) : q[i + 1] = Tail(s)[i]
  BY <1>2, <1>3, <1>4, OneBefore
<1>6. ASSUME NEW i \in 1 .. Len(q)
      PROVE  q[i] = s[i]
  <2>1. CASE i = 1
    BY <1>5, <2>1
  <2>2. CASE i # 1
    <3>1. i - 1 \in 1..Len(Tail(s)) /\ (i - 1) + 1 = i
      BY <1>1, <1>3, <1>5, <2>2
    <3>2. QED
      BY <1>3, <1>5, <3>1
  <2>3. QED
    BY <2>1, <2>2
<1>7. q = s
  BY <1>1, <1>3, <1>5, <1>6, SeqEqual
<1>8. QED
  BY <1>1, <1>2, <1>3, <1>4, <1>7

\* r is q without its first line.
Rest(q, r) == /\ q \in Seq(HttpLines) /\ r \in Seq(HttpLines)
              /\ Len(q) = Len(r) + 1 /\ \A i \in 1..Len(r) : q[i + 1] = r[i]

\* What comes after n + 1 lines comes after n lines of the rest.
LEMMA RestLeft ==
  ASSUME NEW q, NEW r, Rest(q, r), NEW n \in Nat
  PROVE  /\ LastAt(q, n + 1) => LastAt(r, n)
         /\ \A b \in AnyBody : DataAt(q, n + 1, b) => DataAt(r, n, b)
<1>1. Len(r) \in Nat /\ Len(q) = Len(r) + 1
  BY LenProperties DEF Rest
<1>2. \A i \in 1..Len(r) : q[i + 1] = r[i]
  BY DEF Rest
<1>3. \A i \in Nat : i >= 1 /\ i <= Len(r) => r[i] = q[i + 1]
  BY <1>1, <1>2
<1>4. ASSUME NEW k \in Nat, LastAt(q, k + 1)
      PROVE  LastAt(r, k)
  <2>1. Len(r) = k + 2
    BY <1>1, <1>4 DEF LastAt
  <2>2. r[k + 1] = q[(k + 1) + 1] /\ r[k + 2] = q[(k + 2) + 1]
    BY <1>3, <2>1
  <2>3. (k + 2) + 1 = (k + 1) + 2
    OBVIOUS
  <2>4. QED
    BY <1>4, <2>1, <2>2, <2>3 DEF LastAt
<1>5. ASSUME NEW m \in Nat, NEW k \in Nat, UnitsAt(q, m + 1, k), m + k <= Len(r)
      PROVE  UnitsAt(r, m, k)
  <2>1. ASSUME NEW i \in 1..k
        PROVE  r[m + i] = Monitor!Unit
    <3>1. r[m + i] = q[(m + i) + 1]
      BY <1>1, <1>3, <1>5
    <3>2. (m + i) + 1 = (m + 1) + i
      OBVIOUS
    <3>3. QED
      BY <1>5, <3>1, <3>2 DEF UnitsAt
  <2>2. QED
    BY <2>1 DEF UnitsAt
<1>6. ASSUME NEW b \in AnyBody, DataAt(q, n + 1, b)
      PROVE  DataAt(r, n, b)
  <2>1. b.size \in Nat
    BY MonitorFacts
  <2>2. CASE b.encoding = "none"
    BY <1>1, <1>6, <2>2 DEF DataAt
  <2>3. CASE b.encoding = "length"
    <3>1. Len(r) = n + b.size
      BY <1>1, <1>6, <2>1, <2>3 DEF DataAt
    <3>2. UnitsAt(r, n, b.size)
      BY <1>5, <1>6, <2>1, <2>3, <3>1 DEF DataAt
    <3>3. QED
      BY <2>3, <3>1, <3>2 DEF DataAt
  <2>4. CASE b.encoding = "chunked" /\ b.size = 0
    BY <1>4, <1>6, <2>4 DEF DataAt
  <2>5. CASE b.encoding = "chunked" /\ b.size > 0
    <3>1. /\ Len(q) = (n + 1) + b.size + 4 /\ q[(n + 1) + 1] = Chunk(b.size)
          /\ UnitsAt(q, (n + 1) + 1, b.size)
          /\ q[(n + 1) + b.size + 2] = Monitor!Blank
          /\ LastAt(q, (n + 1) + b.size + 2)
      BY <1>6, <2>5 DEF DataAt
    <3>2. Len(r) = n + b.size + 4
      BY <1>1, <2>1, <3>1
    <3>3. r[n + 1] = Chunk(b.size)
      BY <1>3, <2>1, <3>1, <3>2
    <3>4. UnitsAt(r, n + 1, b.size)
      BY <1>5, <2>1, <3>1, <3>2
    <3>5. r[n + b.size + 2] = Monitor!Blank
      <4>1. r[n + b.size + 2] = q[(n + b.size + 2) + 1]
        BY <1>3, <2>1, <3>2
      <4>2. (n + b.size + 2) + 1 = (n + 1) + b.size + 2
        BY <2>1
      <4>3. QED
        BY <3>1, <4>1, <4>2
    <3>6. LastAt(r, n + b.size + 2)
      <4>1. (n + b.size + 2) + 1 = (n + 1) + b.size + 2
        BY <2>1
      <4>2. QED
        BY <1>4, <2>1, <3>1, <4>1
    <3>7. QED
      BY <2>5, <3>2, <3>3, <3>4, <3>5, <3>6 DEF DataAt
  <2>6. b.size = 0 \/ b.size > 0
    BY <2>1
  <2>7. QED
    BY <2>2, <2>3, <2>4, <2>5, <2>6, MonitorFacts
<1>7. QED
  BY <1>4, <1>6

\* The same of headers and of answers.
LEMMA RestHeaders ==
  ASSUME NEW q, NEW r, Rest(q, r), NEW n \in Nat
  PROVE  /\ \A b \in AnyBody, d \in AnyBody : HeadersAt(q, n + 1, b, d) => HeadersAt(r, n, b, d)
         /\ \A m \in Monitor!Methods : AnswerAt(q, n + 1, m) => AnswerAt(r, n, m)
<1>1. Len(r) \in Nat /\ Len(q) = Len(r) + 1
  BY LenProperties DEF Rest
<1>2. \A i \in Nat : i >= 1 /\ i <= Len(r) => r[i] = q[i + 1]
  BY <1>1 DEF Rest
<1>3. ASSUME NEW k \in Nat, NEW b \in AnyBody, NEW d \in AnyBody, HeadersAt(q, k + 1, b, d)
      PROVE  HeadersAt(r, k, b, d)
  <2>1. k + 1 \in Nat /\ k + 2 \in Nat /\ (k + 1) + 1 = k + 2 /\ (k + 1) + 2 = k + 3
        /\ (k + 2) + 1 = k + 3
    OBVIOUS
  <2>2. /\ DataAt(q, k + 2, d) => DataAt(r, k + 1, d)
        /\ DataAt(q, k + 3, d) => DataAt(r, k + 2, d)
    BY <2>1, RestLeft
  <2>3. CASE b.encoding = "none"
    <3>1. Len(q) > k + 1 /\ q[k + 2] = Monitor!Blank /\ DataAt(q, k + 2, d)
      BY <1>3, <2>1, <2>3 DEF HeadersAt
    <3>2. Len(r) > k /\ r[k + 1] = q[k + 2]
      BY <1>1, <1>2, <2>1, <3>1
    <3>3. QED
      BY <2>2, <2>3, <3>1, <3>2 DEF HeadersAt
  <2>4. CASE b.encoding = "length"
    <3>1. /\ Len(q) > k + 2 /\ q[k + 2] = Monitor!Line("content-length", b.size)
          /\ q[k + 3] = Monitor!Blank /\ DataAt(q, k + 3, d)
      BY <1>3, <2>1, <2>4 DEF HeadersAt
    <3>2. Len(r) > k + 1 /\ r[k + 1] = q[k + 2] /\ r[k + 2] = q[k + 3]
      <4>1. Len(q) > k + 2
        BY <3>1
      <4>2. k + 1 <= Len(r) /\ k + 2 <= Len(r) /\ Len(r) > k + 1 /\ k + 1 >= 1 /\ k + 2 >= 1
        BY <1>1, <4>1
      <4>3. QED
        BY <1>2, <2>1, <4>2
    <3>3. QED
      BY <2>2, <2>4, <3>1, <3>2 DEF HeadersAt
  <2>5. CASE b.encoding = "chunked"
    <3>1. /\ Len(q) > k + 2 /\ q[k + 2] = Monitor!Line("chunked", 0)
          /\ q[k + 3] = Monitor!Blank /\ DataAt(q, k + 3, d)
      BY <1>3, <2>1, <2>5 DEF HeadersAt
    <3>2. Len(r) > k + 1 /\ r[k + 1] = q[k + 2] /\ r[k + 2] = q[k + 3]
      <4>1. Len(q) > k + 2
        BY <3>1
      <4>2. k + 1 <= Len(r) /\ k + 2 <= Len(r) /\ Len(r) > k + 1 /\ k + 1 >= 1 /\ k + 2 >= 1
        BY <1>1, <4>1
      <4>3. QED
        BY <1>2, <2>1, <4>2
    <3>3. QED
      BY <2>2, <2>5, <3>1, <3>2 DEF HeadersAt
  <2>6. QED
    BY <2>3, <2>4, <2>5, MonitorFacts
<1>4. ASSUME NEW m \in Monitor!Methods, AnswerAt(q, n + 1, m)
      PROVE  AnswerAt(r, n, m)
  <2>1. PICK b \in AnyBody, code \in {"ok", "fail"} :
          /\ Len(q) > n + 1 /\ q[(n + 1) + 1] = Monitor!Line("status", code)
          /\ HeadersAt(q, (n + 1) + 1, b, Carries(m, b))
    BY <1>4 DEF AnswerAt
  <2>2. Carries(m, b) \in AnyBody
    BY DEF Carries, AnyBody
  <2>3. Len(r) > n /\ r[n + 1] = Monitor!Line("status", code)
    BY <1>1, <1>2, <2>1
  <2>4. HeadersAt(r, n + 1, b, Carries(m, b))
    BY <1>3, <2>1, <2>2
  <2>5. QED
    BY <2>3, <2>4 DEF AnswerAt
<1>5. QED
  BY <1>3, <1>4

\* Lines before others leave the others as they are.
LEMMA DataAfter ==
  ASSUME NEW p \in Seq(HttpLines), NEW q \in Seq(HttpLines), NEW b \in AnyBody,
         DataAt(q, 0, b)
  PROVE  DataAt(p \o q, Len(p), b)
<1>1. Len(p) \in Nat /\ Len(q) \in Nat /\ b.size \in Nat
  BY LenProperties, MonitorFacts
<1>2. PICK w : w = p \o q
  OBVIOUS
<1>3. /\ Len(w) = Len(p) + Len(q)
      /\ \A i \in Nat : i >= 1 /\ i <= Len(q) => w[Len(p) + i] = q[i]
  <2>1. /\ Len(w) = Len(p) + Len(q)
        /\ \A i \in 1 .. Len(p) + Len(q) : w[i] = IF i <= Len(p) THEN p[i] ELSE q[i - Len(p)]
    BY <1>2, ConcatProperties
  <2>2. ASSUME NEW i \in Nat, i >= 1, i <= Len(q)
        PROVE  w[Len(p) + i] = q[i]
    <3>1. Len(p) + i \in 1 .. Len(p) + Len(q) /\ ~(Len(p) + i <= Len(p))
          /\ (Len(p) + i) - Len(p) = i
      BY <1>1, <2>2
    <3>2. QED
      BY <2>1, <3>1
  <2>3. QED
    BY <2>1, <2>2
<1>4. CASE b.encoding = "none"
  BY <1>1, <1>3, <1>4 DEF DataAt
<1>5. CASE b.encoding = "length"
  <2>1. Len(q) = b.size /\ \A i \in 1..b.size : q[0 + i] = Monitor!Unit
    BY <1>1, <1>5 DEF DataAt, UnitsAt
  <2>2. \A i \in 1..b.size : w[Len(p) + i] = Monitor!Unit
    BY <1>1, <1>3, <2>1
  <2>3. QED
    BY <1>1, <1>2, <1>3, <1>5, <2>1, <2>2 DEF DataAt, UnitsAt
<1>6. CASE b.encoding = "chunked" /\ b.size = 0
  <2>1. Len(q) = 2 /\ q[1] = Chunk(0) /\ q[2] = Monitor!Blank
    BY <1>6 DEF DataAt, LastAt
  <2>2. Len(w) = Len(p) + 2 /\ w[Len(p) + 1] = q[1] /\ w[Len(p) + 2] = q[2]
    BY <1>1, <1>3, <2>1
  <2>3. QED
    BY <1>2, <1>6, <2>1, <2>2 DEF DataAt, LastAt
<1>7. CASE b.encoding = "chunked" /\ b.size > 0
  <2>1. /\ Len(q) = b.size + 4 /\ q[1] = Chunk(b.size)
        /\ \A i \in 1..b.size : q[1 + i] = Monitor!Unit
        /\ q[b.size + 2] = Monitor!Blank
        /\ q[b.size + 3] = Chunk(0) /\ q[b.size + 4] = Monitor!Blank
    <3>1. /\ 0 + b.size + 4 = b.size + 4 /\ 0 + 1 = 1 /\ 0 + b.size + 2 = b.size + 2
          /\ (b.size + 2) + 1 = b.size + 3 /\ (b.size + 2) + 2 = b.size + 4
      BY <1>1
    <3>2. /\ Len(q) = 0 + b.size + 4 /\ q[0 + 1] = Chunk(b.size)
          /\ UnitsAt(q, 0 + 1, b.size)
          /\ q[0 + b.size + 2] = Monitor!Blank /\ LastAt(q, 0 + b.size + 2)
      BY <1>7 DEF DataAt
    <3>3. QED
      BY <3>1, <3>2 DEF LastAt, UnitsAt
  <2>2. Len(w) = Len(p) + b.size + 4 /\ w[Len(p) + 1] = Chunk(b.size)
    BY <1>1, <1>3, <2>1
  <2>3. UnitsAt(w, Len(p) + 1, b.size)
    <3>1. ASSUME NEW i \in 1..b.size
          PROVE  w[(Len(p) + 1) + i] = Monitor!Unit
      <4>1. (Len(p) + 1) + i = Len(p) + (1 + i) /\ 1 + i \in Nat /\ 1 + i >= 1
            /\ 1 + i <= Len(q)
        BY <1>1, <2>1
      <4>2. w[Len(p) + (1 + i)] = q[1 + i]
        BY <1>3, <4>1
      <4>3. QED
        BY <2>1, <4>1, <4>2
    <3>2. QED
      BY <3>1 DEF UnitsAt
  <2>4. w[Len(p) + b.size + 2] = Monitor!Blank
    <3>1. Len(p) + b.size + 2 = Len(p) + (b.size + 2) /\ b.size + 2 \in Nat
          /\ b.size + 2 >= 1
      BY <1>1
    <3>4. b.size + 2 <= Len(q)
      BY <1>1, <2>1
    <3>2. w[Len(p) + (b.size + 2)] = q[b.size + 2]
      BY <1>3, <3>1, <3>4
    <3>3. QED
      BY <2>1, <3>1, <3>2
  <2>5. LastAt(w, Len(p) + b.size + 2)
    <3>1. /\ (Len(p) + b.size + 2) + 1 = Len(p) + (b.size + 3)
          /\ (Len(p) + b.size + 2) + 2 = Len(p) + (b.size + 4)
          /\ b.size + 3 \in Nat /\ b.size + 3 >= 1 /\ b.size + 4 \in Nat /\ b.size + 4 >= 1
      BY <1>1
    <3>4. b.size + 3 <= Len(q) /\ b.size + 4 <= Len(q)
      BY <1>1, <2>1
    <3>2. w[Len(p) + (b.size + 3)] = q[b.size + 3] /\ w[Len(p) + (b.size + 4)] = q[b.size + 4]
      BY <1>3, <3>1, <3>4
    <3>3. Len(w) = (Len(p) + b.size + 2) + 2
      BY <1>1, <2>2
    <3>5. QED
      BY <2>1, <3>1, <3>2, <3>3 DEF LastAt
  <2>6. QED
    BY <1>2, <1>7, <2>2, <2>3, <2>4, <2>5 DEF DataAt
<1>8. QED
  BY <1>1, <1>4, <1>5, <1>6, <1>7, MonitorFacts

\* Two lines after others.
LEMMA TwoAfter ==
  ASSUME NEW n \in Nat, NEW q \in Seq(HttpLines), Len(q) = n,
         NEW e \in Seq(HttpLines), Len(e) = 2
  PROVE  /\ q \o e \in Seq(HttpLines) /\ Len(q \o e) = n + 2
         /\ \A i \in 1..n : (q \o e)[i] = q[i]
         /\ (q \o e)[n + 1] = e[1] /\ (q \o e)[n + 2] = e[2]
<1>1. PICK w : w = q \o e
  OBVIOUS
<1>2. /\ w \in Seq(HttpLines) /\ Len(w) = n + 2
      /\ \A i \in 1..n + 2 : w[i] = IF i <= n THEN q[i] ELSE e[i - n]
  <2>1. /\ w \in Seq(HttpLines) /\ Len(w) = Len(q) + Len(e)
        /\ \A i \in 1..Len(q) + Len(e) : w[i] = IF i <= Len(q) THEN q[i] ELSE e[i - Len(q)]
    BY <1>1, ConcatProperties
  <2>2. QED
    BY <2>1
<1>3. /\ \A i \in 1..n : i \in 1..n + 2 /\ i <= n
      /\ n + 1 \in 1..n + 2 /\ ~(n + 1 <= n) /\ (n + 1) - n = 1
      /\ n + 2 \in 1..n + 2 /\ ~(n + 2 <= n) /\ (n + 2) - n = 2
  OBVIOUS
<1>4. QED
  BY <1>1, <1>2, <1>3

\* The lines of a body.
LEMMA DataBuilt ==
  ASSUME NEW b \in AnyBody
  PROVE  Monitor!Data(b) \in Seq(HttpLines) /\ DataAt(Monitor!Data(b), 0, b)
<1>1. b.size \in 0..MaxBody /\ b.size \in Nat
  BY MonitorFacts
<1>2. PICK u : u = Monitor!Units(b.size)
  OBVIOUS
<1>3. /\ u \in Seq(HttpLines) /\ Len(u) = b.size
      /\ \A i \in 1..b.size : u[i] = Monitor!Unit
  BY <1>1, <1>2, MonitorFacts DEF Monitor!Units
<1>4. PICK e : e = <<Chunk(0), Monitor!Blank>>
  OBVIOUS
<1>5. e \in Seq(HttpLines) /\ Len(e) = 2 /\ e[1] = Chunk(0) /\ e[2] = Monitor!Blank
  BY <1>4, MonitorFacts
<1>6. CASE b.encoding = "none"
  <2>1. Monitor!Data(b) = << >>
    BY <1>6 DEF Monitor!Data
  <2>2. << >> \in Seq(HttpLines) /\ Len(<< >>) = 0
    BY EmptySeq
  <2>3. QED
    BY <1>6, <2>1, <2>2 DEF DataAt
<1>7. CASE b.encoding = "length"
  <2>1. Monitor!Data(b) = u
    BY <1>2, <1>7 DEF Monitor!Data
  <2>2. UnitsAt(u, 0, b.size)
    BY <1>3 DEF UnitsAt
  <2>3. QED
    BY <1>1, <1>3, <1>7, <2>1, <2>2 DEF DataAt
<1>8. CASE b.encoding = "chunked" /\ b.size = 0
  <2>1. Monitor!Data(b) = << >> \o e
    BY <1>4, <1>8 DEF Monitor!Data, Chunk
  <2>2. << >> \o e = e
    BY <1>5, ConcatEmptySeq
  <2>3. QED
    BY <1>5, <1>8, <2>1, <2>2 DEF DataAt, LastAt
<1>9. CASE b.encoding = "chunked" /\ b.size > 0
  <2>1. PICK c : c = <<Chunk(b.size)>>
    OBVIOUS
  <2>2. c \in Seq(HttpLines) /\ Len(c) = 1 /\ c[1] = Chunk(b.size)
    BY <2>1, MonitorFacts
  <2>3. PICK o : o = <<Monitor!Blank>>
    OBVIOUS
  <2>4. o \in Seq(HttpLines) /\ Len(o) = 1 /\ o[1] = Monitor!Blank
    BY <2>3, MonitorFacts
  <2>5. Monitor!Data(b) = ((c \o u) \o o) \o e
    <3>1. b.size # 0 /\ b.encoding # "none" /\ b.encoding # "length"
      BY <1>9
    <3>2. Monitor!Data(b) =
            ((<<Monitor!Line("chunk", b.size)>> \o Monitor!Units(b.size)) \o <<Monitor!Blank>>)
              \o <<Monitor!Line("chunk", 0), Monitor!Blank>>
      BY <1>9, <3>1 DEF Monitor!Data
    <3>3. QED
      BY <1>2, <1>4, <2>1, <2>3, <3>2 DEF Chunk
  <2>6. PICK f : f = c \o u
    OBVIOUS
  <2>7. /\ f \in Seq(HttpLines) /\ Len(f) = b.size + 1 /\ f[1] = Chunk(b.size)
        /\ \A i \in 1..b.size : f[i + 1] = Monitor!Unit
    <3>1. Chunk(b.size) \in HttpLines
      BY MonitorFacts
    <3>2. QED
      BY <1>3, <2>1, <2>6, <3>1, OneBefore
  <2>8. PICK g : g = f \o o
    OBVIOUS
  <2>9. /\ g \in Seq(HttpLines) /\ Len(g) = b.size + 2
        /\ \A i \in 1 .. b.size + 1 : g[i] = f[i]
        /\ g[b.size + 2] = Monitor!Blank
    <3>1. /\ g \in Seq(HttpLines) /\ Len(g) = Len(f) + Len(o)
          /\ \A i \in 1 .. Len(f) + Len(o) : g[i] = IF i <= Len(f) THEN f[i] ELSE o[i - Len(f)]
      BY <2>4, <2>7, <2>8, ConcatProperties
    <3>2. Len(f) + Len(o) = b.size + 2 /\ (b.size + 2) - Len(f) = 1
          /\ ~(b.size + 2 <= Len(f)) /\ b.size + 2 \in 1 .. b.size + 2
          /\ \A i \in 1 .. b.size + 1 : i \in 1 .. b.size + 2 /\ i <= Len(f)
      BY <1>1, <2>4, <2>7
    <3>3. QED
      BY <2>4, <3>1, <3>2
  <2>10. PICK w : w = g \o e
    OBVIOUS
  <2>11. /\ w \in Seq(HttpLines) /\ Len(w) = b.size + 4
         /\ \A i \in 1 .. b.size + 2 : w[i] = g[i]
         /\ w[b.size + 3] = Chunk(0) /\ w[b.size + 4] = Monitor!Blank
    <3>1. PICK n \in Nat : n = b.size + 2
      BY <1>1
    <3>2. /\ w \in Seq(HttpLines) /\ Len(w) = n + 2 /\ \A i \in 1..n : w[i] = g[i]
          /\ w[n + 1] = e[1] /\ w[n + 2] = e[2]
      <4>1. Len(g) = n
        BY <2>9, <3>1
      <4>2. QED
        BY <1>5, <2>9, <2>10, <4>1, TwoAfter
    <3>3. n + 1 = b.size + 3 /\ n + 2 = b.size + 4
      BY <1>1, <3>1
    <3>4. QED
      BY <1>5, <3>1, <3>2, <3>3
  <2>12. w[1] = Chunk(b.size)
    <3>1. 1 \in 1 .. b.size + 2 /\ 1 \in 1 .. b.size + 1
      BY <1>1
    <3>2. QED
      BY <2>7, <2>9, <2>11, <3>1
  <2>13. ASSUME NEW i \in 1..b.size
         PROVE  w[1 + i] = Monitor!Unit
    <3>1. i + 1 \in 1 .. b.size + 2 /\ i + 1 \in 1 .. b.size + 1 /\ 1 + i = i + 1
      BY <1>1
    <3>2. QED
      BY <2>7, <2>9, <2>11, <3>1
  <2>14. w[b.size + 2] = Monitor!Blank
    <3>1. b.size + 2 \in 1 .. b.size + 2
      BY <1>1
    <3>2. QED
      BY <2>9, <2>11, <3>1
  <2>16. DataAt(w, 0, b)
    <3>1. Len(w) = 0 + b.size + 4 /\ 0 + b.size + 2 = b.size + 2 /\ 0 + 1 = 1
          /\ (b.size + 2) + 1 = b.size + 3 /\ (b.size + 2) + 2 = b.size + 4
      BY <1>1, <2>11
    <3>2. UnitsAt(w, 1, b.size)
      BY <2>13 DEF UnitsAt
    <3>3. LastAt(w, b.size + 2)
      BY <1>1, <2>11, <3>1 DEF LastAt
    <3>4. QED
      BY <1>9, <2>12, <2>14, <3>1, <3>2, <3>3 DEF DataAt
  <2>17. QED
    BY <2>5, <2>6, <2>8, <2>10, <2>11, <2>16
<1>10. QED
  BY <1>1, <1>6, <1>7, <1>8, <1>9, MonitorFacts

\* One script after another.
LEMMA Joined ==
  ASSUME NEW p \in Seq(HttpLines), NEW q \in Seq(HttpLines), NEW w, w = p \o q
  PROVE  /\ w \in Seq(HttpLines) /\ Len(w) = Len(p) + Len(q)
         /\ \A i \in 1 .. Len(p) + Len(q) : w[i] = IF i <= Len(p) THEN p[i] ELSE q[i - Len(p)]
  BY ConcatProperties

\* Headers and data that follow the lines s.
LEMMA MessageBuilt ==
  ASSUME NEW s \in Seq(HttpLines), NEW b \in AnyBody, NEW d \in AnyBody
  PROVE  \A w : w = ((s \o Monitor!Headers(b)) \o <<Monitor!Blank>>) \o Monitor!Data(d) =>
           /\ w \in Seq(HttpLines) /\ Len(w) > Len(s)
           /\ \A i \in 1..Len(s) : w[i] = s[i]
           /\ HeadersAt(w, Len(s), b, d)
<1>0. SUFFICES ASSUME NEW w,
                      w = ((s \o Monitor!Headers(b)) \o <<Monitor!Blank>>) \o Monitor!Data(d)
               PROVE  /\ w \in Seq(HttpLines) /\ Len(w) > Len(s)
                      /\ \A i \in 1..Len(s) : w[i] = s[i]
                      /\ HeadersAt(w, Len(s), b, d)
  OBVIOUS
<1>1. Len(s) \in Nat /\ Monitor!Blank \in HttpLines
  BY LenProperties, MonitorFacts
<1>2. PICK a : a = s \o Monitor!Headers(b)
  OBVIOUS
<1>3. PICK p : p = a \o <<Monitor!Blank>>
  OBVIOUS
<1>4. PICK u : u = Monitor!Data(d)
  OBVIOUS
<1>5. u \in Seq(HttpLines) /\ DataAt(u, 0, d)
  BY <1>4, DataBuilt
<1>6. w = p \o u
  BY <1>0, <1>2, <1>3, <1>4
<1>7. ASSUME a \in Seq(HttpLines)
      PROVE  /\ p \in Seq(HttpLines) /\ Len(p) = Len(a) + 1 /\ Len(p) \in Nat
             /\ \A i \in 1..Len(a) : p[i] = a[i]
             /\ p[Len(a) + 1] = Monitor!Blank
             /\ w \in Seq(HttpLines) /\ Len(w) >= Len(p)
             /\ \A i \in 1..Len(p) : w[i] = p[i]
             /\ DataAt(w, Len(p), d)
  <2>1. p = Append(a, Monitor!Blank)
    BY <1>1, <1>3, <1>7, AppendIsConcat
  <2>2. /\ p \in Seq(HttpLines) /\ Len(p) = Len(a) + 1
        /\ \A i \in 1..Len(a) : p[i] = a[i]
        /\ p[Len(a) + 1] = Monitor!Blank
    BY <1>1, <1>7, <2>1, AppendProperties
  <2>3. /\ w \in Seq(HttpLines) /\ Len(w) = Len(p) + Len(u)
        /\ \A i \in 1 .. Len(p) + Len(u) : w[i] = IF i <= Len(p) THEN p[i] ELSE u[i - Len(p)]
    <3>1. p \in Seq(HttpLines) /\ u \in Seq(HttpLines)
      BY <1>5, <2>2
    <3>2. QED
      BY <1>6, <3>1, Joined
  <2>4. Len(p) \in Nat /\ Len(u) \in Nat
    BY <1>5, <2>2, LenProperties
  <2>5. \A i \in 1..Len(p) : i \in 1 .. Len(p) + Len(u) /\ i <= Len(p)
    BY <2>4
  <2>6. Len(w) >= Len(p) /\ \A i \in 1..Len(p) : w[i] = p[i]
    BY <2>3, <2>4, <2>5
  <2>7. DataAt(w, Len(p), d)
    BY <1>5, <1>6, <2>2, DataAfter
  <2>8. QED
    BY <2>2, <2>3, <2>4, <2>6, <2>7
<1>8. CASE b.encoding = "none"
  <2>1. a = s
    BY <1>2, <1>8, ConcatEmptySeq DEF Monitor!Headers
  <2>2. Len(p) = Len(s) + 1 /\ Len(s) + 1 \in 1..Len(p) /\ Len(p) > Len(s)
        /\ \A i \in 1..Len(s) : i \in 1..Len(p)
    BY <1>1, <1>7, <2>1
  <2>3. /\ w \in Seq(HttpLines) /\ Len(w) >= Len(p) /\ w[Len(s) + 1] = Monitor!Blank
        /\ \A i \in 1..Len(s) : w[i] = s[i]
        /\ DataAt(w, Len(s) + 1, d)
    BY <1>7, <2>1, <2>2
  <2>4. Len(w) > Len(s)
    BY <1>1, <2>2, <2>3, LenProperties
  <2>5. QED
    BY <1>8, <2>3, <2>4 DEF HeadersAt
<1>9. CASE b.encoding \in {"length", "chunked"}
  <2>1. PICK h \in HttpLines :
          h = IF b.encoding = "length" THEN Monitor!Line("content-length", b.size)
              ELSE Monitor!Line("chunked", 0)
    BY MonitorFacts
  <2>2. a = Append(s, h)
    <3>1. Monitor!Headers(b) = <<h>>
      BY <1>9, <2>1 DEF Monitor!Headers
    <3>2. QED
      BY <1>2, <3>1, AppendIsConcat
  <2>3. /\ a \in Seq(HttpLines) /\ Len(a) = Len(s) + 1
        /\ \A i \in 1..Len(s) : a[i] = s[i]
        /\ a[Len(s) + 1] = h
    BY <2>2, AppendProperties
  <2>4. Len(p) = Len(s) + 2 /\ Len(a) + 1 = Len(s) + 2 /\ Len(p) > Len(s) + 1
        /\ Len(s) + 1 \in 1..Len(a) /\ Len(s) + 1 \in 1..Len(p) /\ Len(s) + 2 \in 1..Len(p)
        /\ \A i \in 1..Len(s) : i \in 1..Len(a) /\ i \in 1..Len(p)
    BY <1>1, <1>7, <2>3
  <2>5. /\ w \in Seq(HttpLines) /\ Len(w) >= Len(p)
        /\ w[Len(s) + 1] = h /\ w[Len(s) + 2] = Monitor!Blank
        /\ \A i \in 1..Len(s) : w[i] = s[i]
        /\ DataAt(w, Len(s) + 2, d)
    BY <1>7, <2>3, <2>4
  <2>6. Len(w) > Len(s) /\ Len(w) > Len(s) + 1
    BY <1>1, <2>4, <2>5, LenProperties
  <2>7. QED
    BY <1>9, <2>1, <2>5, <2>6 DEF HeadersAt
<1>10. QED
  BY <1>8, <1>9, MonitorFacts

\* What the host is to send for a request.
LEMMA RequestBuilt ==
  ASSUME NEW m \in Monitor!Methods, NEW b \in AnyBody,
         NEW w, w = Monitor!Request(m, b)
  PROVE  /\ w \in Seq(HttpLines) /\ Len(w) > 2
         /\ w[1] = Monitor!Line("request", m) /\ w[2] = Monitor!Line("header", 0)
         /\ HeadersAt(w, 2, b, b)
<1>1. PICK s : s = <<Monitor!Line("request", m), Monitor!Line("header", 0)>>
  OBVIOUS
<1>2. s \in Seq(HttpLines) /\ Len(s) = 2
      /\ s[1] = Monitor!Line("request", m) /\ s[2] = Monitor!Line("header", 0)
  BY <1>1, MonitorFacts
<1>3. w = ((s \o Monitor!Headers(b)) \o <<Monitor!Blank>>) \o Monitor!Data(b)
  BY <1>1 DEF Monitor!Request
<1>4. /\ w \in Seq(HttpLines) /\ Len(w) > Len(s)
      /\ \A i \in 1..Len(s) : w[i] = s[i]
      /\ HeadersAt(w, Len(s), b, b)
  BY <1>2, <1>3, MessageBuilt
<1>5. 1 \in 1..2 /\ 2 \in 1..2
  OBVIOUS
<1>6. QED
  BY <1>2, <1>4, <1>5

\* The same of an answer: that to a HEAD carries no data.
LEMMA AnswerBuilt ==
  ASSUME NEW m \in Monitor!Methods, NEW b \in AnyBody
  PROVE  /\ Carries(m, b) \in AnyBody
         /\ Monitor!Data(Carries(m, b)) = IF m = "HEAD" THEN << >> ELSE Monitor!Data(b)
         /\ \A s \in Seq(HttpLines) : \A w : w = ((s \o Monitor!Headers(b)) \o <<Monitor!Blank>>)
                       \o Monitor!Data(Carries(m, b)) =>
              /\ w \in Seq(HttpLines) /\ Len(w) > Len(s)
              /\ \A i \in 1..Len(s) : w[i] = s[i]
              /\ HeadersAt(w, Len(s), b, Carries(m, b))
<1>1. Carries(m, b) \in AnyBody
  BY DEF Carries, AnyBody
<1>2. Monitor!Data(Carries(m, b)) = IF m = "HEAD" THEN << >> ELSE Monitor!Data(b)
  <2>1. Monitor!NoBody.encoding = "none"
    BY DEF Monitor!NoBody
  <2>2. Monitor!Data(Monitor!NoBody) = << >>
    BY <2>1 DEF Monitor!Data
  <2>3. QED
    BY <2>2 DEF Carries
<1>3. QED
  BY <1>1, <1>2, MessageBuilt

\* What the device is to send for it.
LEMMA ResponseBuilt ==
  ASSUME NEW m \in Monitor!Methods, NEW b \in AnyBody, NEW code \in {"ok", "fail"}
  PROVE  \A early \in {<< >>, Monitor!Continue} :
           \A w : w = early \o Monitor!Response(m, code, b) =>
             w \in Seq(HttpLines) /\ AnswerLeft(w, m)
<1>0. SUFFICES ASSUME NEW early \in {<< >>, Monitor!Continue}, NEW w,
                      w = early \o Monitor!Response(m, code, b)
               PROVE  w \in Seq(HttpLines) /\ AnswerLeft(w, m)
  OBVIOUS
<1>1. PICK c \in AnyBody : c = Carries(m, b)
  BY DEF Carries, AnyBody
<1>2. Monitor!Line("status", code) \in HttpLines /\ Continues \in HttpLines
      /\ Monitor!Blank \in HttpLines
  BY MonitorFacts DEF Continues
<1>3. PICK o : o = <<Monitor!Line("status", code)>>
  OBVIOUS
<1>4. o \in Seq(HttpLines) /\ Len(o) = 1 /\ o[1] = Monitor!Line("status", code)
  BY <1>2, <1>3
<1>5. PICK u : u = Monitor!Data(c)
  OBVIOUS
<1>6. u \in Seq(HttpLines)
  BY <1>5, DataBuilt
<1>7. PICK h : h = Monitor!Headers(b)
  OBVIOUS
<1>8. h \in Seq(HttpLines)
  <2>1. b.encoding = "none" => h = << >>
    BY <1>7 DEF Monitor!Headers
  <2>2. b.encoding = "length" => h = <<Monitor!Line("content-length", b.size)>>
    BY <1>7 DEF Monitor!Headers
  <2>3. b.encoding = "chunked" => h = <<Monitor!Line("chunked", 0)>>
    BY <1>7 DEF Monitor!Headers
  <2>4. << >> \in Seq(HttpLines)
    BY EmptySeq
  <2>5. /\ <<Monitor!Line("content-length", b.size)>> \in Seq(HttpLines)
        /\ <<Monitor!Line("chunked", 0)>> \in Seq(HttpLines)
    BY MonitorFacts
  <2>6. QED
    BY <2>1, <2>2, <2>3, <2>4, <2>5, MonitorFacts
<1>9. PICK k : k = <<Monitor!Blank>>
  OBVIOUS
<1>10. k \in Seq(HttpLines)
  BY <1>2, <1>9
<1>11. Monitor!Response(m, code, b) = ((o \o h) \o k) \o u
  <2>1. Monitor!Data(c) = IF m = "HEAD" THEN << >> ELSE Monitor!Data(b)
    BY <1>1, AnswerBuilt
  <2>2. Monitor!Response(m, code, b) =
          ((<<Monitor!Line("status", code)>> \o Monitor!Headers(b)) \o <<Monitor!Blank>>)
            \o (IF m = "HEAD" THEN << >> ELSE Monitor!Data(b))
    BY DEF Monitor!Response
  <2>3. QED
    BY <1>3, <1>5, <1>7, <1>9, <2>1, <2>2
<1>12. CASE early = << >>
  <2>1. ((o \o h) \o k) \o u \in Seq(HttpLines)
    BY <1>4, <1>6, <1>8, <1>10, ConcatProperties
  <2>2. w = ((o \o h) \o k) \o u
    BY <1>0, <1>11, <1>12, <2>1, ConcatEmptySeq
  <2>3. /\ w \in Seq(HttpLines) /\ Len(w) > 1 /\ w[1] = o[1]
        /\ HeadersAt(w, 1, b, Carries(m, b))
    <3>1. w = ((o \o Monitor!Headers(b)) \o <<Monitor!Blank>>) \o Monitor!Data(Carries(m, b))
      BY <1>1, <1>5, <1>7, <1>9, <2>2
    <3>2. /\ w \in Seq(HttpLines) /\ Len(w) > Len(o)
          /\ \A i \in 1..Len(o) : w[i] = o[i]
          /\ HeadersAt(w, Len(o), b, Carries(m, b))
      <4>1. \A r \in Seq(HttpLines) : \A v :
              v = ((r \o Monitor!Headers(b)) \o <<Monitor!Blank>>) \o Monitor!Data(Carries(m, b)) =>
                /\ v \in Seq(HttpLines) /\ Len(v) > Len(r)
                /\ \A i \in 1..Len(r) : v[i] = r[i]
                /\ HeadersAt(v, Len(r), b, Carries(m, b))
        BY AnswerBuilt
      <4>2. o \in Seq(HttpLines)
        BY <1>4
      <4>3. QED
        BY <3>1, <4>1, <4>2
    <3>3. 1 \in 1..1
      OBVIOUS
    <3>4. QED
      BY <1>4, <3>2, <3>3
  <2>4. 0 + 1 = 1 /\ Len(w) > 0
    BY <2>3, LenProperties
  <2>5. AnswerAt(w, 0, m)
    BY <1>4, <2>3, <2>4 DEF AnswerAt
  <2>6. QED
    BY <2>3, <2>5 DEF AnswerLeft
<1>13. CASE early = Monitor!Continue
  <2>1. early \in Seq(HttpLines) /\ Len(early) = 2
        /\ early[1] = Continues /\ early[2] = Monitor!Blank
    BY <1>2, <1>13 DEF Monitor!Continue, Continues
  <2>2. PICK s : s = early \o o
    OBVIOUS
  <2>3. /\ s \in Seq(HttpLines) /\ Len(s) = 3 /\ s[1] = Continues
        /\ s[2] = Monitor!Blank /\ s[3] = Monitor!Line("status", code)
    <3>1. /\ s \in Seq(HttpLines) /\ Len(s) = 2 + 1
          /\ \A i \in 1 .. 2 + 1 : s[i] = IF i <= 2 THEN early[i] ELSE o[i - 2]
      <4>1. early \in Seq(HttpLines) /\ o \in Seq(HttpLines)
        BY <1>4, <2>1
      <4>2. /\ s \in Seq(HttpLines) /\ Len(s) = Len(early) + Len(o)
            /\ \A i \in 1 .. Len(early) + Len(o) :
                 s[i] = IF i <= Len(early) THEN early[i] ELSE o[i - Len(early)]
        BY <2>2, <4>1, Joined
      <4>3. QED
        BY <1>4, <2>1, <4>2
    <3>2. QED
      BY <1>4, <2>1, <3>1
  <2>4. early \o (((o \o h) \o k) \o u) = ((s \o h) \o k) \o u
    <3>1. PICK x : x = o \o h
      OBVIOUS
    <3>2. PICK z : z = x \o k
      OBVIOUS
    <3>3. x \in Seq(HttpLines)
      BY <1>4, <1>8, <3>1, Joined
    <3>4. z \in Seq(HttpLines)
      BY <1>10, <3>2, <3>3, Joined
    <3>5. early \in Seq(HttpLines) /\ o \in Seq(HttpLines)
      BY <1>4, <2>1
    <3>6. (early \o o) \o h = early \o (o \o h)
      BY <1>8, <3>5, ConcatAssociative
    <3>7. (early \o x) \o k = early \o (x \o k)
      BY <1>10, <3>3, <3>5, ConcatAssociative
    <3>8. (early \o z) \o u = early \o (z \o u)
      BY <1>6, <3>4, <3>5, ConcatAssociative
    <3>9. QED
      BY <2>2, <3>1, <3>2, <3>6, <3>7, <3>8
  <2>5. w = ((s \o h) \o k) \o u
    BY <1>0, <1>11, <2>4
  <2>6. /\ w \in Seq(HttpLines) /\ Len(w) > 3 /\ w[1] = s[1] /\ w[2] = s[2] /\ w[3] = s[3]
        /\ HeadersAt(w, 3, b, Carries(m, b))
    <3>1. w = ((s \o Monitor!Headers(b)) \o <<Monitor!Blank>>) \o Monitor!Data(Carries(m, b))
      BY <1>1, <1>5, <1>7, <1>9, <2>5
    <3>2. /\ w \in Seq(HttpLines) /\ Len(w) > Len(s)
          /\ \A i \in 1..Len(s) : w[i] = s[i]
          /\ HeadersAt(w, Len(s), b, Carries(m, b))
      <4>1. \A r \in Seq(HttpLines) : \A v :
              v = ((r \o Monitor!Headers(b)) \o <<Monitor!Blank>>) \o Monitor!Data(Carries(m, b)) =>
                /\ v \in Seq(HttpLines) /\ Len(v) > Len(r)
                /\ \A i \in 1..Len(r) : v[i] = r[i]
                /\ HeadersAt(v, Len(r), b, Carries(m, b))
        BY AnswerBuilt
      <4>2. s \in Seq(HttpLines)
        BY <2>3
      <4>3. QED
        BY <3>1, <4>1, <4>2
    <3>3. 1 \in 1..3 /\ 2 \in 1..3 /\ 3 \in 1..3
      OBVIOUS
    <3>4. QED
      BY <2>3, <3>2, <3>3
  <2>7. 2 + 1 = 3 /\ Len(w) > 2 /\ Len(w) > 1
    BY <2>6, LenProperties
  <2>8. AnswerAt(w, 2, m)
    BY <2>3, <2>6, <2>7 DEF AnswerAt
  <2>9. QED
    BY <2>3, <2>6, <2>7, <2>8 DEF AnswerLeft
<1>14. QED
  BY <1>0, <1>12, <1>13

\* What is left of data after its first line: what the monitor's variables are to
\* say then.
LEMMA DataRead ==
  ASSUME NEW q, NEW r, Rest(q, r), NEW e, NEW n \in Nat, NEW c, NEW k \in Nat,
         DataIs(q, e, n, c, k)
  PROVE  /\ q[1] = Monitor!Unit =>
              /\ n > 0 /\ (e = "length" \/ (e = "chunked" /\ c = "data"))
              /\ e = "length" =>
                   IF n - 1 = 0 THEN r = << >> ELSE \A f : DataIs(r, e, n - 1, f, k)
              /\ e = "chunked" =>
                   DataIs(r, e, n - 1, IF n - 1 = 0 THEN "trailer" ELSE c, k)
         /\ q[1] # Monitor!Unit =>
              /\ e = "chunked" /\ c \in {"header", "trailer"}
              /\ c = "header" =>
                   \E m \in 0..MaxBody :
                     /\ q[1] = Chunk(m)
                     /\ DataIs(r, e, m, IF m = 0 THEN "trailer" ELSE "data", m)
              /\ c = "trailer" =>
                   /\ q[1] = Monitor!Blank
                   /\ k = 0 => r = << >>
                   /\ k > 0 => \A l : DataIs(r, e, l, "header", k)
<1>1. Len(r) \in Nat /\ Len(q) = Len(r) + 1 /\ r \in Seq(HttpLines)
  BY LenProperties DEF Rest
<1>2. \A i \in Nat : i >= 1 /\ i <= Len(r) => r[i] = q[i + 1]
  BY <1>1 DEF Rest
<1>3. Monitor!Unit # Monitor!Blank /\ \A m \in 0..MaxBody : Monitor!Unit # Chunk(m)
  BY DEF Monitor!Unit, Monitor!Blank, Monitor!Line, Chunk
<1>4. \A i \in Nat : LastAt(q, i + 1) => LastAt(r, i)
  BY RestLeft
<1>5. Len(r) = 0 => r = << >>
  BY <1>1, EmptySeq
<1>6. ASSUME NEW i \in Nat, i > 0, UnitsAt(q, 0, i), i - 1 <= Len(r)
      PROVE  UnitsAt(r, 0, i - 1)
  <2>1. ASSUME NEW l \in 1 .. i - 1
        PROVE  r[0 + l] = Monitor!Unit
    <3>1. l \in Nat /\ l >= 1 /\ l <= Len(r) /\ l + 1 \in 1..i /\ 0 + (l + 1) = l + 1
          /\ 0 + l = l
      BY <1>1, <1>6
    <3>2. r[l] = q[l + 1] /\ q[0 + (l + 1)] = Monitor!Unit
      BY <1>2, <1>6, <3>1 DEF UnitsAt
    <3>3. QED
      BY <3>1, <3>2
  <2>2. QED
    BY <2>1 DEF UnitsAt
<1>7. ASSUME NEW i \in Nat, i > 0, UnitsAt(q, 0, i)
      PROVE  q[1] = Monitor!Unit
  <2>1. 1 \in 1..i /\ 0 + 1 = 1
    BY <1>7
  <2>2. q[0 + 1] = Monitor!Unit
    BY <1>7, <2>1 DEF UnitsAt
  <2>3. QED
    BY <2>1, <2>2
<1>8. CASE e = "length" /\ n > 0 /\ Len(q) = n /\ UnitsAt(q, 0, n)
  <2>1. Len(r) = n - 1 /\ q[1] = Monitor!Unit /\ UnitsAt(r, 0, n - 1)
    BY <1>1, <1>6, <1>7, <1>8
  <2>2. n - 1 = 0 => r = << >>
    <3>1. n - 1 = 0 => Len(r) = 0
      BY <2>1
    <3>2. QED
      BY <1>5, <3>1
  <2>3. n - 1 # 0 => \A f : DataIs(r, e, n - 1, f, k)
    <3>1. SUFFICES ASSUME n - 1 # 0, NEW f PROVE DataIs(r, e, n - 1, f, k)
      OBVIOUS
    <3>2. n - 1 > 0
      BY <1>8, <3>1
    <3>3. QED
      BY <1>8, <2>1, <3>2 DEF DataIs
  <2>4. IF n - 1 = 0 THEN r = << >> ELSE \A f : DataIs(r, e, n - 1, f, k)
    BY <2>2, <2>3
  <2>5. e # "chunked"
    BY <1>8
  <2>6. QED
    BY <1>8, <2>1, <2>4, <2>5
<1>9. CASE /\ e = "chunked" /\ c = "header"
           /\ \E m \in 0..MaxBody : DataAt(q, 0, [encoding |-> "chunked", size |-> m])
  <2>1. PICK m \in 0..MaxBody : DataAt(q, 0, [encoding |-> "chunked", size |-> m])
    BY <1>9
  <2>2. m \in Nat
    BY <2>1, MonitorFacts
  <2>3. q[1] = Chunk(m)
    BY <2>1, <2>2 DEF DataAt, LastAt
  <2>4. CASE m = 0
    <3>1. LastAt(q, 0)
      BY <2>1, <2>4 DEF DataAt
    <3>2. Len(r) = 1 /\ r[1] = Monitor!Blank
      <4>1. Len(q) = 0 + 2 /\ q[0 + 2] = Monitor!Blank
        BY <3>1 DEF LastAt
      <4>2. /\ \A x \in Nat : x + 1 = 0 + 2 => x = 1
            /\ 1 \in Nat /\ 1 + 1 = 0 + 2
        OBVIOUS
      <4>3. Len(r) = 1
        BY <1>1, <4>1, <4>2
      <4>4. QED
        BY <1>2, <4>1, <4>2, <4>3
    <3>3. DataIs(r, e, m, "trailer", m)
      BY <1>9, <2>4, <3>2 DEF DataIs
    <3>4. QED
      BY <1>3, <1>9, <2>3, <2>4, <3>3
  <2>5. CASE m > 0
    <3>1. /\ Len(q) = 0 + m + 4 /\ UnitsAt(q, 0 + 1, m)
          /\ q[0 + m + 2] = Monitor!Blank /\ LastAt(q, 0 + m + 2)
      BY <2>1, <2>5 DEF DataAt
    <3>2. Len(r) = m + 3
      BY <1>1, <2>2, <3>1
    <3>3. UnitsAt(r, 0, m)
      <4>1. ASSUME NEW i \in 1..m
            PROVE  r[0 + i] = Monitor!Unit
        <5>1. 0 + i = i /\ i \in Nat /\ i >= 1 /\ i <= Len(r) /\ (0 + 1) + i = i + 1
          BY <2>2, <3>2
        <5>2. r[i] = q[i + 1] /\ q[(0 + 1) + i] = Monitor!Unit
          BY <1>2, <3>1, <5>1 DEF UnitsAt
        <5>3. QED
          BY <5>1, <5>2
      <4>2. QED
        BY <4>1 DEF UnitsAt
    <3>4. r[m + 1] = Monitor!Blank
      <4>1. m + 1 \in Nat /\ m + 1 >= 1 /\ m + 1 <= Len(r) /\ (m + 1) + 1 = 0 + m + 2
        BY <2>2, <3>2
      <4>2. QED
        BY <1>2, <3>1, <4>1
    <3>5. LastAt(r, m + 1)
      <4>1. m + 1 \in Nat /\ (m + 1) + 1 = 0 + m + 2
        BY <2>2
      <4>2. QED
        BY <1>4, <3>1, <4>1
    <3>6. DataIs(r, e, m, "data", m)
      BY <1>9, <2>5, <3>2, <3>3, <3>4, <3>5 DEF DataIs
    <3>7. m # 0
      BY <2>5
    <3>8. QED
      BY <1>3, <1>9, <2>3, <3>6, <3>7
  <2>6. QED
    BY <2>2, <2>4, <2>5
<1>10. CASE /\ e = "chunked" /\ c = "data"
            /\ n > 0 /\ k > 0 /\ Len(q) = n + 3 /\ UnitsAt(q, 0, n)
            /\ q[n + 1] = Monitor!Blank /\ LastAt(q, n + 1)
  <2>1. Len(r) = (n - 1) + 3 /\ q[1] = Monitor!Unit /\ UnitsAt(r, 0, n - 1)
    BY <1>1, <1>6, <1>7, <1>10
  <2>2. r[n] = Monitor!Blank
    BY <1>2, <1>10, <2>1
  <2>3. LastAt(r, n)
    BY <1>4, <1>10
  <2>4. (n - 1) + 1 = n
    OBVIOUS
  <2>5. CASE n - 1 = 0
    <3>1. n = 1 /\ Len(r) = 3
      BY <2>1, <2>5
    <3>2. DataIs(r, e, n - 1, "trailer", k)
      BY <1>10, <2>2, <2>3, <3>1 DEF DataIs
    <3>3. QED
      BY <1>10, <2>1, <2>5, <3>2
  <2>6. CASE n - 1 # 0
    <3>1. n - 1 > 0
      BY <1>10, <2>6
    <3>2. DataIs(r, e, n - 1, c, k)
      BY <1>10, <2>1, <2>2, <2>3, <2>4, <3>1 DEF DataIs
    <3>3. QED
      BY <1>10, <2>1, <2>6, <3>2
  <2>7. QED
    BY <2>5, <2>6
<1>11. CASE /\ e = "chunked" /\ c = "trailer" /\ k > 0
            /\ Len(q) = 3 /\ q[1] = Monitor!Blank /\ LastAt(q, 1)
  <2>1. LastAt(r, 0)
    BY <1>4, <1>11
  <2>2. DataAt(r, 0, [encoding |-> "chunked", size |-> 0])
    BY <2>1 DEF DataAt
  <2>3. 0 \in 0..MaxBody
    BY MonitorFacts
  <2>4. ASSUME NEW l PROVE DataIs(r, e, l, "header", k)
    BY <1>11, <2>2, <2>3 DEF DataIs
  <2>5. QED
    BY <1>3, <1>11, <2>4
<1>12. CASE /\ e = "chunked" /\ c = "trailer" /\ k = 0
            /\ Len(q) = 1 /\ q[1] = Monitor!Blank
  <2>1. Len(r) = 0
    <3>1. \A x \in Nat : x + 1 = 1 => x = 0
      OBVIOUS
    <3>2. QED
      BY <1>1, <1>12, <3>1
  <2>2. QED
    BY <1>3, <1>5, <1>12, <2>1
<1>13. QED
  BY <1>8, <1>9, <1>10, <1>11, <1>12 DEF DataIs

\* Data as the variables have it once the headers are read.
LEMMA DataBegins ==
  ASSUME NEW q \in Seq(HttpLines), NEW b \in AnyBody, DataAt(q, 0, b), NEW c, NEW k
  PROVE  /\ b.encoding = "none" => q = << >>
         /\ b.encoding = "length" =>
              IF b.size = 0 THEN q = << >> ELSE DataIs(q, "length", b.size, c, k)
         /\ b.encoding = "chunked" => \A n : DataIs(q, "chunked", n, "header", k)
<1>1. Len(q) = 0 => q = << >>
  BY EmptySeq
<1>2. b.size \in 0..MaxBody /\ b.size \in Nat
  BY MonitorFacts
<1>3. b.encoding = "chunked" => b = [encoding |-> "chunked", size |-> b.size]
  BY DEF AnyBody, Monitor!Bodies, Monitor!NoBody
<1>4. CASE b.encoding = "none"
  BY <1>1, <1>4 DEF DataAt
<1>5. CASE b.encoding = "length"
  <2>1. Len(q) = b.size /\ UnitsAt(q, 0, b.size)
    BY <1>2, <1>5 DEF DataAt
  <2>2. b.size # 0 => b.size > 0
    BY <1>2
  <2>3. QED
    BY <1>1, <1>5, <2>1, <2>2 DEF DataIs
<1>6. CASE b.encoding = "chunked"
  <2>1. \E m \in 0..MaxBody : DataAt(q, 0, [encoding |-> "chunked", size |-> m])
    BY <1>2, <1>3, <1>6
  <2>2. ASSUME NEW n PROVE DataIs(q, "chunked", n, "header", k)
    BY <2>1 DEF DataIs
  <2>3. QED
    BY <1>6, <2>2
<1>7. QED
  BY <1>4, <1>5, <1>6, MonitorFacts

\* The line that a piece ends is the line that it is part of.
LEMMA LineSeen ==
  ASSUME NEW s, NEW l, PieceOf(s, l), Monitor!EndsLine
  PROVE  Monitor!TheLine = l /\ input.from = s /\ input.line = l /\ l # Monitor!Unit
<1>1. input.from = s /\ input.line = l /\ input.part \in {"whole", "end"}
  BY DEF PieceOf, Begins, Monitor!EndsLine
<1>2. CASE input.part = "whole"
  <2>1. host_buffer = << >> /\ l # Monitor!Unit
    BY <1>2 DEF PieceOf, Begins
  <2>2. PICK p : p = Append(host_buffer, input)
    OBVIOUS
  <2>3. p = <<input>>
    BY <2>1, <2>2
  <2>4. DOMAIN p = {1} /\ p[1] = input
    BY <2>3
  <2>5. Monitor!Pieces = p
    BY <2>2 DEF Monitor!Pieces
  <2>6. Monitor!Text = IF l = Monitor!Blank THEN {} ELSE {1}
    BY <1>1, <2>4, <2>5 DEF Monitor!Text
  <2>7. l # Monitor!Blank => Monitor!First = 1
    BY <2>6 DEF Monitor!First
  <2>8. QED
    BY <1>1, <1>2, <2>1, <2>4, <2>5, <2>6, <2>7 DEF Monitor!TheLine
<1>3. CASE input.part = "end"
  <2>1. /\ input = [from |-> s, line |-> l, part |-> "end"]
        /\ host_buffer = <<Begins(s, l)>> /\ l # Monitor!Unit
    BY <1>3 DEF PieceOf, Begins
  <2>2. PICK p : p = Append(host_buffer, input)
    OBVIOUS
  <2>3. PICK g : g = Begins(s, l)
    OBVIOUS
  <2>4. PICK h \in Seq({g, input}) : h = <<g>> /\ Len(h) = 1 /\ h[1] = g
    <3>1. g \in {g, input} => <<g>> \in Seq({g, input}) /\ Len(<<g>>) = 1 /\ <<g>>[1] = g
      OBVIOUS
    <3>2. QED
      BY <3>1
  <2>5. DOMAIN p = {1, 2} /\ p[1] = g /\ p[2] = input
    <3>1. host_buffer = h
      BY <2>1, <2>3, <2>4
    <3>2. p = Append(h, input)
      BY <2>2, <3>1
    <3>3. /\ p \in Seq({g, input}) /\ Len(p) = Len(h) + 1
          /\ \A i \in 1..Len(h) : p[i] = h[i]
          /\ p[Len(h) + 1] = input
      BY <3>2, AppendProperties
    <3>4. p \in Seq({g, input}) /\ Len(p) = 2 /\ p[1] = g /\ p[2] = input
      BY <2>4, <3>3
    <3>5. DOMAIN p = 1..2
      BY <3>4, LenProperties
    <3>6. QED
      BY <3>4, <3>5
  <2>6. g.line = l /\ g.part = "begin" /\ input = [g EXCEPT !.part = "end"]
    BY <2>1, <2>3 DEF Begins
  <2>7. Monitor!Pieces = p
    BY <2>2 DEF Monitor!Pieces
  <2>8. Monitor!Text = IF l = Monitor!Blank THEN {} ELSE {1, 2}
    BY <1>1, <2>5, <2>6, <2>7 DEF Monitor!Text
  <2>9. l # Monitor!Blank => Monitor!First = 1
    <3>1. ASSUME l # Monitor!Blank PROVE (CHOOSE i \in {1, 2} : \A k \in {1, 2} : i <= k) = 1
      OBVIOUS
    <3>2. QED
      BY <2>8, <3>1 DEF Monitor!First
  <2>10. QED
    BY <1>1, <2>1, <2>5, <2>6, <2>7, <2>8, <2>9 DEF Monitor!TheLine
<1>4. QED
  BY <1>1, <1>2, <1>3

\* The other parts leave the connection as it is.
LEMMA SameMonitor ==
  ASSUME MonitorInv, UNCHANGED httpVars
  PROVE  MonitorInv'
<1>1. /\ UNCHANGED <<state, phase, status, encoding, length, remaining, chunk>>
      /\ UNCHANGED <<host_buffer, input, host, device, begun, requests, unusual>>
  BY DEF httpVars
<1>2. MonitorTypes => MonitorTypes'
  BY <1>1 DEF MonitorTypes, Monitor!TypeOK
<1>3. PiecesOK => PiecesOK'
  BY <1>1 DEF PiecesOK, BetweenPieces, PieceOf, Script, OnlyBegun, NoneBegun, Begins
<1>4. DeviceWaits => DeviceWaits'
  BY <1>1 DEF DeviceWaits
<1>5. ASSUME NEW h, NEW d, Turns(h, d)
      PROVE  Turns(h, d)'
  BY <1>1, <1>5
  DEF Turns, AtRest, AtRequestLine, AtRequestHeaders, AtRequestData, AtAnswer,
      AtAnswerHeaders, AtAnswerData, HeadersLeft, BodySet, NotSet, DataLeft
<1>6. ToCome("host")' = ToCome("host") /\ ToCome("device")' = ToCome("device")
  BY <1>1 DEF ToCome, Script
<1>7. QED
  BY <1>1, <1>2, <1>3, <1>4, <1>5, <1>6 DEF MonitorInv

\* The types that the steps need.
LEMMA MonitorNumbers ==
  ASSUME MonitorTypes
  PROVE  /\ length \in 0..MaxBody /\ remaining \in 0..MaxBody
         /\ length \in Nat /\ remaining \in Nat
         /\ requests \in 0..MaxRequests /\ requests \in Nat
         /\ state \in Monitor!Methods \cup {"waiting"}
         /\ encoding \in {"length", "chunked"} /\ chunk \in {"header", "data", "trailer"}
<1>1. Monitor!TypeOK
  BY DEF MonitorTypes
<1>2. /\ length \in 0..MaxBody /\ remaining \in 0..MaxBody
      /\ requests \in 0..MaxRequests /\ state \in Monitor!Methods \cup {"waiting"}
      /\ encoding \in {"length", "chunked"} /\ chunk \in {"header", "data", "trailer"}
  BY <1>1 DEF Monitor!TypeOK
<1>3. QED
  BY <1>2, MonitorFacts

\* A script that something is left of is not empty.
LEMMA NotEmpty ==
  ASSUME NEW q
  PROVE  /\ DataLeft(q) /\ MonitorTypes => Len(q) > 0 /\ Len(q) # 0
         /\ \A m : AnswerLeft(q, m) => Len(q) > 0 /\ Len(q) # 0
         /\ \A b, d \in AnyBody : HeadersLeft(q, b, d) => Len(q) > 0 /\ Len(q) # 0
<1>1. ASSUME DataLeft(q), MonitorTypes
      PROVE  Len(q) > 0 /\ Len(q) # 0
  <2>1. remaining \in Nat
    BY <1>1, MonitorNumbers
  <2>2. ASSUME NEW m \in 0..MaxBody, DataAt(q, 0, [encoding |-> "chunked", size |-> m])
        PROVE  Len(q) > 0 /\ Len(q) # 0
    <3>1. m \in Nat
      BY MonitorFacts
    <3>2. CASE m = 0
      BY <2>2, <3>2 DEF DataAt, LastAt
    <3>3. CASE m > 0
      BY <2>2, <3>1, <3>3 DEF DataAt
    <3>4. QED
      BY <3>1, <3>2, <3>3
  <2>3. \/ remaining > 0 /\ (Len(q) = remaining \/ Len(q) = remaining + 3)
        \/ Len(q) = 3 \/ Len(q) = 1
        \/ \E m \in 0..MaxBody : DataAt(q, 0, [encoding |-> "chunked", size |-> m])
    BY <1>1 DEF DataLeft, DataIs
  <2>4. remaining > 0 /\ (Len(q) = remaining \/ Len(q) = remaining + 3) =>
          Len(q) > 0 /\ Len(q) # 0
    BY <2>1
  <2>5. Len(q) = 3 \/ Len(q) = 1 => Len(q) > 0 /\ Len(q) # 0
    OBVIOUS
  <2>6. QED
    BY <2>2, <2>3, <2>4, <2>5
<1>2. ASSUME NEW m, AnswerLeft(q, m)
      PROVE  Len(q) > 0 /\ Len(q) # 0
  BY <1>2 DEF AnswerLeft, AnswerAt
<1>3. ASSUME NEW b \in AnyBody, NEW d \in AnyBody, HeadersLeft(q, b, d)
      PROVE  Len(q) > 0 /\ Len(q) # 0
  BY <1>3, MonitorFacts DEF HeadersLeft, HeadersAt
<1>4. QED
  BY <1>1, <1>2, <1>3

\* Whose turn it is, by who has something to send.
LEMMA WhoseTurn ==
  ASSUME MonitorTypes, NEW h \in Seq(HttpLines), NEW d \in Seq(HttpLines), Turns(h, d)
  PROVE  /\ h = << >> /\ d = << >> => AtRest(h, d)
         /\ h = << >> /\ d # << >> => AtAnswer(h, d) \/ AtAnswerHeaders(h, d) \/ AtAnswerData(h, d)
         /\ h # << >> =>
              /\ AtRequestLine(h, d) \/ AtRequestHeaders(h, d) \/ AtRequestData(h, d)
              /\ d # << >>
<1>1. /\ Len(h) = 0 <=> h = << >>
      /\ Len(d) = 0 <=> d = << >>
  BY EmptySeq
<1>2. AtRest(h, d) => Len(h) = 0 /\ Len(d) = 0
  BY <1>1 DEF AtRest
<1>3. AtRequestLine(h, d) => Len(h) # 0 /\ Len(d) # 0
  <2>1. Len(h) > 1 => Len(h) # 0
    OBVIOUS
  <2>2. QED
    BY <2>1, NotEmpty DEF AtRequestLine
<1>4. AtRequestHeaders(h, d) => Len(h) # 0 /\ Len(d) # 0
  <2>1. Len(h) > 0 => Len(h) # 0
    OBVIOUS
  <2>2. QED
    BY <2>1, NotEmpty DEF AtRequestHeaders
<1>5. AtRequestData(h, d) => Len(h) # 0 /\ Len(d) # 0
  BY NotEmpty DEF AtRequestData
<1>6. AtAnswer(h, d) => Len(h) = 0 /\ Len(d) # 0
  BY <1>1, NotEmpty DEF AtAnswer
<1>7. AtAnswerHeaders(h, d) => Len(h) = 0 /\ Len(d) # 0
  <2>1. \A b \in AnyBody : Carries(state, b) \in AnyBody
    BY DEF Carries, AnyBody
  <2>2. QED
    BY <1>1, <2>1, NotEmpty DEF AtAnswerHeaders
<1>8. AtAnswerData(h, d) => Len(h) = 0 /\ Len(d) # 0
  BY <1>1, NotEmpty DEF AtAnswerData
<1>9. QED
  BY <1>1, <1>2, <1>3, <1>4, <1>5, <1>6, <1>7, <1>8 DEF Turns

\* The next request.
LEMMA RequestStep ==
  ASSUME MonitorInv, Monitor!NewRequest, ~unusual'
  PROVE  MonitorInv'
<1>1. PICK m \in Monitor!Methods, b \in Monitor!Bodies,
           r \in Monitor!Bodies \cup {Monitor!NoBody}, code \in {"ok", "fail"},
           early \in {<< >>, Monitor!Continue} :
        /\ host' = Monitor!Request(m, IF m = "POST" THEN b ELSE Monitor!NoBody)
        /\ device' = early \o Monitor!Response(m, code, r)
        /\ unusual' = (unusual \/ (m = "POST" /\ Monitor!Data(b) = << >>))
  BY DEF Monitor!NewRequest
<1>2. /\ host = << >> /\ device = << >> /\ input = Monitor!None
      /\ requests < MaxRequests /\ requests' = requests + 1
      /\ UNCHANGED <<state, phase, status, encoding, length, remaining, chunk>>
      /\ UNCHANGED <<host_buffer, input, begun>>
  BY DEF Monitor!NewRequest, Monitor!Idle, Monitor!monitorVars, Monitor!bodyVars
<1>3. ~unusual /\ unusual' = FALSE /\ ~(m = "POST" /\ Monitor!Data(b) = << >>)
  BY <1>1 DEF MonitorInv
<1>4. MonitorTypes /\ status # "error" /\ PiecesOK
  BY <1>3 DEF MonitorInv
<1>5. PICK c \in AnyBody : c = IF m = "POST" THEN b ELSE Monitor!NoBody
  BY DEF AnyBody
<1>6. /\ host' \in Seq(HttpLines) /\ Len(host') > 2
      /\ host'[1] = Monitor!Line("request", m) /\ host'[2] = Monitor!Line("header", 0)
      /\ HeadersAt(host', 2, c, c)
  <2>1. host' = Monitor!Request(m, c)
    BY <1>1, <1>5
  <2>2. QED
    BY <2>1, RequestBuilt
<1>7. device' \in Seq(HttpLines) /\ AnswerLeft(device', m)
  <2>1. r \in AnyBody
    BY DEF AnyBody
  <2>2. \A e \in {<< >>, Monitor!Continue} :
           \A w : w = e \o Monitor!Response(m, code, r) =>
             w \in Seq(HttpLines) /\ AnswerLeft(w, m)
    BY <2>1, ResponseBuilt
  <2>3. QED
    BY <1>1, <2>2
<1>8. RequestBody(m, c)
  <2>1. ASSUME m = "POST", b.encoding = "length"
        PROVE  b.size > 0
    <3>1. b \in AnyBody /\ b.size \in Nat
      BY MonitorFacts DEF AnyBody
    <3>2. Monitor!Data(b) = Monitor!Units(b.size)
      BY <2>1 DEF Monitor!Data
    <3>3. ASSUME b.size = 0 PROVE FALSE
      <4>1. Monitor!Units(0) = << >>
        BY DEF Monitor!Units
      <4>2. QED
        BY <1>3, <2>1, <3>2, <3>3, <4>1
    <3>4. QED
      BY <3>1, <3>3
  <2>2. QED
    BY <1>5, <2>1 DEF RequestBody
<1>9. state = "waiting" /\ phase = "client headers"
  <2>1. ToCome("host") = << >> /\ ToCome("device") = << >>
    BY <1>2 DEF ToCome, Script
  <2>2. Turns(<< >>, << >>) /\ << >> \in Seq(HttpLines)
    BY <1>3, <2>1, EmptySeq DEF MonitorInv
  <2>3. AtRest(<< >>, << >>)
    BY <1>4, <2>2, WhoseTurn
  <2>4. QED
    BY <2>3 DEF AtRest
<1>10. MonitorTypes'
  <2>1. requests' \in 0..MaxRequests
    BY <1>2, <1>4, MonitorFacts, MonitorNumbers
  <2>2. QED
    BY <1>2, <1>3, <1>4, <1>6, <1>7, <2>1 DEF MonitorTypes, Monitor!TypeOK
<1>11. PiecesOK'
  <2>1. host_buffer = << >> /\ NoneBegun
    BY <1>2, <1>4 DEF PiecesOK, BetweenPieces, Script
  <2>2. QED
    BY <1>2, <2>1 DEF PiecesOK, BetweenPieces, NoneBegun
<1>12. DeviceWaits'
  BY <1>2 DEF DeviceWaits
<1>13. ToCome("host")' = host' /\ ToCome("device")' = device'
  BY <1>2 DEF ToCome, Script
<1>14. PICK h, d : h = host' /\ d = device'
  OBVIOUS
<1>15. Turns(h, d)'
  <2>1. Len(h) > 2 => Len(h) > 1
    BY <1>6, <1>14, LenProperties
  <2>2. state' = "waiting" /\ phase' = "client headers"
    BY <1>2, <1>9
  <2>3. /\ RequestBody(m, c) /\ AnswerLeft(d, m)
        /\ Len(h) > 1 /\ h[1] = Monitor!Line("request", m)
        /\ h[2] = Monitor!Line("header", 0) /\ HeadersAt(h, 2, c, c)
    BY <1>6, <1>7, <1>8, <1>14, <2>1
  <2>4. QED
    BY <2>2, <2>3 DEF Turns, AtRequestLine
<1>16. QED
  BY <1>2, <1>3, <1>4, <1>6, <1>7, <1>10, <1>11, <1>12, <1>13, <1>14, <1>15 DEF MonitorInv

\* A side sends the next piece of its script.
LEMMA PieceSent ==
  ASSUME MonitorInv, ~unusual, unusual' = FALSE, DeviceWaits',
         NEW s \in Sides, NEW t \in Sides, t # s, NEW l, NEW p,
         input = Monitor!None, Script(s) # << >>, l = Script(s)[1],
         p \in IF begun[s] THEN {"end"}
               ELSE IF l = Monitor!Unit THEN {"unit"} ELSE {"whole", "begin"},
         input' = [from |-> s, line |-> l, part |-> p],
         begun' = [begun EXCEPT ![s] = (p = "begin")], ~begun[t],
         Script(s)' = IF p = "begin" THEN Script(s) ELSE Tail(Script(s)),
         Script(t)' = Script(t),
         UNCHANGED <<state, phase, status, encoding, length, remaining, chunk>>,
         UNCHANGED <<host_buffer, requests>>
  PROVE  MonitorInv'
<1>1. MonitorTypes /\ status # "error" /\ PiecesOK
  BY DEF MonitorInv
<1>2. PICK h, d \in Seq(HttpLines) :
        h = ToCome("host") /\ d = ToCome("device") /\ Turns(h, d)
  BY DEF MonitorInv
<1>3. PICK q : q = Script(s)
  OBVIOUS
<1>4. q \in Seq(HttpLines) /\ Script(t) \in Seq(HttpLines) /\ q # << >> /\ l = q[1]
  BY <1>1, <1>3 DEF MonitorTypes, Script
<1>5. /\ l \in HttpLines /\ Tail(q) \in Seq(HttpLines)
      /\ <<l>> \o Tail(q) = q
  BY <1>4, FirstAndRest
<1>6. Script(s)' \in Seq(HttpLines) /\ Script(t)' \in Seq(HttpLines)
  BY <1>3, <1>4, <1>5
<1>7. ToCome(s)' = ToCome(s) /\ ToCome(t)' = ToCome(t)
  <2>1. ToCome(s) = q /\ ToCome(t) = Script(t)
    BY <1>3 DEF ToCome
  <2>2. input' # Monitor!None /\ input'.from = s /\ input'.part = p /\ input'.line = l
    BY DEF Monitor!None
  <2>3. ToCome(t)' = Script(t)'
    BY <2>2 DEF ToCome
  <2>4. ToCome(s)' = q
    BY <1>3, <1>5, <2>2 DEF ToCome
  <2>5. QED
    BY <2>1, <2>3, <2>4
<1>8. ToCome("host")' = h /\ ToCome("device")' = d
  <2>1. (s = "host" /\ t = "device") \/ (s = "device" /\ t = "host")
    BY DEF Sides
  <2>2. QED
    BY <1>2, <1>7, <2>1
<1>9. Turns(h, d)'
  BY <1>2
  DEF Turns, AtRest, AtRequestLine, AtRequestHeaders, AtRequestData, AtAnswer,
      AtAnswerHeaders, AtAnswerData, HeadersLeft, BodySet, NotSet, DataLeft
<1>10. p \in {"whole", "begin", "end", "unit"}
  OBVIOUS
<1>11. MonitorTypes'
  <2>1. Monitor!TypeOK'
    BY <1>1 DEF MonitorTypes, Monitor!TypeOK
  <2>2. host' \in Seq(HttpLines) /\ device' \in Seq(HttpLines)
    BY <1>6 DEF Script, Sides
  <2>3. input' \in HttpPieces
    BY <1>5, <1>10 DEF HttpPieces
  <2>4. begun' \in [Sides -> BOOLEAN]
    BY <1>1 DEF MonitorTypes
  <2>5. QED
    BY <1>1, <2>1, <2>2, <2>3, <2>4 DEF MonitorTypes
<1>12. BetweenPieces
  BY <1>1 DEF PiecesOK
<1>13. begun \in [Sides -> BOOLEAN]
  BY <1>1 DEF MonitorTypes
<1>14. input' # Monitor!None
  BY DEF Monitor!None
<1>15. CASE host_buffer = << >> /\ NoneBegun
  <2>1. ~begun[s]
    BY <1>15 DEF NoneBegun
  <2>2. ASSUME p = "begin" PROVE PiecesOK'
    <3>1. l # Monitor!Unit
      BY <2>1, <2>2
    <3>2. begun' = [r \in Sides |-> r = s]
      BY <1>13, <1>15, <2>2 DEF NoneBegun
    <3>3. Script(s)' # << >> /\ Script(s)'[1] = l
      BY <1>3, <1>4, <2>2
    <3>4. PieceOf(s, l)'
      BY <1>15, <2>2, <3>1, <3>2, <3>3 DEF PieceOf, Begins, OnlyBegun
    <3>5. QED
      BY <1>5, <1>14, <3>4 DEF PiecesOK
  <2>3. ASSUME p # "begin" PROVE PiecesOK'
    <3>1. begun' = [r \in Sides |-> FALSE]
      BY <1>13, <1>15, <2>3 DEF NoneBegun
    <3>2. \/ p = "unit" /\ l = Monitor!Unit
          \/ p = "whole" /\ l # Monitor!Unit
      BY <2>1, <2>3
    <3>3. PieceOf(s, l)'
      BY <1>15, <3>1, <3>2 DEF PieceOf, NoneBegun
    <3>4. QED
      BY <1>5, <1>14, <3>3 DEF PiecesOK
  <2>4. PiecesOK'
    BY <2>2, <2>3
  <2>5. QED
    BY <1>2, <1>1, <1>8, <1>9, <1>11, <2>4 DEF MonitorInv
<1>16. CASE ~(host_buffer = << >> /\ NoneBegun)
  <2>1. PICK r \in Sides :
          /\ OnlyBegun(r) /\ Script(r) # << >> /\ Script(r)[1] # Monitor!Unit
          /\ host_buffer = <<Begins(r, Script(r)[1])>>
    BY <1>12, <1>16 DEF BetweenPieces
  <2>2. r = s
    BY <2>1 DEF OnlyBegun, Sides
  <2>3. begun[s] /\ p = "end" /\ l # Monitor!Unit /\ host_buffer = <<Begins(s, l)>>
    BY <2>1, <2>2 DEF OnlyBegun
  <2>4. begun' = [u \in Sides |-> FALSE]
    BY <1>13, <2>1, <2>2, <2>3 DEF OnlyBegun
  <2>5. PieceOf(s, l)'
    BY <2>3, <2>4 DEF PieceOf, NoneBegun, Begins
  <2>6. PiecesOK'
    BY <1>5, <1>14, <2>5 DEF PiecesOK
  <2>7. QED
    BY <1>2, <1>1, <1>8, <1>9, <1>11, <2>6 DEF MonitorInv
<1>17. QED
  BY <1>15, <1>16

\* Nothing but a part of its data is left of a request of which the headers have
\* been sent.
LEMMA HeadersGone ==
  ASSUME NEW h \in Seq(HttpLines), NEW d, h = host, Turns(h, d), h # << >>,
         Monitor!HeadersSent
  PROVE  AtRequestData(h, d) \/ AtAnswer(h, d) \/ AtAnswerHeaders(h, d) \/ AtAnswerData(h, d)
<1>1. Len(h) # 0 /\ Len(h) \in Nat /\ 1 \in DOMAIN h
  BY EmptySeq, LenProperties
<1>2. h[1].kind \in {"body", "chunk", "blank"} /\ h[1] # Monitor!Blank
  BY <1>1 DEF Monitor!HeadersSent
<1>3. ~AtRest(h, d)
  BY DEF AtRest
<1>4. \A v : h[1] # Monitor!Line("request", v) /\ h[1] # Monitor!Line("header", v)
            /\ h[1] # Monitor!Line("content-length", v) /\ h[1] # Monitor!Line("chunked", v)
  BY <1>2 DEF Monitor!Line
<1>5. ~AtRequestLine(h, d)
  BY <1>4 DEF AtRequestLine
<1>6. ASSUME NEW b \in AnyBody PROVE ~HeadersAt(h, 0, b, b)
  <2>1. 0 + 1 = 1
    OBVIOUS
  <2>2. QED
    BY <1>2, <1>4, <2>1, MonitorFacts DEF HeadersAt
<1>7. ~AtRequestHeaders(h, d)
  BY <1>2, <1>4, <1>6 DEF AtRequestHeaders, HeadersLeft
<1>8. QED
  BY <1>3, <1>5, <1>7 DEF Turns

\* What the device may send while the host sends its data.
LEMMA MayContinue ==
  ASSUME NEW d, NEW m, AnswerLeft(d, m), d[1] # Monitor!Line("status", "ok"),
         d[1] # Monitor!Line("status", "fail")
  PROVE  d[1] \in {Continues, Monitor!Blank}
  BY DEF AnswerLeft, AnswerAt

\* What the two sides send.
LEMMA SendStep ==
  ASSUME MonitorInv, Monitor!HostSends \/ Monitor!DeviceSends, ~unusual'
  PROVE  MonitorInv'
<1>1. CASE Monitor!HostSends
  <2>1. Monitor!Send("host", host, FALSE) /\ host' = Monitor!Rest(host) /\ device' = device
    BY <1>1 DEF Monitor!HostSends
  <2>2. PICK l, p :
          /\ l = host[1]
          /\ p \in IF begun["host"] THEN {"end"}
                   ELSE IF l = Monitor!Unit THEN {"unit"} ELSE {"whole", "begin"}
          /\ input' = [from |-> "host", line |-> l, part |-> p]
          /\ begun' = [begun EXCEPT !["host"] = (p = "begin")]
          /\ unusual' = (unusual \/ FALSE \/ \E r \in DOMAIN begun \ {"host"} : begun[r])
    BY <2>1 DEF Monitor!Send
  <2>3. /\ input = Monitor!None /\ host # << >>
        /\ UNCHANGED <<state, phase, status, encoding, length, remaining, chunk>>
        /\ UNCHANGED <<host_buffer, requests>>
    BY <2>1 DEF Monitor!Send, Monitor!bodyVars
  <2>4. ~unusual /\ unusual' = FALSE /\ ~\E r \in DOMAIN begun \ {"host"} : begun[r]
    BY <2>2 DEF MonitorInv
  <2>5. DOMAIN begun = Sides
    BY <2>4 DEF MonitorInv, MonitorTypes
  <2>6. ~begun["device"]
    BY <2>4, <2>5 DEF Sides
  <2>7. host' = IF p = "begin" THEN host ELSE Tail(host)
    BY <2>1, <2>2 DEF Monitor!Rest
  <2>8. DeviceWaits'
    BY <2>2 DEF DeviceWaits
  <2>9. "host" \in Sides /\ "device" \in Sides /\ "device" # "host"
    BY DEF Sides
  <2>10. /\ Script("host") = host /\ Script("device") = device
         /\ Script("host")' = host' /\ Script("device")' = device'
    BY DEF Script
  <2>11. QED
    BY <2>1, <2>2, <2>3, <2>4, <2>6, <2>7, <2>8, <2>9, <2>10, PieceSent
<1>2. CASE Monitor!DeviceSends
  <2>1. /\ Monitor!Send("device", device,
             host # << >> /\ device # << >> /\ device[1] = Monitor!Line("status", "fail"))
        /\ device' = Monitor!Rest(device) /\ host' = host
        /\ host = << >> \/ (Monitor!HeadersSent /\ device[1] # Monitor!Line("status", "ok"))
    BY <1>2 DEF Monitor!DeviceSends
  <2>2. PICK l, p :
          /\ l = device[1]
          /\ p \in IF begun["device"] THEN {"end"}
                   ELSE IF l = Monitor!Unit THEN {"unit"} ELSE {"whole", "begin"}
          /\ input' = [from |-> "device", line |-> l, part |-> p]
          /\ begun' = [begun EXCEPT !["device"] = (p = "begin")]
          /\ unusual' = (unusual
               \/ (host # << >> /\ device # << >> /\ device[1] = Monitor!Line("status", "fail"))
               \/ \E r \in DOMAIN begun \ {"device"} : begun[r])
    BY <2>1 DEF Monitor!Send
  <2>3. /\ input = Monitor!None /\ device # << >>
        /\ UNCHANGED <<state, phase, status, encoding, length, remaining, chunk>>
        /\ UNCHANGED <<host_buffer, requests>>
    BY <2>1 DEF Monitor!Send, Monitor!bodyVars
  <2>4. /\ ~unusual /\ unusual' = FALSE /\ ~\E r \in DOMAIN begun \ {"device"} : begun[r]
        /\ ~(host # << >> /\ device # << >> /\ device[1] = Monitor!Line("status", "fail"))
    BY <2>2 DEF MonitorInv
  <2>5. DOMAIN begun = Sides
    BY <2>4 DEF MonitorInv, MonitorTypes
  <2>6. ~begun["host"]
    BY <2>4, <2>5 DEF Sides
  <2>7. device' = IF p = "begin" THEN device ELSE Tail(device)
    BY <2>1, <2>2 DEF Monitor!Rest
  <2>8. DeviceWaits'
    <3>1. SUFFICES ASSUME host # << >>
                   PROVE  phase = "client data" /\ l \in {Continues, Monitor!Blank}
      BY <2>1, <2>2, <2>3 DEF DeviceWaits
    <3>2. PICK h, d \in Seq(HttpLines) :
            h = ToCome("host") /\ d = ToCome("device") /\ Turns(h, d)
      BY <2>4 DEF MonitorInv
    <3>3. h = host /\ d = device
      BY <2>3, <3>2 DEF ToCome, Script
    <3>4. AtRequestData(h, d)
      <4>1. AtRequestData(h, d) \/ AtAnswer(h, d) \/ AtAnswerHeaders(h, d) \/ AtAnswerData(h, d)
        BY <2>1, <3>1, <3>2, <3>3, HeadersGone
      <4>2. QED
        BY <3>1, <3>3, <4>1 DEF AtAnswer, AtAnswerHeaders, AtAnswerData
    <3>5. phase = "client data" /\ AnswerLeft(device, state)
      BY <3>3, <3>4 DEF AtRequestData
    <3>6. device[1] # Monitor!Line("status", "ok") /\ device[1] # Monitor!Line("status", "fail")
      BY <2>1, <2>3, <2>4, <3>1
    <3>7. QED
      BY <2>2, <3>5, <3>6, MayContinue
  <2>9. "host" \in Sides /\ "device" \in Sides /\ "device" # "host"
    BY DEF Sides
  <2>10. /\ Script("host") = host /\ Script("device") = device
         /\ Script("host")' = host' /\ Script("device")' = device'
    BY DEF Script
  <2>11. QED
    BY <2>1, <2>2, <2>3, <2>4, <2>6, <2>7, <2>8, <2>9, <2>10, PieceSent
<1>3. QED
  BY <1>1, <1>2

\* No line is under way when a whole one, the end of one or a unit has come.
LEMMA NoneUnderWay ==
  ASSUME NEW s, NEW l, PieceOf(s, l), input.part # "begin"
  PROVE  NoneBegun
<1>1. Begins(s, l).part = "begin"
  BY DEF Begins
<1>2. QED
  BY <1>1 DEF PieceOf

\* The buffer is empty.
LEMMA EmptyBuffer ==
  /\ << >> \in Seq([from : Sides, line : HttpLines, part : {"begin", "unit"}])
  /\ DOMAIN << >> = {}
<1>1. DOMAIN << >> = 1 .. 0
  BY EmptySeq, LenProperties
<1>2. 1 .. 0 = {}
  OBVIOUS
<1>3. << >> \in Seq([from : Sides, line : HttpLines, part : {"begin", "unit"}])
  BY EmptySeq
<1>4. QED
  BY <1>1, <1>2, <1>3

\* The beginning of a line is kept.
LEMMA PieceKept ==
  ASSUME MonitorInv, ~unusual, NEW s \in Sides, NEW l, PieceOf(s, l), l # Monitor!Unit,
         Monitor!PartKept, UNCHANGED Monitor!peerVars
  PROVE  MonitorInv'
<1>1. MonitorTypes /\ status # "error"
  BY DEF MonitorInv
<1>2. /\ input = Begins(s, l) /\ OnlyBegun(s) /\ host_buffer = << >>
      /\ Script(s) # << >> /\ Script(s)[1] = l
  BY DEF PieceOf, Monitor!PartKept, Monitor!EndsLine
<1>3. /\ host_buffer' = Append(host_buffer, input) /\ input' = Monitor!None
      /\ UNCHANGED <<state, phase, status, encoding, length, remaining, chunk>>
      /\ UNCHANGED <<host, device, begun, requests, unusual>>
  BY DEF Monitor!PartKept, Monitor!bodyVars, Monitor!peerVars
<1>4. input.part = "begin"
  BY <1>2 DEF Begins
<1>5. ToCome("host")' = ToCome("host") /\ ToCome("device")' = ToCome("device")
  BY <1>3, <1>4 DEF ToCome, Script
<1>6. ASSUME NEW h, NEW d, Turns(h, d)
      PROVE  Turns(h, d)'
  BY <1>3, <1>6
  DEF Turns, AtRest, AtRequestLine, AtRequestHeaders, AtRequestData, AtAnswer,
      AtAnswerHeaders, AtAnswerData, HeadersLeft, BodySet, NotSet, DataLeft
<1>7. PICK g : g = Begins(s, l)
  OBVIOUS
<1>8. host_buffer' = <<g>> /\ Len(<<g>>) = 1 /\ <<g>>[1] = g /\ DOMAIN <<g>> = {1}
  <2>1. Append(<< >>, g) = <<g>>
    OBVIOUS
  <2>2. host_buffer' = Append(<< >>, g)
    BY <1>2, <1>3, <1>7
  <2>3. QED
    BY <2>1, <2>2
<1>9. l \in HttpLines
  <2>1. Script(s) \in Seq(HttpLines)
    BY <1>1 DEF MonitorTypes, Script
  <2>2. QED
    BY <1>2, <2>1, FirstAndRest
<1>10. MonitorTypes'
  <2>1. g \in [from : Sides, line : HttpLines, part : {"begin", "unit"}] /\ g.part = "begin"
    BY <1>7, <1>9 DEF Begins
  <2>2. <<g>> \in Seq([from : Sides, line : HttpLines, part : {"begin", "unit"}])
    BY <2>1
  <2>3. \A i \in DOMAIN host_buffer' : host_buffer'[i].part \in {"begin", "unit"}
    BY <1>8, <2>1
  <2>4. Monitor!TypeOK'
    BY <1>1, <1>3, <2>3 DEF MonitorTypes, Monitor!TypeOK
  <2>5. QED
    BY <1>1, <1>3, <1>8, <2>2, <2>4 DEF MonitorTypes
<1>11. PiecesOK'
  <2>1. OnlyBegun(s)' /\ Script(s)' # << >> /\ Script(s)'[1] = l
    BY <1>2, <1>3 DEF OnlyBegun, Script
  <2>2. BetweenPieces'
    BY <1>3, <1>7, <1>8, <2>1 DEF BetweenPieces
  <2>3. QED
    BY <2>2 DEF PiecesOK
<1>12. DeviceWaits'
  BY <1>3 DEF DeviceWaits
<1>13. QED
  BY <1>1, <1>3, <1>5, <1>6, <1>10, <1>11, <1>12 DEF MonitorInv

\* A piece is used up: what the variables are to be then.
LEMMA PieceUsed ==
  ASSUME MonitorInv, ~unusual, NEW s \in Sides, NEW l, PieceOf(s, l), input.part # "begin",
         host_buffer' = << >>, input' = Monitor!None, UNCHANGED Monitor!peerVars,
         /\ state' \in Monitor!Methods \cup {"waiting"}
         /\ phase' \in {"client headers", "client data", "server headers", "server data"}
         /\ status' \in {"continue", "ok", "fail"}
         /\ encoding' \in {"length", "chunked"}
         /\ length' \in 0..MaxBody /\ remaining' \in 0..MaxBody
         /\ chunk' \in {"header", "data", "trailer"},
         NEW h, NEW d, h = host, d = device, Turns(h, d)'
  PROVE  MonitorInv'
<1>1. MonitorTypes
  BY DEF MonitorInv
<1>2. UNCHANGED <<host, device, begun, requests, unusual>>
  BY DEF Monitor!peerVars
<1>3. NoneBegun
  BY NoneUnderWay
<1>4. MonitorTypes'
  <2>1. << >> \in Seq([from : Sides, line : HttpLines, part : {"begin", "unit"}])
        /\ DOMAIN << >> = {}
    BY EmptyBuffer
  <2>2. Monitor!TypeOK'
    BY <1>1, <1>2, <2>1 DEF MonitorTypes, Monitor!TypeOK
  <2>3. QED
    BY <1>1, <1>2, <2>1, <2>2 DEF MonitorTypes
<1>5. PiecesOK'
  BY <1>2, <1>3 DEF PiecesOK, BetweenPieces, NoneBegun
<1>6. DeviceWaits'
  BY DEF DeviceWaits
<1>7. ToCome("host")' = h /\ ToCome("device")' = d
  BY <1>2 DEF ToCome, Script
<1>8. h \in Seq(HttpLines) /\ d \in Seq(HttpLines)
  BY <1>1 DEF MonitorTypes
<1>9. QED
  BY <1>2, <1>4, <1>5, <1>6, <1>7, <1>8 DEF MonitorInv

\* A line, or a unit of a body, comes before what its side has still to send.
LEMMA PieceBefore ==
  ASSUME MonitorInv, ~unusual, NEW s \in Sides, NEW t \in Sides, t # s,
         NEW l \in HttpLines, PieceOf(s, l), input.part # "begin"
  PROVE  /\ Rest(ToCome(s), Script(s)) /\ ToCome(s)[1] = l /\ ToCome(s) # << >>
         /\ ToCome(t) = Script(t) /\ Script(t) \in Seq(HttpLines)
<1>1. MonitorTypes
  BY DEF MonitorInv
<1>2. input # Monitor!None /\ input.from = s /\ input.line = l
  BY DEF PieceOf, Begins, Monitor!None
<1>3. ToCome(s) = <<l>> \o Script(s) /\ ToCome(t) = Script(t)
  BY <1>2 DEF ToCome
<1>4. Script(s) \in Seq(HttpLines) /\ Script(t) \in Seq(HttpLines)
  BY <1>1 DEF MonitorTypes, Script
<1>5. QED
  BY <1>3, <1>4, OneBefore DEF Rest

\* The script after the header of a body, or after the end of the headers.
LEMMA HeadersRead ==
  ASSUME NEW q, NEW r, Rest(q, r), NEW b \in AnyBody, NEW c \in AnyBody,
         HeadersLeft(q, b, c)
  PROVE  \/ /\ q[1] = Monitor!Blank
            /\ NotSet /\ b.encoding = "none" /\ DataAt(r, 0, c)
         \/ /\ q[1] = Monitor!Blank
            /\ BodySet(b) /\ DataAt(r, 0, c)
         \/ /\ q[1] = Monitor!Line("content-length", b.size) /\ b.encoding = "length"
            /\ Len(r) > 0 /\ r[1] = Monitor!Blank /\ DataAt(r, 1, c)
         \/ /\ q[1] = Monitor!Line("chunked", 0) /\ b.encoding = "chunked"
            /\ Len(r) > 0 /\ r[1] = Monitor!Blank /\ DataAt(r, 1, c)
<1>1. Len(r) \in Nat /\ Len(q) = Len(r) + 1
  BY LenProperties DEF Rest
<1>2. \A i \in 1..Len(r) : q[i + 1] = r[i]
  BY DEF Rest
<1>3. /\ DataAt(q, 0 + 1, c) => DataAt(r, 0, c)
      /\ DataAt(q, 1 + 1, c) => DataAt(r, 1, c)
  BY RestLeft
<1>4. 0 + 1 = 1 /\ 1 + 1 = 2 /\ 0 + 2 = 2
  OBVIOUS
<1>5. CASE BodySet(b) /\ Len(q) > 0 /\ q[1] = Monitor!Blank /\ DataAt(q, 1, c)
  BY <1>3, <1>4, <1>5
<1>6. CASE NotSet /\ HeadersAt(q, 0, b, c)
  <2>1. CASE b.encoding = "none"
    BY <1>3, <1>4, <1>6, <2>1 DEF HeadersAt
  <2>2. Len(q) > 1 => Len(r) > 0 /\ q[1 + 1] = r[1]
    BY <1>1, <1>2
  <2>3. CASE b.encoding = "length"
    BY <1>3, <1>4, <1>6, <2>2, <2>3 DEF HeadersAt
  <2>4. CASE b.encoding = "chunked"
    BY <1>3, <1>4, <1>6, <2>2, <2>4 DEF HeadersAt
  <2>5. QED
    BY <2>1, <2>3, <2>4, MonitorFacts
<1>7. QED
  BY <1>5, <1>6 DEF HeadersLeft

\* The lines of HTTP differ.
LEMMA LinesDiffer ==
  ASSUME NEW v
  PROVE  /\ Monitor!Line("content-length", v) # Monitor!Blank
         /\ Monitor!Line("chunked", v) # Monitor!Blank
         /\ Monitor!Line("header", v) # Monitor!Blank
         /\ Monitor!Line("status", v) # Monitor!Blank
         /\ Chunk(v) # Monitor!Blank
         /\ Monitor!Line("content-length", v).kind = "content-length"
         /\ Monitor!Line("content-length", v).value = v
         /\ Monitor!Line("chunked", v).kind = "chunked"
         /\ Monitor!Line("header", v).kind = "header"
         /\ Monitor!Line("request", v).kind = "request"
         /\ Monitor!Line("request", v).value = v
         /\ Monitor!Line("status", v).kind = "status"
         /\ Monitor!Line("status", v).value = v
         /\ Chunk(v).kind = "chunk" /\ Chunk(v).value = v
         /\ Monitor!Blank.kind = "blank" /\ Monitor!Unit.kind = "body"
         /\ Monitor!Line("mixed", v).kind = "mixed"
  BY DEF Monitor!Line, Monitor!Blank, Monitor!Unit, Chunk

\* The line of a request.
LEMMA HostRequestLine ==
  ASSUME MonitorInv, ~unusual, NEW l \in HttpLines, PieceOf("host", l),
         Monitor!EndsLine, Monitor!ProcessHostData,
         NEW q, NEW d, q = ToCome("host"), d = device, AtRequestLine(q, d)
  PROVE  MonitorInv'
<1>1. Monitor!TheLine = l /\ input.from = "host" /\ l # Monitor!Unit
  BY LineSeen
<1>2. input.part # "begin" /\ "host" \in Sides /\ "device" \in Sides
  BY DEF Monitor!EndsLine, Sides
<1>3. PICK h : h = host
  OBVIOUS
<1>4. Rest(q, h) /\ q[1] = l
  BY <1>2, <1>3, PieceBefore DEF Script
<1>5. state = "waiting" /\ phase = "client headers"
  BY DEF AtRequestLine
<1>6. PICK m \in Monitor!Methods, b \in AnyBody :
        /\ RequestBody(m, b) /\ AnswerLeft(d, m)
        /\ Len(q) > 1 /\ q[1] = Monitor!Line("request", m)
        /\ q[2] = Monitor!Line("header", 0) /\ HeadersAt(q, 2, b, b)
  BY DEF AtRequestLine
<1>7. Monitor!RequestLine /\ UNCHANGED Monitor!peerVars
  BY <1>5 DEF Monitor!ProcessHostData, Monitor!RequestHeader, Monitor!RequestData,
              Monitor!HostOutOfTurn
<1>8. l.kind = "request" /\ l.value = m
  BY <1>4, <1>6, LinesDiffer
<1>9. /\ host_buffer' = << >> /\ input' = Monitor!None
      /\ state' = m /\ status' = "continue" /\ phase' = phase
      /\ encoding' = "length" /\ length' = 0 /\ remaining' = 0 /\ chunk' = chunk
  BY <1>1, <1>7, <1>8
  DEF Monitor!RequestLine, Monitor!PartKept, Monitor!LineRead, Monitor!SetBody
<1>10. /\ Len(h) > 0 /\ h[1] = Monitor!Line("header", 0) /\ HeadersAt(h, 1, b, b)
  <2>1. Len(h) \in Nat /\ Len(q) = Len(h) + 1 /\ \A i \in 1..Len(h) : q[i + 1] = h[i]
    BY <1>4, LenProperties DEF Rest
  <2>2. Len(h) > 0 /\ 1 \in 1..Len(h) /\ 1 + 1 = 2
    BY <1>6, <2>1
  <2>3. HeadersAt(q, 1 + 1, b, b)
    BY <1>6, <2>2
  <2>4. HeadersAt(h, 1, b, b)
    BY <1>4, <2>3, RestHeaders
  <2>5. QED
    BY <1>6, <2>1, <2>2, <2>4
<1>11. AtRequestHeaders(h, d)'
  BY <1>5, <1>6, <1>9, <1>10 DEF AtRequestHeaders, NotSet
<1>12. Turns(h, d)'
  BY <1>11 DEF Turns
<1>13. chunk \in {"header", "data", "trailer"} /\ 0 \in 0..MaxBody
  BY MonitorFacts, MonitorNumbers DEF MonitorInv
<1>14. QED
  BY <1>2, <1>3, <1>5, <1>7, <1>9, <1>12, <1>13, PieceUsed

\* A header of a request, or the end of them.
LEMMA HostHeader ==
  ASSUME MonitorInv, ~unusual, NEW l \in HttpLines, PieceOf("host", l),
         Monitor!EndsLine, Monitor!ProcessHostData,
         NEW q, NEW d, q = ToCome("host"), d = device, AtRequestHeaders(q, d)
  PROVE  MonitorInv'
<1>1. Monitor!TheLine = l /\ input.from = "host" /\ l # Monitor!Unit
  BY LineSeen
<1>2. input.part # "begin" /\ "host" \in Sides /\ "device" \in Sides
  BY DEF Monitor!EndsLine, Sides
<1>3. PICK h : h = host
  OBVIOUS
<1>4. Rest(q, h) /\ q[1] = l
  BY <1>2, <1>3, PieceBefore DEF Script
<1>5. /\ state \in Monitor!Methods /\ state # "waiting"
      /\ phase = "client headers" /\ status = "continue" /\ AnswerLeft(d, state)
  BY DEF AtRequestHeaders, Monitor!Methods
<1>6. PICK b \in AnyBody :
        /\ RequestBody(state, b)
        /\ \/ HeadersLeft(q, b, b)
           \/ /\ NotSet /\ Len(q) > 0 /\ q[1] = Monitor!Line("header", 0)
              /\ HeadersAt(q, 1, b, b)
  BY DEF AtRequestHeaders
<1>7. Monitor!RequestHeader /\ UNCHANGED Monitor!peerVars
  BY <1>5 DEF Monitor!ProcessHostData, Monitor!RequestLine, Monitor!RequestData,
              Monitor!HostOutOfTurn
<1>8. /\ host_buffer' = << >> /\ input' = Monitor!None
      /\ \/ l # Monitor!Blank /\ Monitor!Header(l)
         \/ /\ l = Monitor!Blank
            /\ phase' = IF state = "POST" THEN "client data" ELSE "server headers"
            /\ UNCHANGED <<state, status, encoding, length, remaining, chunk>>
  BY <1>1, <1>7
  DEF Monitor!RequestHeader, Monitor!PartKept, Monitor!LineRead, Monitor!bodyVars
<1>9. /\ encoding \in {"length", "chunked"} /\ chunk \in {"header", "data", "trailer"}
      /\ length \in 0..MaxBody /\ remaining \in 0..MaxBody /\ 0 \in 0..MaxBody
      /\ b.size \in 0..MaxBody
  BY MonitorFacts, MonitorNumbers DEF MonitorInv
<1>10. h \in Seq(HttpLines)
  BY <1>4 DEF Rest
<1>11. CASE NotSet /\ q[1] = Monitor!Line("header", 0) /\ HeadersAt(q, 1, b, b)
  <2>1. l.kind = "header" /\ l # Monitor!Blank
    BY <1>4, <1>11, LinesDiffer
  <2>2. UNCHANGED <<state, phase, status, encoding, length, remaining, chunk>>
    BY <1>8, <2>1 DEF Monitor!Header, Monitor!bodyVars
  <2>3. HeadersAt(h, 0, b, b)
    <3>1. 0 + 1 = 1
      OBVIOUS
    <3>2. QED
      BY <1>4, <1>11, <3>1, RestHeaders
  <2>4. AtRequestHeaders(h, d)'
    BY <1>5, <1>6, <1>11, <2>2, <2>3 DEF AtRequestHeaders, HeadersLeft, NotSet
  <2>5. Turns(h, d)'
    BY <2>4 DEF Turns
  <2>6. QED
    BY <1>2, <1>3, <1>5, <1>7, <1>8, <1>9, <2>2, <2>5, PieceUsed
<1>12. CASE /\ \/ l = Monitor!Line("content-length", b.size) /\ b.encoding = "length"
               \/ l = Monitor!Line("chunked", 0) /\ b.encoding = "chunked"
            /\ Len(h) > 0 /\ h[1] = Monitor!Blank /\ DataAt(h, 1, b)
  <2>1. l # Monitor!Blank
    BY <1>12, LinesDiffer
  <2>2. Monitor!Header(l)
    BY <1>8, <2>1
  <2>3. /\ UNCHANGED <<state, phase, status>>
        /\ \/ l.kind = "chunked" /\ Monitor!SetBody("chunked", 0)
           \/ l.kind = "content-length" /\ Monitor!SetBody("length", l.value)
    BY <1>12, <2>2, LinesDiffer DEF Monitor!Header
  <2>4. /\ b.encoding = "chunked" => Monitor!SetBody("chunked", 0)
        /\ b.encoding = "length" => Monitor!SetBody("length", b.size)
    BY <1>12, <2>3, LinesDiffer
  <2>5. /\ encoding' \in {"length", "chunked"} /\ chunk' \in {"header", "data", "trailer"}
        /\ length' \in 0..MaxBody /\ remaining' \in 0..MaxBody /\ BodySet(b)'
    BY <1>9, <1>12, <2>4 DEF Monitor!SetBody, BodySet
  <2>6. AtRequestHeaders(h, d)'
    BY <1>5, <1>6, <1>12, <2>3, <2>5 DEF AtRequestHeaders, HeadersLeft
  <2>7. Turns(h, d)'
    BY <2>6 DEF Turns
  <2>8. QED
    BY <1>2, <1>3, <1>5, <1>7, <1>8, <2>3, <2>5, <2>7, PieceUsed
<1>13. CASE /\ l = Monitor!Blank /\ DataAt(h, 0, b)
            /\ (NotSet /\ b.encoding = "none") \/ BodySet(b)
  <2>1. /\ phase' = IF state = "POST" THEN "client data" ELSE "server headers"
        /\ UNCHANGED <<state, status, encoding, length, remaining, chunk>>
    BY <1>8, <1>13
  <2>2. Turns(h, d)'
    <3>1. CASE state = "POST"
      <4>1. b \in Monitor!Bodies /\ (b.encoding = "length" => b.size > 0)
        BY <1>6, <3>1 DEF RequestBody
      <4>2. b.encoding \in {"length", "chunked"}
        BY <4>1 DEF Monitor!Bodies
      <4>3. BodySet(b)
        BY <1>13, <4>2
      <4>4. DataIs(h, encoding, remaining, chunk, length)
        <5>1. CASE b.encoding = "length"
          <6>1. encoding = "length" /\ remaining = b.size /\ b.size # 0
            BY <4>1, <4>3, <5>1 DEF BodySet
          <6>2. QED
            BY <1>10, <1>13, <5>1, <6>1, DataBegins
        <5>2. CASE b.encoding = "chunked"
          <6>1. encoding = "chunked" /\ chunk = "header"
            BY <4>3, <5>2 DEF BodySet
          <6>2. QED
            BY <1>10, <1>13, <5>2, <6>1, DataBegins
        <5>3. QED
          BY <4>2, <5>1, <5>2
      <4>5. AtRequestData(h, d)'
        BY <1>5, <2>1, <3>1, <4>4 DEF AtRequestData, DataLeft
      <4>6. QED
        BY <4>5 DEF Turns
    <3>2. CASE state # "POST"
      <4>1. b.encoding = "none" /\ b.size = 0
        BY <1>6, <3>2 DEF RequestBody, Monitor!NoBody
      <4>2. NotSet
        BY <1>13, <4>1 DEF NotSet, BodySet
      <4>3. h = << >>
        BY <1>10, <1>13, <4>1, DataBegins
      <4>4. AtAnswer(h, d)'
        BY <1>5, <2>1, <3>2, <4>2, <4>3 DEF AtAnswer, NotSet
      <4>5. QED
        BY <4>4 DEF Turns
    <3>3. QED
      BY <3>1, <3>2
  <2>3. QED
    BY <1>2, <1>3, <1>5, <1>7, <1>8, <1>9, <2>1, <2>2, PieceUsed
<1>14. CASE HeadersLeft(q, b, b)
  BY <1>4, <1>12, <1>13, <1>14, HeadersRead
<1>15. QED
  BY <1>6, <1>11, <1>14

\* A line of the data of a request: the length of a chunk, or the end of one.
LEMMA HostDataLine ==
  ASSUME MonitorInv, ~unusual, NEW l \in HttpLines, PieceOf("host", l),
         Monitor!EndsLine, Monitor!ProcessHostData,
         NEW q, NEW d, q = ToCome("host"), d = device, AtRequestData(q, d)
  PROVE  MonitorInv'
<1>1. Monitor!TheLine = l /\ input.from = "host" /\ l # Monitor!Unit
  BY LineSeen
<1>2. input.part # "begin" /\ "host" \in Sides /\ "device" \in Sides
  BY DEF Monitor!EndsLine, Sides
<1>3. PICK h : h = host
  OBVIOUS
<1>4. Rest(q, h) /\ q[1] = l
  BY <1>2, <1>3, PieceBefore DEF Script
<1>5. /\ state \in Monitor!Methods /\ state = "POST" /\ phase = "client data"
      /\ status = "continue" /\ AnswerLeft(d, state)
      /\ DataIs(q, encoding, remaining, chunk, length)
  BY DEF AtRequestData, DataLeft, Monitor!Methods
<1>6. /\ encoding \in {"length", "chunked"} /\ chunk \in {"header", "data", "trailer"}
      /\ length \in 0..MaxBody /\ remaining \in 0..MaxBody /\ 0 \in 0..MaxBody
      /\ remaining \in Nat /\ length \in Nat
  BY MonitorFacts, MonitorNumbers DEF MonitorInv
<1>7. /\ encoding = "chunked" /\ chunk \in {"header", "trailer"}
      /\ chunk = "header" =>
           \E m \in 0..MaxBody :
             l = Chunk(m) /\ DataIs(h, encoding, m, IF m = 0 THEN "trailer" ELSE "data", m)
      /\ chunk = "trailer" =>
           /\ l = Monitor!Blank
           /\ length = 0 => h = << >>
           /\ length > 0 => \A v : DataIs(h, encoding, v, "header", length)
  <2>1. q[1] # Monitor!Unit /\ Rest(q, h) /\ DataIs(q, encoding, remaining, chunk, length)
    BY <1>1, <1>4, <1>5
  <2>2. remaining \in Nat /\ length \in Nat
    BY <1>6
  <2>3. /\ encoding = "chunked" /\ chunk \in {"header", "trailer"}
        /\ chunk = "header" =>
             \E m \in 0..MaxBody :
               /\ q[1] = Chunk(m)
               /\ DataIs(h, encoding, m, IF m = 0 THEN "trailer" ELSE "data", m)
        /\ chunk = "trailer" =>
             /\ q[1] = Monitor!Blank
             /\ length = 0 => h = << >>
             /\ length > 0 => \A v : DataIs(h, encoding, v, "header", length)
    BY ONLY <2>1, <2>2, DataRead
  <2>4. QED
    BY <1>4, <2>3
<1>8. Monitor!RequestData /\ UNCHANGED Monitor!peerVars
  BY <1>5 DEF Monitor!ProcessHostData, Monitor!RequestLine, Monitor!RequestHeader,
              Monitor!HostOutOfTurn
<1>9. CASE chunk = "header"
  <2>1. PICK m \in 0..MaxBody :
          l = Chunk(m) /\ DataIs(h, encoding, m, IF m = 0 THEN "trailer" ELSE "data", m)
    BY <1>7, <1>9
  <2>2. l # Monitor!Blank /\ l.kind = "chunk" /\ l.value = m
    BY <2>1, LinesDiffer
  <2>3. Monitor!ChunkHeader
    BY <1>7, <1>8, <1>9
    DEF Monitor!RequestData, Monitor!ChunkData, Monitor!ChunkTrailer, Monitor!FixedData
  <2>4. /\ host_buffer' = << >> /\ input' = Monitor!None
        /\ length' = m /\ remaining' = m /\ chunk' = IF m = 0 THEN "trailer" ELSE "data"
        /\ UNCHANGED <<state, phase, status, encoding>>
    BY <1>1, <2>2, <2>3 DEF Monitor!ChunkHeader, Monitor!PartKept, Monitor!LineRead
  <2>5. DataIs(h, encoding', remaining', chunk', length')
    BY <2>1, <2>4
  <2>6. AtRequestData(h, d)'
    BY <1>5, <2>4, <2>5 DEF AtRequestData, DataLeft
  <2>7. Turns(h, d)'
    BY <2>6 DEF Turns
  <2>8. chunk' \in {"header", "data", "trailer"}
    BY <2>4
  <2>9. QED
    BY <1>2, <1>3, <1>5, <1>6, <1>8, <2>4, <2>7, <2>8, PieceUsed
<1>10. CASE chunk = "trailer"
  <2>1. l = Monitor!Blank
    BY <1>7, <1>10
  <2>2. Monitor!ChunkTrailer(Monitor!RequestEnd /\ remaining' = 0)
    BY <1>7, <1>8, <1>10
    DEF Monitor!RequestData, Monitor!ChunkHeader, Monitor!ChunkData, Monitor!FixedData
  <2>3. /\ host_buffer' = << >> /\ input' = Monitor!None
        /\ \/ length = 0 /\ Monitor!RequestEnd /\ remaining' = 0
           \/ /\ length > 0 /\ chunk' = "header"
              /\ UNCHANGED <<state, phase, status, encoding, length, remaining>>
    BY <1>1, <2>1, <2>2 DEF Monitor!ChunkTrailer, Monitor!PartKept, Monitor!LineRead
  <2>4. CASE length = 0 /\ Monitor!RequestEnd /\ remaining' = 0
    <3>1. h = << >>
      BY <1>7, <1>10, <2>4
    <3>2. /\ phase' = "server headers" /\ status' = "continue" /\ encoding' = "length"
          /\ length' = 0 /\ state' = state /\ chunk' = chunk
      BY <2>4 DEF Monitor!RequestEnd
    <3>3. AtAnswer(h, d)'
      BY <1>5, <2>4, <3>1, <3>2 DEF AtAnswer, NotSet
    <3>4. Turns(h, d)'
      BY <3>3 DEF Turns
    <3>5. QED
      BY <1>2, <1>3, <1>5, <1>6, <1>8, <2>3, <2>4, <3>2, <3>4, PieceUsed
  <2>5. CASE /\ length > 0 /\ chunk' = "header"
             /\ UNCHANGED <<state, phase, status, encoding, length, remaining>>
    <3>1. DataIs(h, encoding', remaining', chunk', length')
      BY <1>7, <1>10, <2>5
    <3>2. AtRequestData(h, d)'
      BY <1>5, <2>5, <3>1 DEF AtRequestData, DataLeft
    <3>3. Turns(h, d)'
      BY <3>2 DEF Turns
    <3>4. QED
      BY <1>2, <1>3, <1>5, <1>6, <1>8, <2>3, <2>5, <3>3, PieceUsed
  <2>6. QED
    BY <2>3, <2>4, <2>5
<1>11. QED
  BY <1>7, <1>9, <1>10

\* A unit of the data of a request.
LEMMA HostUnit ==
  ASSUME MonitorInv, ~unusual, PieceOf("host", Monitor!Unit), input.part = "unit",
         Monitor!ProcessHostData,
         NEW q, NEW d, q = ToCome("host"), d = device, AtRequestData(q, d)
  PROVE  MonitorInv'
<1>1. host_buffer = << >> /\ Monitor!Unit \in HttpLines
  BY MonitorFacts DEF PieceOf, Begins
<1>2. input.part # "begin" /\ "host" \in Sides /\ "device" \in Sides
      /\ "host" # "device" /\ ~Monitor!EndsLine
  BY DEF Monitor!EndsLine, Sides
<1>3. PICK h : h = host
  OBVIOUS
<1>4. Rest(q, h) /\ q[1] = Monitor!Unit
  BY <1>1, <1>2, <1>3, PieceBefore DEF Script
<1>5. /\ state \in Monitor!Methods /\ state = "POST" /\ phase = "client data"
      /\ status = "continue" /\ AnswerLeft(d, state)
      /\ DataIs(q, encoding, remaining, chunk, length)
  BY DEF AtRequestData, DataLeft, Monitor!Methods
<1>6. /\ encoding \in {"length", "chunked"} /\ chunk \in {"header", "data", "trailer"}
      /\ length \in 0..MaxBody /\ remaining \in 0..MaxBody /\ 0 \in 0..MaxBody
      /\ remaining \in Nat /\ length \in Nat
  BY MonitorFacts, MonitorNumbers DEF MonitorInv
<1>7. /\ remaining > 0 /\ (encoding = "length" \/ (encoding = "chunked" /\ chunk = "data"))
      /\ encoding = "length" =>
           IF remaining - 1 = 0 THEN h = << >>
           ELSE \A v : DataIs(h, encoding, remaining - 1, v, length)
      /\ encoding = "chunked" =>
           DataIs(h, encoding, remaining - 1, IF remaining - 1 = 0 THEN "trailer" ELSE chunk,
                  length)
  BY <1>4, <1>5, <1>6, DataRead
<1>8. Monitor!RequestData /\ UNCHANGED Monitor!peerVars
  BY <1>5 DEF Monitor!ProcessHostData, Monitor!RequestLine, Monitor!RequestHeader,
              Monitor!HostOutOfTurn
<1>9. ~(remaining <= Len(host_buffer)) /\ remaining - Len(host_buffer) - 1 = remaining - 1
      /\ remaining - 1 \in 0..MaxBody
  <2>1. Len(host_buffer) = 0
    BY <1>1, EmptySeq
  <2>2. QED
    BY <1>6, <1>7, <2>1, MonitorFacts
<1>10. CASE encoding = "length"
  <2>1. Monitor!FixedData(Monitor!RequestEnd)
    BY <1>8, <1>10
    DEF Monitor!RequestData, Monitor!ChunkHeader, Monitor!ChunkData, Monitor!ChunkTrailer
  <2>2. /\ host_buffer' = << >> /\ remaining' = remaining - 1 /\ input' = Monitor!None
        /\ IF remaining' = 0 THEN Monitor!RequestEnd
           ELSE UNCHANGED <<state, phase, status, encoding, length, chunk>>
    BY <1>9, <2>1 DEF Monitor!FixedData, Monitor!Consume
  <2>3. CASE remaining' = 0
    <3>1. h = << >>
      BY <1>7, <1>10, <2>2, <2>3
    <3>2. /\ phase' = "server headers" /\ status' = "continue" /\ encoding' = "length"
          /\ length' = 0 /\ state' = state /\ chunk' = chunk
      BY <2>2, <2>3 DEF Monitor!RequestEnd
    <3>3. AtAnswer(h, d)'
      BY <1>5, <2>3, <3>1, <3>2 DEF AtAnswer, NotSet
    <3>4. Turns(h, d)'
      BY <3>3 DEF Turns
    <3>5. QED
      BY <1>2, <1>3, <1>5, <1>6, <1>8, <2>2, <2>3, <3>2, <3>4, PieceUsed
  <2>4. CASE remaining' # 0
    <3>1. UNCHANGED <<state, phase, status, encoding, length, chunk>>
      BY <2>2, <2>4
    <3>2. DataIs(h, encoding', remaining', chunk', length')
      BY <1>7, <1>10, <2>2, <2>4, <3>1
    <3>3. AtRequestData(h, d)'
      BY <1>5, <3>1, <3>2 DEF AtRequestData, DataLeft
    <3>4. Turns(h, d)'
      BY <3>3 DEF Turns
    <3>5. QED
      BY <1>2, <1>3, <1>5, <1>6, <1>8, <1>9, <2>2, <3>1, <3>4, PieceUsed
  <2>5. QED
    BY <2>3, <2>4
<1>11. CASE encoding = "chunked" /\ chunk = "data"
  <2>1. Monitor!ChunkData
    BY <1>8, <1>11
    DEF Monitor!RequestData, Monitor!ChunkHeader, Monitor!ChunkTrailer, Monitor!FixedData
  <2>2. /\ host_buffer' = << >> /\ remaining' = remaining - 1 /\ input' = Monitor!None
        /\ chunk' = IF remaining' = 0 THEN "trailer" ELSE chunk
        /\ UNCHANGED <<state, phase, status, encoding, length>>
    BY <1>9, <2>1 DEF Monitor!ChunkData, Monitor!Consume
  <2>3. DataIs(h, encoding', remaining', chunk', length')
    BY <1>7, <1>11, <2>2
  <2>4. AtRequestData(h, d)'
    BY <1>5, <2>2, <2>3 DEF AtRequestData, DataLeft
  <2>5. Turns(h, d)'
    BY <2>4 DEF Turns
  <2>6. chunk' \in {"header", "data", "trailer"}
    BY <1>6, <2>2
  <2>7. QED
    BY <1>2, <1>3, <1>5, <1>6, <1>8, <1>9, <2>2, <2>5, <2>6, PieceUsed
<1>12. QED
  BY <1>7, <1>10, <1>11

\* Whatever the host sends.
LEMMA HostSaid ==
  ASSUME MonitorInv, ~unusual, Monitor!ProcessHostData
  PROVE  MonitorInv'
<1>1. MonitorTypes /\ PiecesOK /\ input.from = "host" /\ input # Monitor!None
  BY DEF MonitorInv, Monitor!ProcessHostData, Monitor!From, Monitor!None
<1>2. PICK s \in Sides, l \in HttpLines : PieceOf(s, l)
  BY <1>1 DEF PiecesOK, BetweenPieces
<1>3. s = "host" /\ input.line = l
  BY <1>1, <1>2 DEF PieceOf, Begins
<1>4. PICK q, d \in Seq(HttpLines) :
        q = ToCome("host") /\ d = ToCome("device") /\ Turns(q, d)
  BY DEF MonitorInv
<1>5. d = device
  BY <1>1, <1>4 DEF ToCome, Script
<1>6. q # << >> /\ q[1] = l
  <2>1. CASE input.part = "begin"
    <3>1. q = host
      BY <1>4, <2>1 DEF ToCome, Script
    <3>2. host # << >> /\ host[1] = l
      BY <1>2, <1>3, <2>1 DEF PieceOf, Begins, Script
    <3>3. QED
      BY <3>1, <3>2
  <2>2. CASE input.part # "begin"
    <3>1. "device" \in Sides /\ "device" # "host"
      BY DEF Sides
    <3>2. QED
      BY <1>2, <1>3, <1>4, <2>2, <3>1, PieceBefore
  <2>3. QED
    BY <2>1, <2>2
<1>7. AtRequestLine(q, d) \/ AtRequestHeaders(q, d) \/ AtRequestData(q, d)
  BY <1>1, <1>4, <1>6, WhoseTurn
<1>8. UNCHANGED Monitor!peerVars
  BY DEF Monitor!ProcessHostData
<1>9. CASE l = Monitor!Unit
  <2>1. input.part = "unit"
    BY <1>2, <1>9 DEF PieceOf
  <2>2. \A v : Monitor!Unit # Monitor!Line("request", v) /\ Monitor!Unit # Monitor!Line("header", v)
               /\ Monitor!Unit # Monitor!Line("content-length", v)
               /\ Monitor!Unit # Monitor!Line("chunked", v) /\ Monitor!Unit # Monitor!Blank
    BY LinesDiffer
  <2>3. ~AtRequestLine(q, d)
    BY <1>6, <1>9, <2>2 DEF AtRequestLine
  <2>4. \A b \in AnyBody : ~HeadersAt(q, 0, b, b)
    <3>1. 0 + 1 = 1
      OBVIOUS
    <3>2. QED
      BY <1>6, <1>9, <2>2, <3>1, MonitorFacts DEF HeadersAt
  <2>5. ~AtRequestHeaders(q, d)
    BY <1>6, <1>9, <2>2, <2>4 DEF AtRequestHeaders, HeadersLeft
  <2>6. QED
    BY <1>2, <1>3, <1>4, <1>5, <1>7, <1>9, <2>1, <2>3, <2>5, HostUnit
<1>10. CASE l # Monitor!Unit /\ Monitor!EndsLine
  BY <1>2, <1>3, <1>4, <1>5, <1>7, <1>10, HostRequestLine, HostHeader, HostDataLine
<1>11. CASE l # Monitor!Unit /\ ~Monitor!EndsLine
  <2>1. Monitor!PartKept
    <3>1. CASE AtRequestLine(q, d)
      BY <1>11, <3>1
      DEF AtRequestLine, Monitor!ProcessHostData, Monitor!RequestLine, Monitor!LineRead,
          Monitor!RequestHeader, Monitor!RequestData, Monitor!HostOutOfTurn
    <3>2. CASE AtRequestHeaders(q, d)
      <4>1. state # "waiting" /\ phase = "client headers"
        BY <3>2 DEF AtRequestHeaders, Monitor!Methods
      <4>2. QED
        BY <1>11, <4>1
        DEF Monitor!ProcessHostData, Monitor!RequestLine, Monitor!LineRead,
            Monitor!RequestHeader, Monitor!RequestData, Monitor!HostOutOfTurn
    <3>3. CASE AtRequestData(q, d)
      <4>1. /\ state # "waiting" /\ phase = "client data"
            /\ DataIs(q, encoding, remaining, chunk, length)
        BY <3>3 DEF AtRequestData, DataLeft
      <4>2. Monitor!RequestData
        BY <4>1 DEF Monitor!ProcessHostData, Monitor!RequestLine, Monitor!RequestHeader,
                    Monitor!HostOutOfTurn
      <4>3. encoding = "chunked" /\ chunk \in {"header", "trailer"}
        <5>1. remaining \in Nat /\ length \in Nat
          BY <1>1, MonitorNumbers
        <5>2. q \in Seq(HttpLines) /\ Tail(q) \in Seq(HttpLines) /\ <<l>> \o Tail(q) = q
          BY <1>4, <1>6, FirstAndRest
        <5>3. Rest(q, Tail(q))
          BY <5>2, OneBefore DEF Rest
        <5>4. QED
          BY <1>6, <1>11, <4>1, <5>1, <5>3, DataRead
      <4>4. QED
        BY <1>11, <4>2, <4>3
        DEF Monitor!RequestData, Monitor!ChunkHeader, Monitor!ChunkData, Monitor!ChunkTrailer,
            Monitor!FixedData, Monitor!LineRead
    <3>4. QED
      BY <1>7, <3>1, <3>2, <3>3
  <2>2. QED
    BY <1>2, <1>8, <1>11, <2>1, PieceKept
<1>12. QED
  BY <1>9, <1>10, <1>11

\* What is left of an answer after its first line.
LEMMA AnswerRead ==
  ASSUME NEW q, NEW r, Rest(q, r), NEW m \in Monitor!Methods, AnswerLeft(q, m)
  PROVE  \/ q[1] = Monitor!Blank /\ AnswerLeft(r, m)
         \/ q[1] = Continues /\ AnswerLeft(r, m)
         \/ \E b \in AnyBody, code \in {"ok", "fail"} :
              /\ q[1] = Monitor!Line("status", code)
              /\ q[1] # Monitor!Blank /\ q[1] # Continues
              /\ HeadersAt(r, 0, b, Carries(m, b))
<1>1. Len(r) \in Nat /\ Len(q) = Len(r) + 1 /\ \A i \in 1..Len(r) : q[i + 1] = r[i]
  BY LenProperties DEF Rest
<1>2. 0 + 1 = 1 /\ 1 + 1 = 2
  OBVIOUS
<1>3. CASE AnswerAt(q, 0, m)
  <2>1. PICK b \in AnyBody, code \in {"ok", "fail"} :
          q[1] = Monitor!Line("status", code) /\ HeadersAt(q, 0 + 1, b, Carries(m, b))
    BY <1>2, <1>3 DEF AnswerAt
  <2>2. Carries(m, b) \in AnyBody
    BY DEF Carries, AnyBody
  <2>3. HeadersAt(r, 0, b, Carries(m, b))
    BY <2>1, <2>2, RestHeaders
  <2>4. q[1] # Monitor!Blank /\ q[1] # Continues
    BY <2>1 DEF Continues, Monitor!Line, Monitor!Blank
  <2>5. QED
    BY <2>1, <2>3, <2>4
<1>4. CASE Len(q) > 0 /\ q[1] = Monitor!Blank /\ AnswerAt(q, 1, m)
  <2>1. AnswerAt(r, 0, m)
    BY <1>2, <1>4, RestHeaders
  <2>2. QED
    BY <1>4, <2>1 DEF AnswerLeft
<1>5. CASE /\ Len(q) > 1 /\ q[1] = Continues /\ q[2] = Monitor!Blank
           /\ AnswerAt(q, 2, m)
  <2>1. AnswerAt(q, 1 + 1, m)
    BY <1>2, <1>5
  <2>2. AnswerAt(r, 1, m)
    BY <2>1, RestHeaders
  <2>3. Len(r) > 0 /\ 1 \in 1..Len(r)
    BY <1>1, <1>5
  <2>4. r[1] = Monitor!Blank
    BY <1>1, <1>2, <1>5, <2>3
  <2>5. QED
    BY <1>5, <2>2, <2>3, <2>4 DEF AnswerLeft
<1>6. QED
  BY <1>3, <1>4, <1>5 DEF AnswerLeft

\* While the host sends its data: the device tells it to continue.
LEMMA DeviceEarly ==
  ASSUME MonitorInv, ~unusual, NEW l \in HttpLines, PieceOf("device", l),
         Monitor!EndsLine, Monitor!ProcessDeviceData, l \in {Continues, Monitor!Blank},
         NEW h, NEW q, h = host, q = ToCome("device"), AtRequestData(h, q)
  PROVE  MonitorInv'
<1>1. Monitor!TheLine = l /\ input.from = "device" /\ l # Monitor!Unit
  BY LineSeen
<1>2. input.part # "begin" /\ "host" \in Sides /\ "device" \in Sides /\ "host" # "device"
  BY DEF Monitor!EndsLine, Sides
<1>3. PICK d : d = device
  OBVIOUS
<1>4. Rest(q, d) /\ q[1] = l
  BY <1>2, <1>3, PieceBefore DEF Script
<1>5. /\ state \in Monitor!Methods /\ state # "waiting" /\ state = "POST"
      /\ phase = "client data" /\ status = "continue" /\ AnswerLeft(q, state) /\ DataLeft(h)
  BY DEF AtRequestData, Monitor!Methods
<1>6. /\ encoding \in {"length", "chunked"} /\ chunk \in {"header", "data", "trailer"}
      /\ length \in 0..MaxBody /\ remaining \in 0..MaxBody
  BY MonitorNumbers DEF MonitorInv
<1>7. Monitor!EarlyResponse /\ UNCHANGED Monitor!peerVars
  BY <1>5 DEF Monitor!ProcessDeviceData, Monitor!ResponseHeader, Monitor!ResponseData,
              Monitor!DeviceOutOfTurn
<1>8. /\ host_buffer' = << >> /\ input' = Monitor!None
      /\ UNCHANGED <<state, phase, encoding, length, remaining, chunk>> /\ status' = "continue"
  <2>1. /\ Continues # Monitor!Blank /\ Continues.kind = "status"
        /\ \A v : Continues # Monitor!Line("mixed", v)
        /\ \A v : Continues = Monitor!Line("status", v) => v = "continue"
        /\ \A v : /\ Monitor!Blank # Monitor!Line("mixed", v)
                  /\ Monitor!Blank # Monitor!Line("status", v)
    BY DEF Continues, Monitor!Line, Monitor!Blank
  <2>2. /\ Monitor!LineRead
        /\ \/ l = Monitor!Blank /\ UNCHANGED <<state, phase, status, Monitor!bodyVars>>
           \/ \E code \in {"continue", "ok", "fail"} :
                /\ \/ l = Monitor!Line("status", code)
                   \/ l = Monitor!Line("mixed", "status")
                /\ status' = IF code = "ok" THEN "error" ELSE code
                /\ phase' = IF code = "fail" THEN "server headers" ELSE phase
                /\ UNCHANGED <<state, Monitor!bodyVars>>
           \/ l # Monitor!Blank /\ l.kind # "status"
    BY <1>1, <1>7 DEF Monitor!EarlyResponse, Monitor!PartKept
  <2>3. CASE l = Monitor!Blank
    BY <1>5, <2>1, <2>2, <2>3 DEF Monitor!LineRead, Monitor!bodyVars
  <2>4. CASE l = Continues
    BY <1>5, <2>1, <2>2, <2>4 DEF Monitor!LineRead, Monitor!bodyVars
  <2>5. QED
    BY <2>3, <2>4
<1>9. AnswerLeft(d, state)
  BY <1>4, <1>5, AnswerRead
<1>10. AtRequestData(h, d)'
  BY <1>5, <1>8, <1>9 DEF AtRequestData, DataLeft
<1>11. Turns(h, d)'
  BY <1>10 DEF Turns
<1>12. QED
  BY <1>2, <1>3, <1>5, <1>6, <1>7, <1>8, <1>11, PieceUsed

\* The status of the answer, or that the host may continue.
LEMMA DeviceStatus ==
  ASSUME MonitorInv, ~unusual, NEW l \in HttpLines, PieceOf("device", l),
         Monitor!EndsLine, Monitor!ProcessDeviceData,
         NEW h, NEW q, h = host, q = ToCome("device"), AtAnswer(h, q)
  PROVE  MonitorInv'
<1>1. Monitor!TheLine = l /\ input.from = "device" /\ l # Monitor!Unit
  BY LineSeen
<1>2. input.part # "begin" /\ "host" \in Sides /\ "device" \in Sides /\ "host" # "device"
  BY DEF Monitor!EndsLine, Sides
<1>3. PICK d : d = device
  OBVIOUS
<1>4. Rest(q, d) /\ q[1] = l
  BY <1>2, <1>3, PieceBefore DEF Script
<1>5. /\ state \in Monitor!Methods /\ state # "waiting" /\ h = << >>
      /\ phase = "server headers" /\ status = "continue" /\ AnswerLeft(q, state)
      /\ encoding = "length" /\ remaining = 0
  BY DEF AtAnswer, NotSet, Monitor!Methods
<1>6. /\ encoding \in {"length", "chunked"} /\ chunk \in {"header", "data", "trailer"}
      /\ length \in 0..MaxBody /\ remaining \in 0..MaxBody
  BY MonitorNumbers DEF MonitorInv
<1>7. Monitor!ResponseHeader /\ UNCHANGED Monitor!peerVars
  BY <1>5 DEF Monitor!ProcessDeviceData, Monitor!EarlyResponse, Monitor!ResponseData,
              Monitor!DeviceOutOfTurn
<1>8. /\ host_buffer' = << >> /\ input' = Monitor!None
      /\ \/ l = Monitor!Blank /\ Monitor!ResponseBlank /\ UNCHANGED Monitor!bodyVars
         \/ /\ l.kind = "status" /\ status' = l.value
            /\ UNCHANGED <<state, phase, Monitor!bodyVars>>
         \/ l # Monitor!Blank /\ l.kind # "status"
  BY <1>1, <1>5, <1>7 DEF Monitor!ResponseHeader, Monitor!PartKept, Monitor!LineRead
<1>9. CASE l = Monitor!Blank
  <2>1. l.kind # "status"
    BY <1>9, LinesDiffer
  <2>2. UNCHANGED <<state, phase, status, encoding, length, remaining, chunk>>
    <3>1. Monitor!ResponseBlank /\ UNCHANGED Monitor!bodyVars
      BY <1>8, <1>9, <2>1
    <3>2. ~(remaining > 0) /\ encoding # "chunked"
      <4>1. remaining = 0 /\ encoding = "length"
        BY <1>5
      <4>2. QED
        BY <4>1
    <3>3. QED
      BY <1>5, <3>1, <3>2 DEF Monitor!ResponseBlank, Monitor!bodyVars
  <2>3. AnswerLeft(d, state)
    BY <1>4, <1>5, <1>9, AnswerRead
  <2>4. AtAnswer(h, d)'
    BY <1>5, <2>2, <2>3 DEF AtAnswer, NotSet
  <2>5. Turns(h, d)'
    BY <2>4 DEF Turns
  <2>6. QED
    BY <1>2, <1>3, <1>5, <1>6, <1>7, <1>8, <2>2, <2>5, PieceUsed
<1>10. CASE l = Continues
  <2>1. l.kind = "status" /\ l.value = "continue" /\ l # Monitor!Blank
    BY <1>10, LinesDiffer DEF Continues
  <2>2. status' = "continue" /\ UNCHANGED <<state, phase, encoding, length, remaining, chunk>>
    BY <1>8, <2>1 DEF Monitor!bodyVars
  <2>3. AnswerLeft(d, state)
    BY <1>4, <1>5, <1>10, AnswerRead
  <2>4. AtAnswer(h, d)'
    BY <1>5, <2>2, <2>3 DEF AtAnswer, NotSet
  <2>5. Turns(h, d)'
    BY <2>4 DEF Turns
  <2>6. QED
    BY <1>2, <1>3, <1>5, <1>6, <1>7, <1>8, <2>2, <2>5, PieceUsed
<1>11. CASE l # Monitor!Blank /\ l # Continues
  <2>1. PICK b \in AnyBody, code \in {"ok", "fail"} :
          l = Monitor!Line("status", code) /\ HeadersAt(d, 0, b, Carries(state, b))
    BY <1>4, <1>5, <1>11, AnswerRead
  <2>2. l.kind = "status" /\ l.value = code
    BY <2>1, LinesDiffer
  <2>3. status' = code /\ UNCHANGED <<state, phase, encoding, length, remaining, chunk>>
    BY <1>8, <1>11, <2>2 DEF Monitor!bodyVars
  <2>4. AtAnswerHeaders(h, d)'
    BY <1>5, <2>1, <2>3 DEF AtAnswerHeaders, HeadersLeft, NotSet
  <2>5. Turns(h, d)'
    BY <2>4 DEF Turns
  <2>6. QED
    BY <1>2, <1>3, <1>5, <1>6, <1>7, <1>8, <2>3, <2>5, PieceUsed
<1>12. QED
  BY <1>9, <1>10, <1>11

\* A header of the answer, or the end of them.
LEMMA DeviceHeader ==
  ASSUME MonitorInv, ~unusual, NEW l \in HttpLines, PieceOf("device", l),
         Monitor!EndsLine, Monitor!ProcessDeviceData,
         NEW h, NEW q, h = host, q = ToCome("device"), AtAnswerHeaders(h, q)
  PROVE  MonitorInv'
<1>1. Monitor!TheLine = l /\ input.from = "device" /\ l # Monitor!Unit
  BY LineSeen
<1>2. input.part # "begin" /\ "host" \in Sides /\ "device" \in Sides /\ "host" # "device"
  BY DEF Monitor!EndsLine, Sides
<1>3. PICK d : d = device
  OBVIOUS
<1>4. Rest(q, d) /\ q[1] = l
  BY <1>2, <1>3, PieceBefore DEF Script
<1>5. /\ state \in Monitor!Methods /\ state # "waiting" /\ h = << >>
      /\ phase = "server headers" /\ status \in {"ok", "fail"} /\ status # "continue"
  BY DEF AtAnswerHeaders, Monitor!Methods
<1>6. /\ encoding \in {"length", "chunked"} /\ chunk \in {"header", "data", "trailer"}
      /\ length \in 0..MaxBody /\ remaining \in 0..MaxBody /\ 0 \in 0..MaxBody
  BY MonitorFacts, MonitorNumbers DEF MonitorInv
<1>7. PICK b \in AnyBody : HeadersLeft(q, b, Carries(state, b))
  BY DEF AtAnswerHeaders
<1>8. PICK c \in AnyBody : c = Carries(state, b) /\ c = IF state = "HEAD" THEN Monitor!NoBody ELSE b
  BY DEF Carries, AnyBody
<1>9. Monitor!ResponseHeader /\ UNCHANGED Monitor!peerVars
  BY <1>5 DEF Monitor!ProcessDeviceData, Monitor!EarlyResponse, Monitor!ResponseData,
              Monitor!DeviceOutOfTurn
<1>10. /\ host_buffer' = << >> /\ input' = Monitor!None
       /\ \/ l = Monitor!Blank /\ Monitor!ResponseBlank /\ UNCHANGED Monitor!bodyVars
          \/ l # Monitor!Blank /\ Monitor!Header(l)
  BY <1>1, <1>5, <1>9 DEF Monitor!ResponseHeader, Monitor!PartKept, Monitor!LineRead
<1>11. d \in Seq(HttpLines) /\ b.size \in 0..MaxBody
  BY <1>4, MonitorFacts DEF Rest
<1>12. CASE /\ \/ l = Monitor!Line("content-length", b.size) /\ b.encoding = "length"
               \/ l = Monitor!Line("chunked", 0) /\ b.encoding = "chunked"
            /\ Len(d) > 0 /\ d[1] = Monitor!Blank /\ DataAt(d, 1, c)
  <2>1. l # Monitor!Blank
    BY <1>12, LinesDiffer
  <2>2. Monitor!Header(l)
    BY <1>10, <2>1
  <2>3. /\ UNCHANGED <<state, phase, status>>
        /\ \/ l.kind = "chunked" /\ Monitor!SetBody("chunked", 0)
           \/ l.kind = "content-length" /\ Monitor!SetBody("length", l.value)
    BY <1>12, <2>2, LinesDiffer DEF Monitor!Header
  <2>4. /\ b.encoding = "chunked" => Monitor!SetBody("chunked", 0)
        /\ b.encoding = "length" => Monitor!SetBody("length", b.size)
    BY <1>12, <2>3, LinesDiffer
  <2>5. /\ encoding' \in {"length", "chunked"} /\ chunk' \in {"header", "data", "trailer"}
        /\ length' \in 0..MaxBody /\ remaining' \in 0..MaxBody /\ BodySet(b)'
    BY <1>6, <1>11, <1>12, <2>4 DEF Monitor!SetBody, BodySet
  <2>6. DataAt(d, 1, Carries(state, b))
    BY <1>8, <1>12
  <2>7. AtAnswerHeaders(h, d)'
    BY <1>5, <1>12, <2>3, <2>5, <2>6 DEF AtAnswerHeaders, HeadersLeft
  <2>8. Turns(h, d)'
    BY <2>7 DEF Turns
  <2>9. QED
    BY <1>2, <1>3, <1>5, <1>9, <1>10, <2>3, <2>5, <2>8, PieceUsed
<1>13. CASE /\ l = Monitor!Blank /\ DataAt(d, 0, c)
            /\ (NotSet /\ b.encoding = "none") \/ BodySet(b)
  <2>1. Monitor!ResponseBlank /\ UNCHANGED <<encoding, length, remaining, chunk>>
    BY <1>10, <1>13 DEF Monitor!bodyVars
  <2>2. /\ encoding = IF b.encoding = "chunked" THEN "chunked" ELSE "length"
        /\ b.encoding = "chunked" => chunk = "header"
        /\ b.encoding # "chunked" => remaining = b.size
    <3>1. b.encoding = "none" => b.size = 0
      BY MonitorFacts DEF Monitor!NoBody
    <3>2. QED
      BY <1>13, <3>1 DEF NotSet, BodySet
  <2>3. b.size \in Nat
    BY MonitorFacts
  <2>4. CASE state # "HEAD" /\ (remaining > 0 \/ encoding = "chunked")
    <3>1. phase' = "server data" /\ UNCHANGED <<state, status>>
      BY <2>1, <2>4 DEF Monitor!ResponseBlank
    <3>2. c = b
      BY <1>8, <2>4
    <3>3. DataIs(d, encoding, remaining, chunk, length)
      <4>1. CASE b.encoding = "chunked"
        <5>1. \A n : DataIs(d, "chunked", n, "header", length)
          BY <1>11, <1>13, <3>2, <4>1, DataBegins
        <5>2. QED
          BY <2>2, <4>1, <5>1
      <4>2. CASE b.encoding = "length"
        <5>1. b.size # 0
          BY <2>2, <2>4, <4>2
        <5>2. DataIs(d, "length", b.size, chunk, length)
          BY <1>11, <1>13, <3>2, <4>2, <5>1, DataBegins
        <5>3. QED
          BY <2>2, <4>2, <5>2
      <4>3. CASE b.encoding = "none"
        <5>1. b.size = 0
          BY <4>3, MonitorFacts DEF Monitor!NoBody
        <5>2. QED
          BY <2>2, <2>4, <4>3, <5>1
      <4>4. QED
        BY <4>1, <4>2, <4>3, MonitorFacts
    <3>4. AtAnswerData(h, d)'
      BY <1>5, <2>1, <3>1, <3>3 DEF AtAnswerData, DataLeft
    <3>5. Turns(h, d)'
      BY <3>4 DEF Turns
    <3>6. QED
      BY <1>2, <1>3, <1>5, <1>6, <1>9, <1>10, <2>1, <3>1, <3>5, PieceUsed
  <2>5. CASE ~(state # "HEAD" /\ (remaining > 0 \/ encoding = "chunked"))
    <3>1. state' = "waiting" /\ phase' = "client headers" /\ status' = status
      BY <1>5, <2>1, <2>5 DEF Monitor!ResponseBlank, Monitor!ResponseEnd
    <3>2. d = << >>
      <4>1. CASE state = "HEAD"
        <5>1. c.encoding = "none"
          BY <1>8, <4>1 DEF Monitor!NoBody
        <5>2. QED
          BY <1>11, <1>13, <5>1, DataBegins
      <4>2. CASE state # "HEAD"
        <5>1. c = b /\ b.encoding # "chunked" /\ remaining = b.size /\ ~(remaining > 0)
          BY <1>8, <2>2, <2>5, <4>2
        <5>2. b.size = 0
          BY <2>3, <5>1
        <5>3. QED
          BY <1>11, <1>13, <5>1, <5>2, DataBegins, MonitorFacts
      <4>3. QED
        BY <4>1, <4>2
    <3>3. AtRest(h, d)'
      BY <1>5, <3>1, <3>2 DEF AtRest
    <3>4. Turns(h, d)'
      BY <3>3 DEF Turns
    <3>5. QED
      BY <1>2, <1>3, <1>5, <1>6, <1>9, <1>10, <2>1, <3>1, <3>4, PieceUsed
  <2>6. QED
    BY <2>4, <2>5
<1>14. QED
  BY <1>4, <1>7, <1>8, <1>12, <1>13, HeadersRead

\* A line of the data of an answer.
LEMMA DeviceDataLine ==
  ASSUME MonitorInv, ~unusual, NEW l \in HttpLines, PieceOf("device", l),
         Monitor!EndsLine, Monitor!ProcessDeviceData,
         NEW h, NEW q, h = host, q = ToCome("device"), AtAnswerData(h, q)
  PROVE  MonitorInv'
<1>1. Monitor!TheLine = l /\ input.from = "device" /\ l # Monitor!Unit
  BY LineSeen
<1>2. input.part # "begin" /\ "host" \in Sides /\ "device" \in Sides /\ "host" # "device"
  BY DEF Monitor!EndsLine, Sides
<1>3. PICK d : d = device
  OBVIOUS
<1>4. Rest(q, d) /\ q[1] = l
  BY <1>2, <1>3, PieceBefore DEF Script
<1>5. /\ state \in Monitor!Methods /\ state # "waiting" /\ phase = "server data"
      /\ status \in {"ok", "fail"} /\ h = << >>
      /\ DataIs(q, encoding, remaining, chunk, length)
  BY DEF AtAnswerData, DataLeft, Monitor!Methods
<1>6. /\ encoding \in {"length", "chunked"} /\ chunk \in {"header", "data", "trailer"}
      /\ length \in 0..MaxBody /\ remaining \in 0..MaxBody /\ 0 \in 0..MaxBody
      /\ remaining \in Nat /\ length \in Nat
  BY MonitorFacts, MonitorNumbers DEF MonitorInv
<1>7. /\ encoding = "chunked" /\ chunk \in {"header", "trailer"}
      /\ chunk = "header" =>
           \E m \in 0..MaxBody :
             l = Chunk(m) /\ DataIs(d, encoding, m, IF m = 0 THEN "trailer" ELSE "data", m)
      /\ chunk = "trailer" =>
           /\ l = Monitor!Blank
           /\ length = 0 => d = << >>
           /\ length > 0 => \A v : DataIs(d, encoding, v, "header", length)
  <2>1. q[1] # Monitor!Unit /\ Rest(q, d) /\ DataIs(q, encoding, remaining, chunk, length)
    BY <1>1, <1>4, <1>5
  <2>2. remaining \in Nat /\ length \in Nat
    BY <1>6
  <2>3. /\ encoding = "chunked" /\ chunk \in {"header", "trailer"}
        /\ chunk = "header" =>
             \E m \in 0..MaxBody :
               /\ q[1] = Chunk(m)
               /\ DataIs(d, encoding, m, IF m = 0 THEN "trailer" ELSE "data", m)
        /\ chunk = "trailer" =>
             /\ q[1] = Monitor!Blank
             /\ length = 0 => d = << >>
             /\ length > 0 => \A v : DataIs(d, encoding, v, "header", length)
    BY ONLY <2>1, <2>2, DataRead
  <2>4. QED
    BY <1>4, <2>3
<1>8. Monitor!ResponseData /\ UNCHANGED Monitor!peerVars
  BY <1>5 DEF Monitor!ProcessDeviceData, Monitor!ResponseHeader, Monitor!EarlyResponse,
              Monitor!DeviceOutOfTurn
<1>9. CASE chunk = "header"
  <2>1. PICK m \in 0..MaxBody :
          l = Chunk(m) /\ DataIs(d, encoding, m, IF m = 0 THEN "trailer" ELSE "data", m)
    BY <1>7, <1>9
  <2>2. l # Monitor!Blank /\ l.kind = "chunk" /\ l.value = m
    BY <2>1, LinesDiffer
  <2>3. Monitor!ChunkHeader
    BY <1>7, <1>8, <1>9
    DEF Monitor!ResponseData, Monitor!ChunkData, Monitor!ChunkTrailer, Monitor!FixedData
  <2>4. /\ host_buffer' = << >> /\ input' = Monitor!None
        /\ length' = m /\ remaining' = m /\ chunk' = IF m = 0 THEN "trailer" ELSE "data"
        /\ UNCHANGED <<state, phase, status, encoding>>
    BY <1>1, <2>2, <2>3 DEF Monitor!ChunkHeader, Monitor!PartKept, Monitor!LineRead
  <2>5. DataIs(d, encoding', remaining', chunk', length')
    BY <2>1, <2>4
  <2>6. AtAnswerData(h, d)'
    BY <1>5, <2>4, <2>5 DEF AtAnswerData, DataLeft
  <2>7. Turns(h, d)'
    BY <2>6 DEF Turns
  <2>8. chunk' \in {"header", "data", "trailer"}
    BY <2>4
  <2>9. QED
    BY <1>2, <1>3, <1>5, <1>6, <1>8, <2>4, <2>7, <2>8, PieceUsed
<1>10. CASE chunk = "trailer"
  <2>1. l = Monitor!Blank
    BY <1>7, <1>10
  <2>2. Monitor!ChunkTrailer(Monitor!ResponseEnd /\ UNCHANGED Monitor!bodyVars)
    BY <1>7, <1>8, <1>10
    DEF Monitor!ResponseData, Monitor!ChunkHeader, Monitor!ChunkData, Monitor!FixedData
  <2>3. /\ host_buffer' = << >> /\ input' = Monitor!None
        /\ \/ length = 0 /\ Monitor!ResponseEnd /\ UNCHANGED Monitor!bodyVars
           \/ /\ length > 0 /\ chunk' = "header"
              /\ UNCHANGED <<state, phase, status, encoding, length, remaining>>
    BY <1>1, <2>1, <2>2 DEF Monitor!ChunkTrailer, Monitor!PartKept, Monitor!LineRead
  <2>4. CASE length = 0 /\ Monitor!ResponseEnd /\ UNCHANGED Monitor!bodyVars
    <3>1. d = << >>
      BY <1>7, <1>10, <2>4
    <3>2. /\ state' = "waiting" /\ phase' = "client headers" /\ status' = status
          /\ UNCHANGED <<encoding, length, remaining, chunk>>
      BY <2>4 DEF Monitor!ResponseEnd, Monitor!bodyVars
    <3>3. AtRest(h, d)'
      BY <1>5, <3>1, <3>2 DEF AtRest
    <3>4. Turns(h, d)'
      BY <3>3 DEF Turns
    <3>5. QED
      BY <1>2, <1>3, <1>5, <1>6, <1>8, <2>3, <3>2, <3>4, PieceUsed
  <2>5. CASE /\ length > 0 /\ chunk' = "header"
             /\ UNCHANGED <<state, phase, status, encoding, length, remaining>>
    <3>1. DataIs(d, encoding', remaining', chunk', length')
      BY <1>7, <1>10, <2>5
    <3>2. AtAnswerData(h, d)'
      BY <1>5, <2>5, <3>1 DEF AtAnswerData, DataLeft
    <3>3. Turns(h, d)'
      BY <3>2 DEF Turns
    <3>4. QED
      BY <1>2, <1>3, <1>5, <1>6, <1>8, <2>3, <2>5, <3>3, PieceUsed
  <2>6. QED
    BY <2>3, <2>4, <2>5
<1>11. QED
  BY <1>7, <1>9, <1>10

\* A unit of the data of an answer.
LEMMA DeviceUnit ==
  ASSUME MonitorInv, ~unusual, PieceOf("device", Monitor!Unit), input.part = "unit",
         Monitor!ProcessDeviceData,
         NEW h, NEW q, h = host, q = ToCome("device"), AtAnswerData(h, q)
  PROVE  MonitorInv'
<1>1. host_buffer = << >> /\ Monitor!Unit \in HttpLines
  BY MonitorFacts DEF PieceOf, Begins
<1>2. input.part # "begin" /\ "host" \in Sides /\ "device" \in Sides
      /\ "host" # "device" /\ ~Monitor!EndsLine
  BY DEF Monitor!EndsLine, Sides
<1>3. PICK d : d = device
  OBVIOUS
<1>4. Rest(q, d) /\ q[1] = Monitor!Unit
  BY <1>1, <1>2, <1>3, PieceBefore DEF Script
<1>5. /\ state \in Monitor!Methods /\ state # "waiting" /\ phase = "server data"
      /\ status \in {"ok", "fail"} /\ h = << >>
      /\ DataIs(q, encoding, remaining, chunk, length)
  BY DEF AtAnswerData, DataLeft, Monitor!Methods
<1>6. /\ encoding \in {"length", "chunked"} /\ chunk \in {"header", "data", "trailer"}
      /\ length \in 0..MaxBody /\ remaining \in 0..MaxBody
      /\ remaining \in Nat /\ length \in Nat
  BY MonitorNumbers DEF MonitorInv
<1>7. /\ remaining > 0 /\ (encoding = "length" \/ (encoding = "chunked" /\ chunk = "data"))
      /\ encoding = "length" =>
           IF remaining - 1 = 0 THEN d = << >>
           ELSE \A v : DataIs(d, encoding, remaining - 1, v, length)
      /\ encoding = "chunked" =>
           DataIs(d, encoding, remaining - 1, IF remaining - 1 = 0 THEN "trailer" ELSE chunk,
                  length)
  BY <1>4, <1>5, <1>6, DataRead
<1>8. Monitor!ResponseData /\ UNCHANGED Monitor!peerVars
  BY <1>5 DEF Monitor!ProcessDeviceData, Monitor!ResponseHeader, Monitor!EarlyResponse,
              Monitor!DeviceOutOfTurn
<1>9. ~(remaining <= Len(host_buffer)) /\ remaining - Len(host_buffer) - 1 = remaining - 1
      /\ remaining - 1 \in 0..MaxBody
  <2>1. Len(host_buffer) = 0
    BY <1>1, EmptySeq
  <2>2. QED
    BY <1>6, <1>7, <2>1, MonitorFacts
<1>10. CASE encoding = "length"
  <2>1. Monitor!FixedData(Monitor!ResponseEnd /\ UNCHANGED <<encoding, length, chunk>>)
    BY <1>8, <1>10
    DEF Monitor!ResponseData, Monitor!ChunkHeader, Monitor!ChunkData, Monitor!ChunkTrailer
  <2>2. /\ host_buffer' = << >> /\ remaining' = remaining - 1 /\ input' = Monitor!None
        /\ UNCHANGED <<encoding, length, chunk>>
        /\ IF remaining' = 0 THEN Monitor!ResponseEnd ELSE UNCHANGED <<state, phase, status>>
    BY <1>9, <2>1 DEF Monitor!FixedData, Monitor!Consume
  <2>3. CASE remaining' = 0
    <3>1. d = << >>
      BY <1>7, <1>10, <2>2, <2>3
    <3>2. state' = "waiting" /\ phase' = "client headers" /\ status' = status
      BY <2>2, <2>3 DEF Monitor!ResponseEnd
    <3>3. AtRest(h, d)'
      BY <1>5, <3>1, <3>2 DEF AtRest
    <3>4. Turns(h, d)'
      BY <3>3 DEF Turns
    <3>5. QED
      BY <1>2, <1>3, <1>5, <1>6, <1>8, <1>9, <2>2, <3>2, <3>4, PieceUsed
  <2>4. CASE remaining' # 0
    <3>1. UNCHANGED <<state, phase, status>>
      BY <2>2, <2>4
    <3>2. DataIs(d, encoding', remaining', chunk', length')
      BY <1>7, <1>10, <2>2, <2>4
    <3>3. AtAnswerData(h, d)'
      BY <1>5, <3>1, <3>2 DEF AtAnswerData, DataLeft
    <3>4. Turns(h, d)'
      BY <3>3 DEF Turns
    <3>5. QED
      BY <1>2, <1>3, <1>5, <1>6, <1>8, <1>9, <2>2, <3>1, <3>4, PieceUsed
  <2>5. QED
    BY <2>3, <2>4
<1>11. CASE encoding = "chunked" /\ chunk = "data"
  <2>1. Monitor!ChunkData
    BY <1>8, <1>11
    DEF Monitor!ResponseData, Monitor!ChunkHeader, Monitor!ChunkTrailer, Monitor!FixedData
  <2>2. /\ host_buffer' = << >> /\ remaining' = remaining - 1 /\ input' = Monitor!None
        /\ chunk' = IF remaining' = 0 THEN "trailer" ELSE chunk
        /\ UNCHANGED <<state, phase, status, encoding, length>>
    BY <1>9, <2>1 DEF Monitor!ChunkData, Monitor!Consume
  <2>3. DataIs(d, encoding', remaining', chunk', length')
    BY <1>7, <1>11, <2>2
  <2>4. AtAnswerData(h, d)'
    BY <1>5, <2>2, <2>3 DEF AtAnswerData, DataLeft
  <2>5. Turns(h, d)'
    BY <2>4 DEF Turns
  <2>6. chunk' \in {"header", "data", "trailer"}
    BY <1>6, <2>2
  <2>7. QED
    BY <1>2, <1>3, <1>5, <1>6, <1>8, <1>9, <2>2, <2>5, <2>6, PieceUsed
<1>12. QED
  BY <1>7, <1>10, <1>11

\* Whatever the device sends.
LEMMA DeviceSaid ==
  ASSUME MonitorInv, ~unusual, Monitor!ProcessDeviceData
  PROVE  MonitorInv'
<1>1. MonitorTypes /\ PiecesOK /\ DeviceWaits /\ input.from = "device" /\ input # Monitor!None
  BY DEF MonitorInv, Monitor!ProcessDeviceData, Monitor!From, Monitor!None
<1>2. PICK s \in Sides, l \in HttpLines : PieceOf(s, l)
  BY <1>1 DEF PiecesOK, BetweenPieces
<1>3. s = "device" /\ input.line = l
  BY <1>1, <1>2 DEF PieceOf, Begins
<1>4. PICK h, q \in Seq(HttpLines) :
        h = ToCome("host") /\ q = ToCome("device") /\ Turns(h, q)
  BY DEF MonitorInv
<1>5. h = host
  BY <1>1, <1>4 DEF ToCome, Script
<1>6. q # << >> /\ q[1] = l
  <2>1. CASE input.part = "begin"
    <3>1. q = device
      BY <1>4, <2>1 DEF ToCome, Script
    <3>2. device # << >> /\ device[1] = l
      BY <1>2, <1>3, <2>1 DEF PieceOf, Begins, Script
    <3>3. QED
      BY <3>1, <3>2
  <2>2. CASE input.part # "begin"
    <3>1. "host" \in Sides /\ "device" # "host"
      BY DEF Sides
    <3>2. QED
      BY <1>2, <1>3, <1>4, <2>2, <3>1, PieceBefore
  <2>3. QED
    BY <2>1, <2>2
<1>7. \/ AtRequestData(h, q) /\ l \in {Continues, Monitor!Blank}
      \/ AtAnswer(h, q) \/ AtAnswerHeaders(h, q) \/ AtAnswerData(h, q)
  <2>1. CASE h = << >>
    BY <1>1, <1>4, <1>6, <2>1, WhoseTurn
  <2>2. CASE h # << >>
    <3>1. phase = "client data" /\ l \in {Continues, Monitor!Blank}
      BY <1>1, <1>3, <1>5, <2>2 DEF DeviceWaits
    <3>2. AtRequestLine(h, q) \/ AtRequestHeaders(h, q) \/ AtRequestData(h, q)
      BY <1>1, <1>4, <2>2, WhoseTurn
    <3>3. QED
      BY <3>1, <3>2 DEF AtRequestLine, AtRequestHeaders
  <2>3. QED
    BY <2>1, <2>2
<1>8. UNCHANGED Monitor!peerVars
  BY DEF Monitor!ProcessDeviceData
<1>9. CASE l = Monitor!Unit
  <2>1. input.part = "unit"
    BY <1>2, <1>9 DEF PieceOf
  <2>2. \A v : Monitor!Unit # Monitor!Line("status", v)
               /\ Monitor!Unit # Monitor!Line("content-length", v)
               /\ Monitor!Unit # Monitor!Line("chunked", v) /\ Monitor!Unit # Monitor!Blank
    BY LinesDiffer
  <2>3. 0 + 1 = 1
    OBVIOUS
  <2>4. ~AtAnswer(h, q)
    BY <1>6, <1>9, <2>2, <2>3 DEF AtAnswer, AnswerLeft, AnswerAt, Continues
  <2>5. \A b, c \in AnyBody : ~HeadersAt(q, 0, b, c)
    BY <1>6, <1>9, <2>2, <2>3, MonitorFacts DEF HeadersAt
  <2>6. \A b \in AnyBody : Carries(state, b) \in AnyBody
    BY DEF Carries, AnyBody
  <2>7. ~AtAnswerHeaders(h, q)
    BY <1>6, <1>9, <2>2, <2>5, <2>6 DEF AtAnswerHeaders, HeadersLeft
  <2>8. l \notin {Continues, Monitor!Blank}
    BY <1>9, <2>2 DEF Continues
  <2>9. QED
    BY <1>2, <1>3, <1>4, <1>5, <1>7, <1>9, <2>1, <2>4, <2>7, <2>8, DeviceUnit
<1>10. CASE l # Monitor!Unit /\ Monitor!EndsLine
  BY <1>2, <1>3, <1>4, <1>5, <1>7, <1>10, DeviceEarly, DeviceStatus, DeviceHeader,
     DeviceDataLine
<1>11. CASE l # Monitor!Unit /\ ~Monitor!EndsLine
  <2>1. Monitor!PartKept
    <3>1. CASE AtRequestData(h, q)
      <4>1. state # "waiting" /\ phase = "client data"
        BY <3>1 DEF AtRequestData
      <4>2. QED
        BY <1>11, <4>1
        DEF Monitor!ProcessDeviceData, Monitor!ResponseHeader, Monitor!LineRead,
            Monitor!ResponseData, Monitor!EarlyResponse, Monitor!DeviceOutOfTurn
    <3>2. CASE AtAnswer(h, q) \/ AtAnswerHeaders(h, q)
      <4>1. state # "waiting" /\ phase = "server headers"
        BY <3>2 DEF AtAnswer, AtAnswerHeaders, Monitor!Methods
      <4>2. QED
        BY <1>11, <4>1
        DEF Monitor!ProcessDeviceData, Monitor!ResponseHeader, Monitor!LineRead,
            Monitor!ResponseData, Monitor!EarlyResponse, Monitor!DeviceOutOfTurn
    <3>3. CASE AtAnswerData(h, q)
      <4>1. /\ state # "waiting" /\ phase = "server data"
            /\ DataIs(q, encoding, remaining, chunk, length)
        BY <3>3 DEF AtAnswerData, DataLeft, Monitor!Methods
      <4>2. Monitor!ResponseData
        BY <4>1 DEF Monitor!ProcessDeviceData, Monitor!ResponseHeader, Monitor!EarlyResponse,
                    Monitor!DeviceOutOfTurn
      <4>3. encoding = "chunked" /\ chunk \in {"header", "trailer"}
        <5>1. remaining \in Nat /\ length \in Nat
          BY <1>1, MonitorNumbers
        <5>2. q \in Seq(HttpLines) /\ Tail(q) \in Seq(HttpLines) /\ <<l>> \o Tail(q) = q
          BY <1>4, <1>6, FirstAndRest
        <5>3. Rest(q, Tail(q))
          BY <5>2, OneBefore DEF Rest
        <5>4. QED
          BY <1>6, <1>11, <4>1, <5>1, <5>3, DataRead
      <4>4. QED
        BY <1>11, <4>2, <4>3
        DEF Monitor!ResponseData, Monitor!ChunkHeader, Monitor!ChunkData, Monitor!ChunkTrailer,
            Monitor!FixedData, Monitor!LineRead
    <3>4. QED
      BY <1>7, <3>1, <3>2, <3>3
  <2>2. QED
    BY <1>2, <1>8, <1>11, <2>1, PieceKept
<1>12. QED
  BY <1>9, <1>10, <1>11

\* Once its line is read, what is left of a request begins with no request line.
LEMMA NotARequest ==
  ASSUME MonitorTypes, NEW h \in Seq(HttpLines), NEW d,
         AtRequestHeaders(h, d) \/ AtRequestData(h, d)
  PROVE  h[1].kind # "request"
<1>1. 0 + 1 = 1
  OBVIOUS
<1>2. \A b, c \in AnyBody : HeadersAt(h, 0, b, c) => h[1].kind # "request"
  BY <1>1, MonitorFacts, LinesDiffer DEF HeadersAt
<1>3. CASE AtRequestHeaders(h, d)
  <2>1. Monitor!Blank.kind # "request" /\ Monitor!Line("header", 0).kind # "request"
    BY LinesDiffer
  <2>2. \E b \in AnyBody :
          HeadersAt(h, 0, b, b) \/ h[1] = Monitor!Blank \/ h[1] = Monitor!Line("header", 0)
    BY <1>3 DEF AtRequestHeaders, HeadersLeft
  <2>3. QED
    BY <1>2, <2>1, <2>2
<1>4. CASE AtRequestData(h, d)
  <2>1. DataIs(h, encoding, remaining, chunk, length) /\ Len(h) # 0
    BY <1>4, NotEmpty DEF AtRequestData, DataLeft
  <2>2. remaining \in Nat /\ length \in Nat
    BY MonitorNumbers
  <2>3. h # << >>
    BY <2>1, EmptySeq
  <2>4. h[1] \in HttpLines /\ Tail(h) \in Seq(HttpLines) /\ <<h[1]>> \o Tail(h) = h
    BY <2>3, FirstAndRest
  <2>5. Rest(h, Tail(h))
    BY <2>4, OneBefore DEF Rest
  <2>6. h[1] = Monitor!Unit \/ h[1] = Monitor!Blank \/ \E m : h[1] = Chunk(m)
    BY <2>1, <2>2, <2>5, DataRead
  <2>7. /\ Monitor!Unit.kind = "body" /\ Monitor!Blank.kind = "blank"
        /\ \A m : Chunk(m).kind = "chunk"
    BY DEF Monitor!Line, Monitor!Unit, Monitor!Blank, Chunk
  <2>8. QED
    BY <2>6, <2>7
<1>5. QED
  BY <1>3, <1>4

-----------------------------------------------------------------------------
\* At first nothing has been sent.
LEMMA MonitorStarts == PartsInit => MonitorInv
<1>1. SUFFICES ASSUME PartsInit PROVE MonitorInv
  OBVIOUS
<1>2. /\ state = "waiting" /\ phase = "client headers" /\ status = "continue"
      /\ encoding = "length" /\ length = 0 /\ remaining = 0 /\ chunk = "header"
      /\ host_buffer = << >> /\ input = Monitor!None /\ host = << >> /\ device = << >>
      /\ begun = [s \in {"host", "device"} |-> FALSE] /\ requests = 0 /\ unusual = FALSE
  BY <1>1 DEF PartsInit, Monitor!Init
<1>3. 0 \in 0..MaxBody /\ 0 \in 0..MaxRequests
  BY MonitorFacts
<1>4. << >> \in Seq(HttpLines)
  BY EmptySeq
<1>5. MonitorTypes
  <2>1. Monitor!TypeOK
    BY <1>2, <1>3, EmptyBuffer DEF Monitor!TypeOK
  <2>2. QED
    BY <1>2, <1>4, <2>1, EmptyBuffer DEF MonitorTypes, Sides
<1>6. PiecesOK
  BY <1>2 DEF PiecesOK, BetweenPieces, NoneBegun, Sides
<1>7. DeviceWaits
  BY <1>2 DEF DeviceWaits
<1>8. ToCome("host") = << >> /\ ToCome("device") = << >>
  BY <1>2 DEF ToCome, Script
<1>9. Turns(<< >>, << >>)
  BY <1>2 DEF Turns, AtRest
<1>10. status # "error"
  BY <1>2
<1>11. QED
  BY <1>2, <1>4, <1>5, <1>6, <1>7, <1>8, <1>9, <1>10 DEF MonitorInv

\* MonitorInv is an invariant of the parts: host and device have left to send what
\* is missing of the messages that the monitor is in the middle of.
THEOREM MonitorAlways == PartsSpec => []MonitorInv
<1>1. PartsInit => MonitorInv
  BY MonitorStarts
<1>2. MonitorInv /\ [PartsNext]_partsVars => MonitorInv'
  <2>1. SUFFICES ASSUME MonitorInv, [PartsNext]_partsVars PROVE MonitorInv'
    OBVIOUS
  <2>2. CASE UNCHANGED httpVars
    BY <2>1, <2>2, SameMonitor
  <2>3. CASE Monitor!Next
    <3>1. unusual' \in BOOLEAN /\ (unusual => unusual')
      BY <2>1, <2>3
      DEF MonitorInv, Monitor!Next, Monitor!NewRequest, Monitor!HostSends, Monitor!DeviceSends,
          Monitor!Send, Monitor!ProcessHostData, Monitor!ProcessDeviceData, Monitor!peerVars
    <3>2. CASE unusual'
      BY <3>1, <3>2 DEF MonitorInv
    <3>3. CASE ~unusual'
      BY <2>1, <2>3, <3>1, <3>3, RequestStep, SendStep, HostSaid, DeviceSaid DEF Monitor!Next
    <3>4. QED
      BY <3>2, <3>3
  <2>4. UNCHANGED httpVars \/ Monitor!Next
    BY <2>1 DEF PartsNext, Others, partsVars
  <2>5. QED
    BY <2>2, <2>3, <2>4
<1>3. QED
  BY <1>1, <1>2, PTL DEF PartsSpec

\* Between calls the monitor of an HTTP connection knows whose turn it is, for
\* bodies of any length and any number of requests.
THEOREM MonitorInStep == PartsSpec => []InStep
<1>1. MonitorInv => InStep
  <2>1. SUFFICES ASSUME MonitorInv, input = Monitor!None, ~unusual
                 PROVE  /\ status # "error"
                        /\ state = "waiting" <=> (Monitor!Idle \/ Monitor!NotBegun)
                        /\ phase \in {"server headers", "server data"}
                             <=> (host = << >> /\ device # << >>)
    BY DEF InStep, In, Monitor!InStep
  <2>2. PICK h, d \in Seq(HttpLines) :
          h = ToCome("host") /\ d = ToCome("device") /\ Turns(h, d)
    BY <2>1 DEF MonitorInv
  <2>3. h = host /\ d = device
    BY <2>1, <2>2 DEF ToCome, Script
  <2>4. MonitorTypes /\ status # "error"
    BY <2>1 DEF MonitorInv
  <2>5. "waiting" \notin Monitor!Methods
    BY DEF Monitor!Methods
  <2>6. CASE h = << >> /\ d = << >>
    <3>1. AtRest(h, d)
      BY <2>2, <2>4, <2>6, WhoseTurn
    <3>2. QED
      BY <2>3, <2>4, <2>6, <3>1 DEF AtRest, Monitor!Idle
  <2>7. CASE h = << >> /\ d # << >>
    <3>1. AtAnswer(h, d) \/ AtAnswerHeaders(h, d) \/ AtAnswerData(h, d)
      BY <2>2, <2>4, <2>7, WhoseTurn
    <3>2. state # "waiting" /\ phase \in {"server headers", "server data"}
      BY <2>5, <3>1 DEF AtAnswer, AtAnswerHeaders, AtAnswerData
    <3>3. QED
      BY <2>3, <2>4, <2>7, <3>2 DEF Monitor!Idle, Monitor!NotBegun
  <2>8. CASE h # << >>
    <3>1. AtRequestLine(h, d) \/ AtRequestHeaders(h, d) \/ AtRequestData(h, d)
      BY <2>2, <2>4, <2>8, WhoseTurn
    <3>2. ~(phase \in {"server headers", "server data"})
      BY <3>1 DEF AtRequestLine, AtRequestHeaders, AtRequestData
    <3>3. CASE AtRequestLine(h, d)
      <4>1. state = "waiting" /\ h[1].kind = "request"
        <5>1. \A m : Monitor!Line("request", m).kind = "request"
          BY LinesDiffer
        <5>2. QED
          BY <3>3, <5>1 DEF AtRequestLine
      <4>2. QED
        BY <2>3, <2>4, <2>8, <3>2, <4>1 DEF Monitor!NotBegun
    <3>4. CASE AtRequestHeaders(h, d) \/ AtRequestData(h, d)
      <4>1. state # "waiting"
        BY <2>5, <3>4 DEF AtRequestHeaders, AtRequestData
      <4>2. h[1].kind # "request"
        BY <2>2, <2>4, <3>4, NotARequest
      <4>3. QED
        BY <2>3, <2>4, <2>8, <3>2, <4>1, <4>2 DEF Monitor!Idle, Monitor!NotBegun
    <3>5. QED
      BY <3>1, <3>3, <3>4
  <2>9. QED
    BY <2>6, <2>7, <2>8
<1>2. QED
  BY <1>1, MonitorAlways, PTL

-----------------------------------------------------------------------------
\* The types hold also after what is unusual: what the monitor is shown is typed,
\* and so is what it puts together.

PieceType == [from : Sides, line : HttpLines, part : {"begin", "unit"}]

\* The variables of the monitor but for its buffer and the piece it looks at.
NumbersTyped ==
  /\ state \in Monitor!Methods \cup {"waiting"}
  /\ phase \in {"client headers", "client data", "server headers", "server data"}
  /\ status \in {"continue", "ok", "fail", "error"}
  /\ encoding \in {"length", "chunked"}
  /\ length \in 0..MaxBody /\ remaining \in 0..MaxBody
  /\ chunk \in {"header", "data", "trailer"}

\* The types are those of these variables and of the others.
LEMMA TypesOfMonitor ==
  MonitorTypes <=>
    /\ NumbersTyped /\ host_buffer \in Seq(PieceType)
    /\ input \in HttpPieces \cup {Monitor!None}
    /\ host \in Seq(HttpLines) /\ device \in Seq(HttpLines)
    /\ begun \in [Sides -> BOOLEAN]
    /\ requests \in 0..MaxRequests /\ unusual \in BOOLEAN
<1>1. ASSUME NEW s \in Seq(PieceType)
      PROVE  \A i \in DOMAIN s : s[i].part \in {"begin", "unit"}
  <2>1. DOMAIN s = 1..Len(s) /\ \A i \in 1..Len(s) : s[i] \in PieceType
    BY ElementOfSeq, LenProperties
  <2>2. QED
    BY <2>1 DEF PieceType
<1>2. QED
  BY <1>1 DEF MonitorTypes, Monitor!TypeOK, NumbersTyped, PieceType

\* The same of the state after a step.
LEMMA TypesOfMonitorNext ==
  /\ NumbersTyped' /\ host_buffer' \in Seq(PieceType)
  /\ input' \in HttpPieces \cup {Monitor!None}
  /\ host' \in Seq(HttpLines) /\ device' \in Seq(HttpLines)
  /\ begun' \in [Sides -> BOOLEAN]
  /\ requests' \in 0..MaxRequests /\ unusual' \in BOOLEAN
  => MonitorTypes'
<1>1. ASSUME NEW s \in Seq(PieceType)
      PROVE  \A i \in DOMAIN s : s[i].part \in {"begin", "unit"}
  <2>1. DOMAIN s = 1..Len(s) /\ \A i \in 1..Len(s) : s[i] \in PieceType
    BY ElementOfSeq, LenProperties
  <2>2. QED
    BY <2>1 DEF PieceType
<1>2. QED
  BY <1>1 DEF MonitorTypes, Monitor!TypeOK, NumbersTyped, PieceType

\* What a line of a kind says.
LEMMA ValueOfLine ==
  ASSUME NEW l \in HttpLines
  PROVE  /\ l.kind = "request" => l.value \in Monitor!Methods
         /\ l.kind = "status" => l.value \in {"continue", "ok", "fail"}
         /\ l.kind \in {"content-length", "chunk"} => l.value \in 0..MaxBody
         /\ l.kind # "mixed"
BY DEF HttpLines

\* The line that a piece ends is one that was sent, or made of parts of several.
LEMMA TheLineTyped ==
  ASSUME host_buffer \in Seq(PieceType), input \in HttpPieces
  PROVE  Monitor!TheLine \in HttpLines \/ Monitor!TheLine.kind = "mixed"
<1>1. PICK q : q = Monitor!Pieces
  OBVIOUS
<1>2. q \in Seq(HttpPieces)
  <2>1. PieceType \subseteq HttpPieces
    BY DEF PieceType, HttpPieces
  <2>2. host_buffer \in Seq(HttpPieces)
    BY <2>1, SeqMonotonic
  <2>3. QED
    BY <1>1, <2>2, AppendProperties DEF Monitor!Pieces
<1>3. \A i \in DOMAIN q : q[i].line \in HttpLines
  <2>1. DOMAIN q = 1..Len(q) /\ Len(q) \in Nat
    BY <1>2, LenProperties
  <2>2. \A i \in 1..Len(q) : q[i] \in HttpPieces
    BY <1>2, ElementOfSeq
  <2>3. QED
    BY <2>1, <2>2 DEF HttpPieces
<1>4. Monitor!Text \subseteq DOMAIN q
  BY <1>1 DEF Monitor!Text
<1>5. Monitor!Blank \in HttpLines
  BY MonitorFacts
<1>6. CASE Monitor!Text = {}
  BY <1>5, <1>6 DEF Monitor!TheLine
<1>7. CASE Monitor!Text # {}
  <2>1. PICK f : f = Monitor!First
    OBVIOUS
  <2>2. \/ Monitor!TheLine = q[f].line /\ f \in Monitor!Text
        \/ Monitor!TheLine = Monitor!Line("mixed", q[f].line.kind)
    BY <1>1, <1>7, <2>1 DEF Monitor!TheLine
  <2>3. QED
    BY <1>3, <1>4, <2>2 DEF Monitor!Line
<1>8. QED
  BY <1>6, <1>7

\* A piece of a line or of a body leaves a typed buffer.
LEMMA BufferTyped ==
  ASSUME host_buffer \in Seq(PieceType), input \in HttpPieces, remaining \in 0..MaxBody,
         Monitor!PartKept \/ Monitor!LineRead \/ Monitor!Consume
  PROVE  /\ host_buffer' \in Seq(PieceType)
         /\ input' \in HttpPieces \cup {Monitor!None}
         /\ Monitor!Consume => remaining' \in 0..MaxBody
<1>1. MaxBody \in Nat /\ << >> \in Seq(PieceType)
  BY MonitorFacts, EmptySeq
<1>2. CASE Monitor!PartKept
  <2>1. input \in PieceType
    BY <1>2 DEF Monitor!PartKept, Monitor!EndsLine, HttpPieces, PieceType
  <2>2. Append(host_buffer, input) \in Seq(PieceType)
    BY <2>1, AppendProperties
  <2>3. ~Monitor!Consume \/ remaining' \in 0..MaxBody
    BY <1>2 DEF Monitor!PartKept, Monitor!bodyVars
  <2>4. QED
    BY <1>2, <2>2, <2>3 DEF Monitor!PartKept
<1>3. CASE Monitor!Consume
  <2>1. PICK n \in Nat : n = Len(host_buffer)
    BY LenProperties
  <2>2. CASE remaining <= n
    <3>1. SubSeq(host_buffer, remaining + 1, n) \in Seq(PieceType)
      <4>1. \A i \in (remaining + 1)..n : i \in 1..Len(host_buffer)
        BY <2>1
      <4>2. remaining + 1 \in Int /\ n \in Int
        BY <2>1
      <4>3. \A i \in (remaining + 1)..n : host_buffer[i] \in PieceType
        BY <4>1, ElementOfSeq
      <4>4. QED
        BY <4>2, <4>3, SubSeqProperties
    <3>2. /\ host_buffer' = SubSeq(host_buffer, remaining + 1, n)
          /\ remaining' = 0 /\ input' = input
      BY <1>3, <2>1, <2>2 DEF Monitor!Consume
    <3>3. 0 \in 0..MaxBody
      BY <1>1
    <3>4. QED
      BY <3>1, <3>2, <3>3
  <2>3. CASE ~(remaining <= n)
    <3>1. remaining - n - 1 \in 0..MaxBody
      BY <1>1, <2>1, <2>3
    <3>2. QED
      BY <1>1, <1>3, <2>1, <2>3, <3>1 DEF Monitor!Consume
  <2>4. QED
    BY <2>2, <2>3
<1>4. CASE Monitor!LineRead /\ ~Monitor!Consume
  BY <1>1, <1>4 DEF Monitor!LineRead
<1>5. QED
  BY <1>2, <1>3, <1>4

\* The numbers after the data of a body in chunks, or one that has a length.
LEMMA DataTyped ==
  ASSUME NumbersTyped, host_buffer \in Seq(PieceType), input \in HttpPieces
  PROVE  /\ Monitor!ChunkHeader => NumbersTyped'
         /\ Monitor!ChunkData => NumbersTyped'
         /\ Monitor!PartKept => NumbersTyped'
         /\ Monitor!Error => NumbersTyped'
<1>1. MaxBody \in Nat /\ 0 \in 0..MaxBody
  BY MonitorFacts
<1>2. Monitor!PartKept => NumbersTyped'
  BY DEF Monitor!PartKept, Monitor!bodyVars, NumbersTyped
<1>3. Monitor!Error => NumbersTyped'
  BY DEF Monitor!Error, Monitor!bodyVars, NumbersTyped
<1>4. ASSUME Monitor!ChunkHeader PROVE NumbersTyped'
  <2>1. PICK n : n = IF Monitor!TheLine.kind = "chunk" THEN Monitor!TheLine.value ELSE 0
    OBVIOUS
  <2>2. n \in 0..MaxBody
    BY <1>1, <2>1, TheLineTyped, ValueOfLine
  <2>3. \/ Monitor!PartKept \/ Monitor!Error
        \/ /\ length' = n /\ remaining' = n /\ chunk' \in {"trailer", "data"}
           /\ UNCHANGED <<state, phase, status, encoding>>
    BY <1>4, <2>1 DEF Monitor!ChunkHeader
  <2>4. QED
    BY <1>2, <1>3, <2>2, <2>3 DEF NumbersTyped
<1>5. ASSUME Monitor!ChunkData PROVE NumbersTyped'
  <2>1. remaining \in 0..MaxBody
    BY DEF NumbersTyped
  <2>2. Monitor!Consume
    BY <1>5 DEF Monitor!ChunkData
  <2>3. remaining' \in 0..MaxBody
    BY <2>1, <2>2, BufferTyped
  <2>4. QED
    BY <1>5, <2>3 DEF Monitor!ChunkData, NumbersTyped
<1>6. QED
  BY <1>2, <1>3, <1>4, <1>5

\* The numbers after a header.
LEMMA HeaderTyped ==
  ASSUME NumbersTyped, host_buffer \in Seq(PieceType), input \in HttpPieces,
         Monitor!Header(Monitor!TheLine)
  PROVE  NumbersTyped'
<1>1. MaxBody \in Nat /\ 0 \in 0..MaxBody
  BY MonitorFacts
<1>2. CASE Monitor!TheLine.kind \notin {"chunked", "content-length", "header"}
  BY <1>2, DataTyped DEF Monitor!Header
<1>3. CASE Monitor!TheLine.kind = "chunked"
  BY <1>1, <1>3 DEF Monitor!Header, Monitor!SetBody, NumbersTyped
<1>4. CASE Monitor!TheLine.kind = "content-length"
  <2>1. Monitor!TheLine.value \in 0..MaxBody
    BY <1>4, TheLineTyped, ValueOfLine
  <2>2. QED
    BY <1>4, <2>1 DEF Monitor!Header, Monitor!SetBody, NumbersTyped
<1>5. CASE Monitor!TheLine.kind = "header"
  BY <1>5 DEF Monitor!Header, Monitor!bodyVars, NumbersTyped
<1>6. QED
  BY <1>2, <1>3, <1>4, <1>5

\* The numbers after what the host sends.
LEMMA HostTyped ==
  ASSUME NumbersTyped, host_buffer \in Seq(PieceType), input \in HttpPieces,
         Monitor!ProcessHostData
  PROVE  NumbersTyped'
<1>0. remaining \in 0..MaxBody
  BY DEF NumbersTyped
<1>1. MaxBody \in Nat /\ 0 \in 0..MaxBody /\ remaining \in 0..MaxBody
  BY <1>0, MonitorFacts
<1>2. CASE Monitor!PartKept \/ Monitor!Error \/ Monitor!ChunkHeader \/ Monitor!ChunkData
  BY <1>2, DataTyped
<1>3. CASE Monitor!RequestLine /\ ~(Monitor!PartKept \/ Monitor!Error)
  <2>1. Monitor!TheLine.kind = "request" /\ state' = Monitor!TheLine.value
    BY <1>3 DEF Monitor!RequestLine
  <2>2. state' \in Monitor!Methods
    BY <2>1, TheLineTyped, ValueOfLine
  <2>3. QED
    BY <1>1, <1>3, <2>2 DEF Monitor!RequestLine, Monitor!SetBody, NumbersTyped
<1>4. CASE Monitor!RequestHeader /\ ~(Monitor!PartKept \/ Monitor!Error)
  <2>1. CASE Monitor!Header(Monitor!TheLine)
    BY <2>1, HeaderTyped
  <2>2. CASE ~Monitor!Header(Monitor!TheLine)
    BY <1>4, <2>2 DEF Monitor!RequestHeader, Monitor!bodyVars, NumbersTyped
  <2>3. QED
    BY <2>1, <2>2
<1>5. CASE Monitor!RequestData /\ ~(Monitor!PartKept \/ Monitor!Error \/ Monitor!ChunkHeader
                                    \/ Monitor!ChunkData)
  <2>1. CASE Monitor!Consume
    <3>1. remaining' \in 0..MaxBody
      BY <1>1, <2>1, BufferTyped
    <3>2. QED
      BY <1>1, <1>5, <3>1
      DEF Monitor!RequestData, Monitor!ChunkTrailer, Monitor!FixedData, Monitor!RequestEnd,
          Monitor!bodyVars, NumbersTyped
  <2>2. CASE ~Monitor!Consume
    BY <1>1, <1>5, <2>2
    DEF Monitor!RequestData, Monitor!ChunkTrailer, Monitor!FixedData, Monitor!RequestEnd,
        Monitor!bodyVars, NumbersTyped
  <2>3. QED
    BY <2>1, <2>2
<1>6. CASE Monitor!HostOutOfTurn
  BY <1>2, <1>6 DEF Monitor!HostOutOfTurn
<1>7. QED
  BY <1>2, <1>3, <1>4, <1>5, <1>6 DEF Monitor!ProcessHostData

\* The numbers after what the device sends.
LEMMA DeviceTyped ==
  ASSUME NumbersTyped, host_buffer \in Seq(PieceType), input \in HttpPieces,
         Monitor!ProcessDeviceData
  PROVE  NumbersTyped'
<1>0. remaining \in 0..MaxBody
  BY DEF NumbersTyped
<1>1. MaxBody \in Nat /\ 0 \in 0..MaxBody /\ remaining \in 0..MaxBody
  BY <1>0, MonitorFacts
<1>2. CASE Monitor!PartKept \/ Monitor!Error \/ Monitor!ChunkHeader \/ Monitor!ChunkData
           \/ Monitor!Header(Monitor!TheLine)
  BY <1>2, DataTyped, HeaderTyped
<1>3. CASE Monitor!ResponseHeader /\ ~(Monitor!PartKept \/ Monitor!Header(Monitor!TheLine))
  <2>1. CASE Monitor!TheLine = Monitor!Blank /\ Monitor!ResponseBlank
             /\ UNCHANGED Monitor!bodyVars
    BY <2>1 DEF Monitor!ResponseBlank, Monitor!ResponseEnd, Monitor!bodyVars, NumbersTyped
  <2>2. CASE Monitor!TheLine.kind = "status" /\ status' = Monitor!TheLine.value
             /\ UNCHANGED <<state, phase, encoding, length, remaining, chunk>>
    <3>1. status' \in {"continue", "ok", "fail"}
      BY <2>2, TheLineTyped, ValueOfLine
    <3>2. QED
      BY <2>2, <3>1 DEF NumbersTyped
  <2>3. QED
    BY <1>3, <2>1, <2>2 DEF Monitor!ResponseHeader, Monitor!bodyVars
<1>4. CASE Monitor!ResponseData /\ ~(Monitor!PartKept \/ Monitor!Error \/ Monitor!ChunkHeader
                                     \/ Monitor!ChunkData)
  <2>1. CASE Monitor!Consume
    <3>1. remaining' \in 0..MaxBody
      BY <1>1, <2>1, BufferTyped
    <3>2. QED
      BY <1>1, <1>4, <3>1
      DEF Monitor!ResponseData, Monitor!ChunkTrailer, Monitor!FixedData, Monitor!ResponseEnd,
          Monitor!bodyVars, NumbersTyped
  <2>2. CASE ~Monitor!Consume
    BY <1>1, <1>4, <2>2
    DEF Monitor!ResponseData, Monitor!ChunkTrailer, Monitor!FixedData, Monitor!ResponseEnd,
        Monitor!bodyVars, NumbersTyped
  <2>3. QED
    BY <2>1, <2>2
<1>5. CASE Monitor!EarlyResponse /\ ~(Monitor!PartKept \/ Monitor!Error)
  BY <1>5 DEF Monitor!EarlyResponse, Monitor!bodyVars, NumbersTyped
<1>6. CASE Monitor!DeviceOutOfTurn
  BY <1>2, <1>6 DEF Monitor!DeviceOutOfTurn
<1>7. QED
  BY <1>2, <1>3, <1>4, <1>5, <1>6 DEF Monitor!ProcessDeviceData

\* What either side says leaves the types.
LEMMA SaidTyped ==
  ASSUME MonitorTypes, Monitor!ProcessHostData \/ Monitor!ProcessDeviceData
  PROVE  MonitorTypes'
<1>1. /\ NumbersTyped /\ host_buffer \in Seq(PieceType)
      /\ input \in HttpPieces \cup {Monitor!None}
  BY TypesOfMonitor
<1>2. input \in HttpPieces
  <2>1. input.from \in Sides
    BY DEF Monitor!ProcessHostData, Monitor!ProcessDeviceData, Monitor!From, Sides
  <2>2. Monitor!None.from \notin Sides
    BY DEF Monitor!None, Sides
  <2>3. QED
    BY <1>1, <2>1, <2>2
<1>3. NumbersTyped'
  BY <1>1, <1>2, HostTyped, DeviceTyped
<1>4. \/ Monitor!PartKept \/ Monitor!LineRead \/ Monitor!Consume
      \/ UNCHANGED <<host_buffer, input>>
  BY DEF Monitor!ProcessHostData, Monitor!ProcessDeviceData, Monitor!RequestLine,
         Monitor!RequestHeader, Monitor!RequestData, Monitor!HostOutOfTurn,
         Monitor!ResponseHeader, Monitor!ResponseData, Monitor!EarlyResponse,
         Monitor!DeviceOutOfTurn, Monitor!ChunkHeader, Monitor!ChunkData,
         Monitor!ChunkTrailer, Monitor!FixedData
<1>5. remaining \in 0..MaxBody
  BY <1>1 DEF NumbersTyped
<1>6. host_buffer' \in Seq(PieceType) /\ input' \in HttpPieces \cup {Monitor!None}
  <2>1. CASE Monitor!PartKept \/ Monitor!LineRead \/ Monitor!Consume
    BY <1>1, <1>2, <1>5, <2>1, BufferTyped
  <2>2. CASE UNCHANGED <<host_buffer, input>>
    BY <1>1, <2>2
  <2>3. QED
    BY <1>4, <2>1, <2>2
<1>7. UNCHANGED <<host, device, begun, requests, unusual>>
  BY DEF Monitor!ProcessHostData, Monitor!ProcessDeviceData, Monitor!peerVars
<1>8. /\ host' \in Seq(HttpLines) /\ device' \in Seq(HttpLines)
      /\ begun' \in [Sides -> BOOLEAN] /\ requests' \in 0..MaxRequests /\ unusual' \in BOOLEAN
  BY <1>7, TypesOfMonitor
<1>9. QED
  BY <1>3, <1>6, <1>8, TypesOfMonitorNext

\* What a side sends leaves the types.
LEMMA SentTyped ==
  ASSUME MonitorTypes, Monitor!HostSends \/ Monitor!DeviceSends
  PROVE  MonitorTypes'
<1>1. PICK s \in Sides, refuses \in BOOLEAN :
        Monitor!Send(s, Script(s), refuses) /\ Script(s)' = Monitor!Rest(Script(s))
          /\ \A t \in Sides \ {s} : Script(t)' = Script(t)
  <2>1. CASE Monitor!HostSends
    BY <2>1 DEF Monitor!HostSends, Script, Sides
  <2>2. CASE Monitor!DeviceSends
    BY <2>2 DEF Monitor!DeviceSends, Script, Sides
  <2>3. QED
    BY <2>1, <2>2
<1>2. /\ NumbersTyped /\ host_buffer \in Seq(PieceType)
      /\ host \in Seq(HttpLines) /\ device \in Seq(HttpLines)
      /\ begun \in [Sides -> BOOLEAN]
      /\ requests \in 0..MaxRequests /\ unusual \in BOOLEAN
  BY TypesOfMonitor
<1>3. PICK q : q = Script(s)
  OBVIOUS
<1>4. q \in Seq(HttpLines) /\ q # << >>
  BY <1>1, <1>2, <1>3 DEF Script, Monitor!Send
<1>5. q[1] \in HttpLines /\ Tail(q) \in Seq(HttpLines)
  BY <1>4, FirstAndRest
<1>6. PICK p : /\ p \in IF begun[s] THEN {"end"}
                        ELSE IF q[1] = Monitor!Unit THEN {"unit"} ELSE {"whole", "begin"}
               /\ input' = [from |-> s, line |-> q[1], part |-> p]
               /\ begun' = [begun EXCEPT ![s] = (p = "begin")]
  BY <1>1, <1>3 DEF Monitor!Send
<1>7. p \in {"whole", "begin", "end", "unit"}
  BY <1>6
<1>8. input' \in HttpPieces
  BY <1>5, <1>6, <1>7 DEF HttpPieces
<1>9. begun' \in [Sides -> BOOLEAN]
  BY <1>2, <1>6
<1>10. unusual' \in BOOLEAN
  BY <1>1 DEF Monitor!Send
<1>11. UNCHANGED <<state, phase, status, encoding, length, remaining, chunk, host_buffer,
                   requests>>
  BY <1>1 DEF Monitor!Send, Monitor!bodyVars
<1>12. host' \in Seq(HttpLines) /\ device' \in Seq(HttpLines)
  <2>1. Script(s)' \in Seq(HttpLines)
    BY <1>1, <1>3, <1>4, <1>5 DEF Monitor!Rest
  <2>2. CASE s = "host"
    <3>1. host' \in Seq(HttpLines)
      BY <2>1, <2>2 DEF Script
    <3>2. Script("device")' = Script("device")
      BY <1>1, <2>2 DEF Sides
    <3>3. QED
      BY <1>2, <3>1, <3>2 DEF Script
  <2>3. CASE s = "device"
    <3>1. device' \in Seq(HttpLines)
      BY <2>1, <2>3 DEF Script
    <3>2. Script("host")' = Script("host")
      BY <1>1, <2>3 DEF Sides
    <3>3. QED
      BY <1>2, <3>1, <3>2 DEF Script
  <2>4. QED
    BY <2>2, <2>3 DEF Sides
<1>13. NumbersTyped'
  BY <1>2, <1>11 DEF NumbersTyped
<1>14. QED
  BY <1>2, <1>8, <1>9, <1>10, <1>11, <1>12, <1>13, TypesOfMonitorNext

\* A new request leaves the types.
LEMMA AskedTyped ==
  ASSUME MonitorTypes, Monitor!NewRequest
  PROVE  MonitorTypes'
<1>1. PICK m \in Monitor!Methods, b \in Monitor!Bodies,
           r \in Monitor!Bodies \cup {Monitor!NoBody}, code \in {"ok", "fail"},
           early \in {<< >>, Monitor!Continue} :
        /\ host' = Monitor!Request(m, IF m = "POST" THEN b ELSE Monitor!NoBody)
        /\ device' = early \o Monitor!Response(m, code, r)
        /\ unusual' = (unusual \/ (m = "POST" /\ Monitor!Data(b) = << >>))
  BY DEF Monitor!NewRequest
<1>2. /\ requests < MaxRequests /\ requests' = requests + 1
      /\ UNCHANGED <<state, phase, status, encoding, length, remaining, chunk>>
      /\ UNCHANGED <<host_buffer, input, begun>>
  BY DEF Monitor!NewRequest, Monitor!monitorVars, Monitor!bodyVars
<1>3. /\ NumbersTyped /\ host_buffer \in Seq(PieceType)
      /\ input \in HttpPieces \cup {Monitor!None}
      /\ begun \in [Sides -> BOOLEAN] /\ requests \in 0..MaxRequests
  BY TypesOfMonitor
<1>4. PICK c \in AnyBody : c = IF m = "POST" THEN b ELSE Monitor!NoBody
  BY DEF AnyBody
<1>5. host' \in Seq(HttpLines)
  <2>1. host' = Monitor!Request(m, c)
    BY <1>1, <1>4
  <2>2. QED
    BY <2>1, RequestBuilt
<1>6. device' \in Seq(HttpLines)
  <2>1. r \in AnyBody
    BY DEF AnyBody
  <2>2. \A e \in {<< >>, Monitor!Continue} :
           \A w : w = e \o Monitor!Response(m, code, r) => w \in Seq(HttpLines)
    BY <2>1, ResponseBuilt
  <2>3. QED
    BY <1>1, <2>2
<1>7. requests' \in 0..MaxRequests
  <2>1. MaxRequests \in Nat
    BY MonitorFacts
  <2>2. QED
    BY <1>2, <1>3, <2>1
<1>8. unusual' \in BOOLEAN
  BY <1>1
<1>9. NumbersTyped'
  BY <1>2, <1>3 DEF NumbersTyped
<1>10. QED
  BY <1>2, <1>3, <1>5, <1>6, <1>7, <1>8, <1>9, TypesOfMonitorNext

\* The types of the monitor are an invariant of the parts, also of the states
\* after something unusual, of which MonitorInv says nothing.
LEMMA MonitorTypesAlways == PartsSpec => []MonitorTypes
<1>1. PartsInit => MonitorTypes
  <2>1. SUFFICES ASSUME PartsInit PROVE MonitorTypes
    OBVIOUS
  <2>2. unusual = FALSE
    BY <2>1 DEF PartsInit, Monitor!Init
  <2>3. QED
    BY <2>1, <2>2, MonitorStarts DEF MonitorInv
<1>2. MonitorTypes /\ [PartsNext]_partsVars => MonitorTypes'
  <2>1. SUFFICES ASSUME MonitorTypes, [PartsNext]_partsVars PROVE MonitorTypes'
    OBVIOUS
  <2>2. CASE UNCHANGED httpVars
    <3>1. UNCHANGED <<state, phase, status, encoding, length, remaining, chunk, host_buffer,
                      input, host, device, begun, requests, unusual>>
      BY <2>2 DEF httpVars
    <3>2. QED
      BY <2>1, <3>1 DEF MonitorTypes, Monitor!TypeOK
  <2>3. CASE Monitor!Next
    BY <2>1, <2>3, AskedTyped, SentTyped, SaidTyped DEF Monitor!Next
  <2>4. UNCHANGED httpVars \/ Monitor!Next
    BY <2>1 DEF PartsNext, Others, partsVars
  <2>5. QED
    BY <2>2, <2>3, <2>4
<1>3. QED
  BY <1>1, <1>2, PTL DEF PartsSpec

-----------------------------------------------------------------------------
(* PrintTickets and PrinterAttributes: what a printer says that it can do, *)
(* and what a job is printed with.                                         *)

DefaultNames ==
  {"media", "source", "color", "quality", "sides", "handling", "resolution", "bin",
   "content", "scaling", "orientation", "darkness", "speed"}

\* The values that a default may have: what the printer lists, and what forms and
\* ready media bring besides.
MayBeDefault(n, v) ==
  /\ n = "source"      => v \in Tickets!SourceNames
  /\ n = "media"       => v = 0 \/ driver.media = {} \/ Tickets!InRange(driver, v)
  /\ n = "color"       => v \in driver.color
  /\ n = "sides"       => v \in driver.sides \/ driver.sides = {}
  /\ n = "resolution"  => v \in Tickets!Resolutions(driver)
  /\ n = "bin"         => driver.bins = << >> \/ v \in DOMAIN driver.bins
  /\ n = "quality"     => v \in Tickets!Qualities \cup {"unknown", "other"}
  /\ n = "handling"    => v \in Tickets!AllHandlings
  /\ n = "content"     => v \in Tickets!Contents \cup {"unknown"}
  /\ n = "scaling"     => v \in Tickets!Scalings \cup {"unknown"}
  /\ n = "orientation" => v \in Tickets!Orientations
  /\ n = "speed"       => \/ v = 0 \/ ~Tickets!HasSpeed(driver)
                          \/ v \in driver.speed[1]..driver.speed[2]
                          \/ v \in 0..driver.speed[2]

AreDefaults(v) ==
  DOMAIN v = DefaultNames /\ \A n \in DefaultNames : MayBeDefault(n, v[n])

\* Every source has a size, be it none, and the name of a source.
AreReady(r) ==
  DOMAIN r = Tickets!Sources /\ \A s \in Tickets!Sources : r[s].source \in Tickets!SourceNames

\* What a job has kept of what was asked for.
TicketKept(t) ==
  \A n \in DOMAIN t : /\ <<n, t[n]>> \in Attrs
                      /\ ~Tickets!Wrong(n, t[n]) /\ Tickets!Supported(n, t[n])

TicketsInv ==
  /\ driver \in Drivers /\ Tickets!ValidDriver(driver) /\ edits \in 0..MaxEdits
  /\ AreDefaults(defaults)
  /\ AreReady(ready) /\ Tickets!ValidReady(driver, ready)
  /\ job \in {"none", "accepted", "refused", "printed"}
  /\ TicketKept(ticket)
  /\ DOMAIN doc \subseteq Tickets!Names
  /\ Tickets!OptionsSupported /\ Tickets!PagesHonoured

\* What is assumed of a driver.
LEMMA DriverFacts ==
  ASSUME NEW d \in Drivers
  PROVE  /\ d.media \subseteq Nat /\ d.color \subseteq Tickets!Colors
         /\ d.custom_min \in Nat /\ d.custom_max \in Nat
         /\ IF d.custom_min = 0 THEN d.custom_max = 0 ELSE d.custom_min < d.custom_max
         /\ d.bottom_top \in Int /\ d.left_right \in Int /\ d.borderless \in BOOLEAN
         /\ "none" \notin d.sides /\ d.resolutions \in Seq(Nat) /\ d.bins \in Seq(STRING)
         /\ d.speed[1] \in Int /\ d.speed[2] \in Int
BY DriverConstants DEF DriverConstants, DriverData

\* So is it of the defaults that a driver sets.
LEMMA DriverDefaultsFacts ==
  ASSUME NEW d \in Drivers
  PROVE  /\ DOMAIN d.defaults = DefaultNames
         /\ d.defaults["source"] \in Tickets!SourceNames
         /\ d.defaults["quality"] \in Tickets!Qualities
         /\ d.defaults["handling"] \in Tickets!AllHandlings
         /\ d.defaults["content"] \in Tickets!Contents
         /\ d.defaults["scaling"] \in Tickets!Scalings
         /\ d.defaults["orientation"] \in Tickets!Orientations
         /\ d.bins # << >> => d.defaults["bin"] \in DOMAIN d.bins
         /\ d.speed[2] # 0 => d.defaults["speed"] \in {0} \cup (d.speed[1]..d.speed[2])
         /\ AreReady(d.ready)
<1>1. /\ d.defaults \in DefaultsData
      /\ d.ready \in [Tickets!Sources -> [size : Nat, source : Tickets!SourceNames]]
      /\ d.bins # << >> => d.defaults.bin \in DOMAIN d.bins
      /\ d.speed[2] # 0 => d.defaults.speed \in {0} \cup (d.speed[1]..d.speed[2])
  BY DriverConstants DEF DriverConstants, DriverData
<1>2. QED
  BY <1>1 DEF DefaultsData, DefaultNames, AreReady

\* And of attributes.
LEMMA AttrFacts ==
  ASSUME NEW a \in Attrs
  PROVE  /\ a = <<a[1], a[2]>> /\ a[1] \in Tickets!Names
         /\ a[1] = "pages" => a[2].first \in Int /\ a[2].last \in Int
         /\ a[1] = "speed" => a[2] \in Int
BY AttrsConstants DEF AttrsConstants

\* A listed size is in a range of sizes.
LEMMA ListedInRange ==
  ASSUME NEW d \in Drivers, NEW m \in d.media
  PROVE  Tickets!InRange(d, m)
BY DriverFacts DEF Tickets!InRange

\* Defaults that pass the validation, with one more of them changed, are defaults.
LEMMA DefaultChanged ==
  ASSUME NEW v, AreDefaults(v), NEW n \in DefaultNames, NEW x, MayBeDefault(n, x)
  PROVE  AreDefaults([v EXCEPT ![n] = x])
BY DEF AreDefaults

\* What is advertised, attribute by attribute.
LEMMA AdvertisedValues ==
  ASSUME NEW d, NEW v
  PROVE  /\ Tickets!Advertised(d, "media", v) <=> v \in d.media
         /\ Tickets!Advertised(d, "color", v) <=> v \in d.color
         /\ Tickets!Advertised(d, "sides", v) <=> v \in Tickets!Sides(d)
         /\ Tickets!Advertised(d, "resolution", v) <=> v \in Tickets!Resolutions(d)
         /\ Tickets!Advertised(d, "bin", v) <=> v \in Tickets!Output(d)
         /\ Tickets!Advertised(d, "darkness", v) <=> d.darkness # 0
         /\ Tickets!Advertised(d, "speed", v)
              <=> Tickets!HasSpeed(d) /\ d.speed[1] <= v /\ v <= d.speed[2]
         /\ Tickets!Advertised(d, "handling", v) <=> v \in Tickets!AllHandlings
         /\ Tickets!Advertised(d, "content", v) <=> v \in Tickets!Contents
         /\ Tickets!Advertised(d, "quality", v) <=> v \in Tickets!Qualities
         /\ Tickets!Advertised(d, "scaling", v) <=> v \in Tickets!Scalings
         /\ Tickets!Advertised(d, "orientation", v) <=> v \in Tickets!Orientations
         /\ Tickets!Advertised(d, "copies", v) <=> v \in 1..999
         /\ Tickets!Advertised(d, "pages", v) <=> Tickets!PDFSupported(d)
BY DEF Tickets!Advertised

\* What a job may ask for and gets.
LEMMA SupportedValues ==
  ASSUME NEW v
  PROVE  /\ Tickets!Supported("media", v) <=> v \in driver.media
         /\ Tickets!Supported("color", v) <=> v \in driver.color
         /\ Tickets!Supported("sides", v) <=> v \in driver.sides
         /\ Tickets!Supported("resolution", v) <=> v \in Tickets!Resolutions(driver)
         /\ Tickets!Supported("handling", v) <=> v \in Tickets!Handlings
         /\ Tickets!Supported("content", v) <=> v \in Tickets!Contents
         /\ Tickets!Supported("orientation", v) <=> v \in Tickets!Orientations
         /\ Tickets!Supported("darkness", v) <=> driver.darkness # 0
         /\ Tickets!Supported("speed", v)
              <=> Tickets!HasSpeed(driver) /\ v \in driver.speed[1]..driver.speed[2]
         /\ \A n \in {"quality", "scaling", "copies", "pages", "bin"} :
              Tickets!Supported(n, v)
BY DEF Tickets!Supported

\* The cardinality that the module of a ticket takes is the one of sets.
LEMMA TicketCardinality ==
  \A S : Tickets!Cardinality(S) = Cardinality(S)
BY DEF Tickets!Cardinality, Cardinality, Tickets!IsFiniteSet, IsFiniteSet

\* What no job may ask for.
LEMMA WrongValues ==
  ASSUME NEW v
  PROVE  /\ Tickets!Wrong("copies", v) <=> v \notin 1..999
         /\ Tickets!Wrong("pages", v)
              <=> ~Tickets!PDFSupported(driver) \/ v.first < 1 \/ v.last < v.first
BY DEF Tickets!Wrong

\* The least number of a set.
LEMMA LeastOf ==
  ASSUME NEW S \in SUBSET Nat, S # {}
  PROVE  Tickets!First(S) \in S
<1>1. PICK R : IsWellFoundedOn(R, Nat) /\ \A a, b \in Nat : <<a, b>> \in R <=> a < b
  <2>1. \A a, b \in Nat : <<a, b>> \in OpToRel(<, Nat) <=> a < b
    BY DEF OpToRel
  <2>2. QED
    BY <2>1, NatLessThanWellFounded
<1>2. PICK s \in S : \A r \in S : ~(<<r, s>> \in R)
  <2>1. S \subseteq Nat /\ IsWellFoundedOn(R, Nat)
    BY <1>1
  <2>2. QED
    BY <2>1, WFMin, Zenon
<1>3. ASSUME NEW r \in S PROVE s <= r
  <2>1. r \in Nat /\ s \in Nat /\ ~(r < s)
    BY <1>1, <1>2
  <2>2. QED
    BY <2>1
<1>4. QED
  BY <1>3 DEF Tickets!First

\* A collection names a source, or leaves it as it is.
LEMMA Imported ==
  ASSUME NEW m, m.source \in Tickets!SourceNames,
         NEW col \in Cols \cup Tickets!SizesAlone
  PROVE  Tickets!Import(m, col).source \in Tickets!SourceNames
<1>1. CASE col \in Cols
  <2>1. col.source \in Tickets!SourceNames
    BY <1>1, AttrsConstants DEF AttrsConstants
  <2>2. QED
    BY <2>1 DEF Tickets!Import
<1>2. CASE col \in Tickets!SizesAlone
  BY <1>2 DEF Tickets!Import, Tickets!SizesAlone
<1>3. QED
  BY <1>1, <1>2

\* Defaults with other media are defaults, if the media may be there.
LEMMA MediaChanged ==
  ASSUME AreDefaults(defaults), NEW m, MayBeDefault("media", m.size),
         m.source \in Tickets!SourceNames
  PROVE  AreDefaults(Tickets!WithMedia(m))
<1>1. Tickets!WithMedia(m)
        = [[defaults EXCEPT !["media"] = m.size] EXCEPT !["source"] = m.source]
  BY DEF Tickets!WithMedia
<1>2. "media" \in DefaultNames /\ "source" \in DefaultNames
  BY DEF DefaultNames
<1>3. MayBeDefault("source", m.source)
  BY DEF MayBeDefault
<1>4. PICK v : v = [defaults EXCEPT !["media"] = m.size]
  OBVIOUS
<1>5. AreDefaults(v)
  BY <1>2, <1>4, DefaultChanged
<1>6. AreDefaults([v EXCEPT !["source"] = m.source])
  BY <1>2, <1>3, <1>5, DefaultChanged
<1>7. QED
  BY <1>1, <1>4, <1>6

\* What the form makes of a value may be there, if it passes the validation.
LEMMA FormValues ==
  ASSUME TicketsInv, NEW n \in Tickets!Posted, NEW x,
         n = "color" => Tickets!FormValue(n, x) \in driver.color,
         n = "sides" => Tickets!FormValue(n, x) \in driver.sides \/ driver.sides = {},
         n = "resolution" => Tickets!FormValue(n, x) \in Tickets!Resolutions(driver)
  PROVE  MayBeDefault(n, Tickets!FormValue(n, x))
<1>1. CASE n \in {"color", "sides", "resolution"}
  BY <1>1 DEF MayBeDefault
<1>2. CASE n = "content"
  BY <1>2 DEF MayBeDefault, Tickets!FormValue
<1>3. CASE n = "scaling"
  BY <1>3 DEF MayBeDefault, Tickets!FormValue
<1>4. CASE n = "quality"
  BY <1>4 DEF MayBeDefault, Tickets!FormValue
<1>5. CASE n = "orientation"
  <2>1. Tickets!FormValue(n, x) \in Tickets!Orientations
    BY <1>5 DEF Tickets!FormValue, Tickets!Orientations
  <2>2. QED
    BY <1>5, <2>1 DEF MayBeDefault
<1>6. CASE n = "speed"
  <2>1. Tickets!FormValue(n, x) = 0 \/ Tickets!FormValue(n, x) \in 0..driver.speed[2]
    BY <1>6 DEF Tickets!FormValue
  <2>2. QED
    BY <1>6, <2>1 DEF MayBeDefault
<1>7. QED
  BY <1>1, <1>2, <1>3, <1>4, <1>5, <1>6 DEF Tickets!Posted

\* So may what a request sets.
LEMMA TakenValue ==
  ASSUME NEW n, NEW x, n \notin {"source", "media", "bin", "scaling"},
         n = "sides" => x \in driver.sides,
         n = "speed" => x \in driver.speed[1]..driver.speed[2],
         n = "color" => x \in driver.color,
         n = "resolution" => x \in Tickets!Resolutions(driver),
         n = "handling" => x \in Tickets!AllHandlings,
         n = "content" => x \in Tickets!Contents,
         n = "quality" => x \in Tickets!Qualities,
         n = "orientation" => x \in Tickets!Orientations
  PROVE  MayBeDefault(n, x)
BY DEF MayBeDefault

\* What a form or a request makes of the defaults, if it passes the validation, are
\* defaults.
LEMMA EditedDefaults ==
  ASSUME TicketsInv, NEW v \in Tickets!Edited, Tickets!ValidDefaults(driver, v)
  PROVE  AreDefaults(v)
<1>1. /\ AreDefaults(defaults) /\ DOMAIN defaults = DefaultNames /\ driver \in Drivers
      /\ \A s \in Tickets!Sources :
           ready[s].size = 0 \/ Tickets!InRange(driver, ready[s].size)
      /\ \A s \in Tickets!Sources : ready[s].source \in Tickets!SourceNames
  BY DEF TicketsInv, AreDefaults, AreReady, Tickets!ValidReady
<1>2. CASE v \in Tickets!SetMedia
  <2> DEFINE m == [size |-> defaults.media, source |-> defaults.source]
  <2>1. PICK col \in Cols \cup Tickets!SizesAlone :
          v = Tickets!WithMedia(Tickets!Import(m, col))
    BY <1>2 DEF Tickets!SetMedia
  <2>2. PICK n : n = Tickets!Import(m, col)
    OBVIOUS
  <2>3. v["media"] = n.size
    <3>1. "media" \in DefaultNames /\ "media" # "source"
      BY DEF DefaultNames
    <3>2. v = [defaults EXCEPT !["media"] = n.size, !["source"] = n.source]
      BY <2>1, <2>2 DEF Tickets!WithMedia
    <3>3. QED
      BY <1>1, <3>1, <3>2
  <2>4. driver.media = {} \/ Tickets!InRange(driver, n.size)
    BY <1>1, <2>3, ListedInRange DEF Tickets!ValidDefaults
  <2>5. MayBeDefault("media", n.size)
    BY <2>4 DEF MayBeDefault
  <2>6. defaults["source"] \in Tickets!SourceNames
    <3>1. MayBeDefault("source", defaults["source"])
      BY <1>1 DEF AreDefaults, DefaultNames
    <3>2. QED
      BY <3>1 DEF MayBeDefault
  <2>7. n.source \in Tickets!SourceNames
    BY <2>1, <2>2, <2>6, Imported
  <2>8. QED
    BY <1>1, <2>1, <2>2, <2>5, <2>7, MediaChanged
<1>3. CASE v \in Tickets!SetOthers
  <2>1. PICK a \in Attrs :
          /\ a[1] \in DefaultNames \ {"media", "bin", "scaling"}
          /\ Tickets!Taken(a[1], a[2])
          /\ v = [defaults EXCEPT ![a[1]] = a[2]]
    BY <1>1, <1>3 DEF Tickets!SetOthers
  <2>2. PICK n, x : n = a[1] /\ x = a[2]
    OBVIOUS
  <2>3. n \in Tickets!Names /\ (n = "speed" => x \in Int)
    BY <2>2, AttrFacts
  <2>4. n # "source"
    BY <2>3 DEF Tickets!Names, Tickets!Plain
  <2>5. Tickets!Taken(n, x)
    BY <2>1, <2>2
  <2>6. n = "sides" => x \in driver.sides
    BY <2>5 DEF Tickets!Taken
  <2>7. n = "speed" => x \in driver.speed[1]..driver.speed[2]
    <3>1. n = "speed" => driver.speed[1] <= x /\ x <= driver.speed[2]
      BY <2>5 DEF Tickets!Taken
    <3>2. QED
      BY <1>1, <2>3, <3>1, DriverFacts
  <2>8. n \notin {"sides", "speed", "darkness"} => Tickets!Advertised(driver, n, x)
    BY <2>5 DEF Tickets!Taken
  <2>9. /\ n = "color" => x \in driver.color
        /\ n = "resolution" => x \in Tickets!Resolutions(driver)
        /\ n = "handling" => x \in Tickets!AllHandlings
        /\ n = "content" => x \in Tickets!Contents
        /\ n = "quality" => x \in Tickets!Qualities
        /\ n = "orientation" => x \in Tickets!Orientations
    BY <2>8, AdvertisedValues
  <2>10. MayBeDefault(n, x)
    BY <2>1, <2>2, <2>4, <2>6, <2>7, <2>9, TakenValue
  <2>11. QED
    BY <1>1, <2>1, <2>2, <2>10, DefaultChanged
<1>4. CASE v \in Tickets!SetBin
  <2>1. PICK i \in DOMAIN driver.bins : v = [defaults EXCEPT !["bin"] = i]
    BY <1>4 DEF Tickets!SetBin
  <2>2. "bin" \in DefaultNames /\ MayBeDefault("bin", i)
    BY DEF DefaultNames, MayBeDefault
  <2>3. QED
    BY <1>1, <2>1, <2>2, DefaultChanged
<1>5. CASE v \in Tickets!DefaultsForm
  <2>1. CASE v \in {Tickets!WithMedia(ready[s]) : s \in Tickets!Sources}
    <3>1. PICK s \in Tickets!Sources : v = Tickets!WithMedia(ready[s])
      BY <2>1
    <3>2. MayBeDefault("media", ready[s].size)
      BY <1>1 DEF MayBeDefault
    <3>3. QED
      BY <1>1, <3>1, <3>2, MediaChanged
  <2>2. CASE v \in {[defaults EXCEPT ![a[1]] = Tickets!FormValue(a[1], a[2])] :
                   a \in {b \in Attrs : b[1] \in Tickets!Posted}}
    <3>1. PICK n \in Tickets!Posted :
            \E x : v = [defaults EXCEPT ![n] = Tickets!FormValue(n, x)]
      BY <2>2
    <3> PICK x : v = [defaults EXCEPT ![n] = Tickets!FormValue(n, x)]
      BY <3>1
    <3>2. n \in DefaultNames
      BY DEF Tickets!Posted, DefaultNames
    <3>3. v[n] = Tickets!FormValue(n, x)
      BY <1>1, <3>1, <3>2
    <3>4. /\ n = "color" => v[n] \in driver.color
          /\ n = "sides" => v[n] \in driver.sides \/ driver.sides = {}
          /\ n = "resolution" => v[n] \in Tickets!Resolutions(driver)
      BY DEF Tickets!ValidDefaults
    <3>5. MayBeDefault(n, Tickets!FormValue(n, x))
      BY <3>3, <3>4, FormValues
    <3>6. QED
      BY <1>1, <3>1, <3>2, <3>5, DefaultChanged
  <2>3. CASE v = [defaults EXCEPT !.sides = "none"]
    <3>1. v = [defaults EXCEPT !["sides"] = "none"] /\ "sides" \in DefaultNames
      BY <2>3 DEF DefaultNames
    <3>2. v["sides"] = "none"
      BY <1>1, <3>1
    <3>3. MayBeDefault("sides", "none")
      BY <3>2 DEF MayBeDefault, Tickets!ValidDefaults
    <3>4. QED
      BY <1>1, <3>1, <3>3, DefaultChanged
  <2>4. QED
    BY <1>5, <2>1, <2>2, <2>3 DEF Tickets!DefaultsForm
<1>6. QED
  BY <1>2, <1>3, <1>4, <1>5 DEF Tickets!Edited

\* Whatever a request or the form makes of the ready media, each source has the
\* name of a source.
LEMMA EditedReady ==
  ASSUME TicketsInv, NEW r \in Tickets!SetReady \cup Tickets!MediaForm
  PROVE  AreReady(r)
<1>1. /\ \A s \in Tickets!Sources : ready[s].source \in Tickets!SourceNames
      /\ \A s \in Tickets!Sources : s \in Tickets!SourceNames
      /\ 0 \in Tickets!SourceNames
  BY DriverConstants
  DEF DriverConstants, TicketsInv, AreReady, Tickets!Sources, Tickets!SourceNames
<1>2. CASE r \in {[s \in Tickets!Sources |->
                     IF s \in DOMAIN q THEN Tickets!Import(ready[s], q[s])
                     ELSE Tickets!Empty] : q \in Tickets!Named(Cols)}
  <2>1. PICK q \in Tickets!Named(Cols) :
          r = [s \in Tickets!Sources |->
                 IF s \in DOMAIN q THEN Tickets!Import(ready[s], q[s]) ELSE Tickets!Empty]
    BY <1>2
  <2>2. \A s \in DOMAIN q : q[s] \in Cols
    BY DEF Tickets!Named
  <2>3. \A s \in Tickets!Sources : r[s].source \in Tickets!SourceNames
    BY <1>1, <2>1, <2>2, Imported DEF Tickets!Empty
  <2>4. QED
    BY <2>1, <2>3 DEF AreReady
<1>3. CASE r \in {[s \in Tickets!Sources |->
                     IF s \in DOMAIN q THEN Tickets!Import(ready[s], q[s])
                     ELSE [ready[s] EXCEPT !.size = 0]] :
                    q \in Tickets!Named(Tickets!SizesAlone)}
  <2>1. PICK q \in Tickets!Named(Tickets!SizesAlone) :
          r = [s \in Tickets!Sources |->
                 IF s \in DOMAIN q THEN Tickets!Import(ready[s], q[s])
                 ELSE [ready[s] EXCEPT !.size = 0]]
    BY <1>3
  <2>2. \A s \in DOMAIN q : q[s] \in Tickets!SizesAlone
    BY DEF Tickets!Named
  <2>3. \A s \in Tickets!Sources : r[s].source \in Tickets!SourceNames
    BY <1>1, <2>1, <2>2, Imported
  <2>4. QED
    BY <2>1, <2>3 DEF AreReady
<1>4. CASE r \in Tickets!MediaForm
  <2>1. /\ DOMAIN r = Tickets!Sources
        /\ \A s \in Tickets!Sources : r[s] = Tickets!Empty \/ r[s].source = s
    BY <1>4 DEF Tickets!MediaForm
  <2>2. QED
    BY <1>1, <2>1 DEF AreReady, Tickets!Empty
<1>5. QED
  BY <1>2, <1>3, <1>4 DEF Tickets!SetReady

\* The default media that ready media bring is of a size that may be there.
LEMMA ReadyDefaults ==
  ASSUME TicketsInv, NEW r, Tickets!ValidReady(driver, r), Tickets!SetReadyMedia(r)
  PROVE  AreDefaults(defaults')
<1> DEFINE its == {s \in Tickets!Sources : r[s].source = defaults.source}
<1>1. AreDefaults(defaults)
  BY DEF TicketsInv
<1>2. CASE its = {}
  <2>1. defaults' = defaults
    BY <1>2 DEF Tickets!SetReadyMedia
  <2>2. QED
    BY <1>1, <2>1 DEF AreDefaults
<1>3. CASE its # {}
  <2>1. PICK s : s = Tickets!First(its)
    OBVIOUS
  <2>2. s \in Tickets!Sources
    <3>1. its \in SUBSET Nat
      BY DriverConstants DEF DriverConstants, Tickets!Sources
    <3>2. QED
      BY <1>3, <2>1, <3>1, LeastOf
  <2>3. defaults' = [defaults EXCEPT !["media"] = r[s].size]
    BY <1>3, <2>1 DEF Tickets!SetReadyMedia
  <2>4. "media" \in DefaultNames /\ MayBeDefault("media", r[s].size)
    BY <2>2 DEF DefaultNames, MayBeDefault, Tickets!ValidReady
  <2>5. AreDefaults([defaults EXCEPT !["media"] = r[s].size])
    BY <1>1, <2>4, DefaultChanged
  <2>6. QED
    BY <2>3, <2>5
<1>4. QED
  BY <1>2, <1>3

\* A job that is not refused keeps what is right and supported.
LEMMA TicketMade ==
  ASSUME NEW t \in Tickets!With(Attrs) \cup {Tickets!NoAttrs}, NEW exact \in BOOLEAN,
         ~Tickets!Refused(t, exact)
  PROVE  TicketKept(Tickets!Kept(t))
<1>1. \A n \in DOMAIN t : <<n, t[n]>> \in Attrs
  <2>1. CASE t = Tickets!NoAttrs
    BY <2>1 DEF Tickets!NoAttrs
  <2>2. CASE t \in Tickets!With(Attrs)
    <3>1. PICK a \in Attrs : t = [n \in {a[1]} |-> a[2]]
      BY <2>2 DEF Tickets!With
    <3>2. QED
      BY <3>1, AttrFacts
  <2>3. QED
    BY <2>1, <2>2
<1>2. QED
  BY <1>1 DEF TicketKept, Tickets!Kept, Tickets!Refused, Tickets!Unsupported

\* What documents bring has names of attributes.
LEMMA DocumentNames ==
  ASSUME NEW t \in Tickets!With(DocAttrs)
  PROVE  DOMAIN t \subseteq Tickets!Names
<1>1. PICK a \in DocAttrs : t = [n \in {a[1]} |-> a[2]]
  BY DEF Tickets!With
<1>2. QED
  BY <1>1, AttrsConstants DEF AttrsConstants

\* One attribute: it is accepted if and only if it is advertised, but for what is
\* named.
LEMMA AcceptedValue ==
  ASSUME driver \in Drivers, NEW n \in Tickets!Names, NEW v,
         n = "pages" => v.first \in Int /\ v.last \in Int,
         n = "speed" => v \in Int
  PROVE  LET writable   == CASE n = "pages"    -> v.first \in 1..v.last
                             [] n = "darkness" -> v \in -100..100
                             [] OTHER          -> TRUE
             kept       == ~Tickets!Wrong(n, v) /\ Tickets!Supported(n, v)
             advertised == Tickets!Advertised(driver, n, v)
         IN /\ kept => advertised \/ n = "bin"
            /\ advertised /\ writable =>
                 kept \/ (n = "handling" /\ v \notin Tickets!Handlings)
                          \/ (n = "sides" /\ driver.sides = {})
            /\ advertised =>
                 \/ n \in Tickets!JobCreation(driver) \cup {"scaling"}
                 \/ n = "sides" /\ driver.sides \in {{}, {"one-sided"}}
                 \/ n = "bin" /\ driver.bins = << >>
<1> DEFINE writable   == CASE n = "pages"    -> v.first \in 1..v.last
                           [] n = "darkness" -> v \in -100..100
                           [] OTHER          -> TRUE
           kept       == ~Tickets!Wrong(n, v) /\ Tickets!Supported(n, v)
           advertised == Tickets!Advertised(driver, n, v)
           goal == /\ kept => advertised \/ n = "bin"
                   /\ advertised /\ writable =>
                        kept \/ (n = "handling" /\ v \notin Tickets!Handlings)
                                 \/ (n = "sides" /\ driver.sides = {})
                   /\ advertised =>
                        \/ n \in Tickets!JobCreation(driver) \cup {"scaling"}
                        \/ n = "sides" /\ driver.sides \in {{}, {"one-sided"}}
                        \/ n = "bin" /\ driver.bins = << >>
<1>1. driver.speed[1] \in Int /\ driver.speed[2] \in Int
  BY DriverFacts
<1>2. CASE n \in {"media", "color", "resolution", "content", "orientation"}
  <2>1. ~Tickets!Wrong(n, v)
    BY <1>2 DEF Tickets!Wrong
  <2>2. n \in Tickets!JobCreation(driver)
    BY <1>2 DEF Tickets!JobCreation
  <2>3. kept <=> advertised
    BY <1>2, <2>1, AdvertisedValues, SupportedValues
  <2>4. QED
    BY <2>2, <2>3
<1>3. CASE n = "handling"
  <2>1. ~Tickets!Wrong(n, v) /\ n \in Tickets!JobCreation(driver)
    BY <1>3 DEF Tickets!Wrong, Tickets!JobCreation
  <2>2. v \in Tickets!Handlings => v \in Tickets!AllHandlings
    BY DEF Tickets!AllHandlings
  <2>3. QED
    BY <1>3, <2>1, <2>2, AdvertisedValues, SupportedValues
<1>4. CASE n = "sides"
  <2>1. ~Tickets!Wrong(n, v)
    BY <1>4 DEF Tickets!Wrong
  <2>2. driver.sides # {} => Tickets!Sides(driver) = driver.sides
    BY DEF Tickets!Sides
  <2>3. v \in driver.sides => driver.sides # {}
    OBVIOUS
  <2>4. driver.sides # {"one-sided"} => n \in Tickets!JobCreation(driver)
    BY <1>4 DEF Tickets!JobCreation, Tickets!When
  <2>5. QED
    BY <1>4, <2>1, <2>2, <2>3, <2>4, AdvertisedValues, SupportedValues
<1>5. CASE n = "bin"
  <2>1. ~Tickets!Wrong(n, v) /\ Tickets!Supported(n, v)
    BY <1>5, SupportedValues DEF Tickets!Wrong
  <2>2. driver.bins # << >> => n \in Tickets!JobCreation(driver)
    BY <1>5 DEF Tickets!JobCreation, Tickets!When
  <2>3. QED
    BY <1>5, <2>1, <2>2
<1>6. CASE n = "darkness"
  <2>1. Tickets!Wrong(n, v) <=> v \notin -100..100
    BY <1>6 DEF Tickets!Wrong
  <2>2. driver.darkness # 0 => n \in Tickets!JobCreation(driver)
    BY <1>6 DEF Tickets!JobCreation, Tickets!When
  <2>3. QED
    BY <1>6, <2>1, <2>2, AdvertisedValues, SupportedValues
<1>7. CASE n = "speed"
  <2>1. ~Tickets!Wrong(n, v)
    BY <1>7 DEF Tickets!Wrong
  <2>2. Tickets!HasSpeed(driver) => n \in Tickets!JobCreation(driver)
    BY <1>7 DEF Tickets!JobCreation, Tickets!When
  <2>3. v \in driver.speed[1]..driver.speed[2] <=> driver.speed[1] <= v /\ v <= driver.speed[2]
    BY <1>1, <1>7
  <2>4. QED
    BY <1>7, <2>1, <2>2, <2>3, AdvertisedValues, SupportedValues
<1>8. CASE n = "quality"
  <2>1. /\ Tickets!Wrong(n, v) <=> v \notin Tickets!Qualities
        /\ n \in Tickets!JobCreation(driver)
    BY <1>8 DEF Tickets!Wrong, Tickets!JobCreation
  <2>2. QED
    BY <1>8, <2>1, AdvertisedValues, SupportedValues
<1>9. CASE n = "scaling"
  <2>1. Tickets!Wrong(n, v) <=> v \notin Tickets!Scalings
    BY <1>9 DEF Tickets!Wrong
  <2>2. QED
    BY <1>9, <2>1, AdvertisedValues, SupportedValues
<1>10. CASE n = "copies"
  <2>1. /\ Tickets!Wrong(n, v) <=> v \notin 1..999
        /\ n \in Tickets!JobCreation(driver)
    BY <1>10 DEF Tickets!Wrong, Tickets!JobCreation
  <2>2. QED
    BY <1>10, <2>1, AdvertisedValues, SupportedValues
<1>11. CASE n = "pages"
  <2>1. Tickets!Wrong(n, v)
          <=> (~Tickets!PDFSupported(driver) \/ v.first < 1 \/ v.last < v.first)
    BY <1>11 DEF Tickets!Wrong
  <2>2. Tickets!PDFSupported(driver) => n \in Tickets!JobCreation(driver)
    BY <1>11 DEF Tickets!JobCreation, Tickets!When
  <2>3. v.first \in 1..v.last => ~(v.first < 1) /\ ~(v.last < v.first)
    BY <1>11
  <2>4. QED
    BY <1>11, <2>1, <2>2, <2>3, AdvertisedValues, SupportedValues
<1>12. goal
  BY <1>2, <1>3, <1>4, <1>5, <1>6, <1>7, <1>8, <1>9, <1>10, <1>11
  DEF Tickets!Names, Tickets!Plain
<1>13. QED
  BY <1>12

\* What a printer lists as supported is accepted for a job.
LEMMA AcceptsAdvertised ==
  ASSUME TicketsInv
  PROVE  Tickets!AdvertisedAccepted
<1>1. ASSUME NEW a \in Attrs
      PROVE  /\ a[1] \in Tickets!Names
             /\ a[1] = "pages" => a[2].first \in Int /\ a[2].last \in Int
             /\ a[1] = "speed" => a[2] \in Int
  BY AttrFacts
<1>2. driver \in Drivers
  BY DEF TicketsInv
<1>3. QED
  BY <1>1, <1>2, AcceptedValue DEF Tickets!AdvertisedAccepted

\* The defaults that are reported are listed, but for what is named.
LEMMA ReportsListed ==
  ASSUME TicketsInv
  PROVE  Tickets!DefaultsAdvertised
<1>1. /\ driver \in Drivers
      /\ \A n \in DefaultNames : MayBeDefault(n, defaults[n])
  BY DEF TicketsInv, AreDefaults
<1>2. SUFFICES ASSUME NEW r \in Tickets!Reported(driver, defaults)
               PROVE  \/ Tickets!Advertised(driver, r[1], r[2])
                      \/ r[1] = "media" /\ (driver.media = {} \/ Tickets!InRange(driver, r[2]))
                      \/ r[1] = "sides" /\ driver.sides = {}
                      \/ r = <<"quality", "other">>
                      \/ r[1] = "speed" /\ r[2] \in {0} \cup (0..driver.speed[1])
  BY DEF Tickets!DefaultsAdvertised
<1>3. CASE r \in {<<n, defaults[n]>> : n \in {"color", "handling", "orientation",
                                            "resolution"}}
  <2>1. PICK n \in {"color", "handling", "orientation", "resolution"} :
          r = <<n, defaults[n]>>
    BY <1>3
  <2>2. MayBeDefault(n, defaults[n])
    BY <1>1, <2>1 DEF DefaultNames
  <2>3. Tickets!Advertised(driver, n, defaults[n])
    BY <2>1, <2>2, AdvertisedValues DEF MayBeDefault
  <2>4. QED
    BY <2>1, <2>3
<1>4. CASE r = <<"media", defaults["media"]>> /\ defaults["media"] # 0
  <2>1. MayBeDefault("media", defaults["media"])
    BY <1>1 DEF DefaultNames
  <2>2. QED
    BY <1>4, <2>1 DEF MayBeDefault
<1>5. CASE r = <<"bin", IF driver.bins # << >> THEN driver.bins[defaults["bin"]]
                        ELSE CHOOSE o \in Tickets!Output(driver) : TRUE>>
  <2>1. CASE driver.bins # << >>
    <3>1. MayBeDefault("bin", defaults["bin"])
      BY <1>1 DEF DefaultNames
    <3>2. r[2] \in Tickets!Output(driver)
      BY <1>5, <2>1, <3>1 DEF Tickets!Output, MayBeDefault
    <3>3. QED
      BY <1>5, <3>2, AdvertisedValues
  <2>2. CASE driver.bins = << >>
    <3>1. \E o : o \in Tickets!Output(driver)
      BY <2>2 DEF Tickets!Output
    <3>2. r[2] \in Tickets!Output(driver)
      BY <1>5, <2>2, <3>1
    <3>3. QED
      BY <1>5, <3>2, AdvertisedValues
  <2>3. QED
    BY <2>1, <2>2
<1>6. CASE r = <<"sides", IF defaults["sides"] = "none" THEN "one-sided" ELSE defaults["sides"]>>
  <2>1. MayBeDefault("sides", defaults["sides"]) /\ "none" \notin driver.sides
    BY <1>1, DriverFacts DEF DefaultNames
  <2>2. CASE driver.sides # {}
    <3>1. r[2] \in driver.sides
      BY <1>6, <2>1, <2>2 DEF MayBeDefault
    <3>2. r[2] \in Tickets!Sides(driver)
      BY <2>2, <3>1 DEF Tickets!Sides
    <3>3. QED
      BY <1>6, <3>2, AdvertisedValues
  <2>3. QED
    BY <1>6, <2>2
<1>7. CASE r = <<"darkness", defaults["darkness"]>> /\ driver.darkness # 0
  BY <1>7, AdvertisedValues
<1>8. CASE r = <<"speed", defaults["speed"]>> /\ Tickets!HasSpeed(driver)
  <2>1. MayBeDefault("speed", defaults["speed"])
    BY <1>1 DEF DefaultNames
  <2>2. /\ driver.speed[1] \in Int /\ driver.speed[2] \in Int
        /\ \/ defaults["speed"] = 0
           \/ defaults["speed"] \in driver.speed[1]..driver.speed[2]
           \/ defaults["speed"] \in 0..driver.speed[2]
    BY <1>1, <1>8, <2>1, DriverFacts DEF MayBeDefault
  <2>3. CASE defaults["speed"] \in {0} \cup (0..driver.speed[1])
    BY <1>8, <2>3
  <2>4. CASE defaults["speed"] \notin {0} \cup (0..driver.speed[1])
    <3>1. driver.speed[1] <= defaults["speed"] /\ defaults["speed"] <= driver.speed[2]
      BY <2>2, <2>4
    <3>2. QED
      BY <1>8, <3>1, AdvertisedValues
  <2>5. QED
    BY <2>3, <2>4
<1>9. CASE r = <<"content", Tickets!Known(defaults["content"], "auto")>>
  <2>1. MayBeDefault("content", defaults["content"])
    BY <1>1 DEF DefaultNames
  <2>2. Tickets!Known(defaults["content"], "auto") \in Tickets!Contents
    BY <2>1 DEF MayBeDefault, Tickets!Known, Tickets!Contents
  <2>3. QED
    BY <1>9, <2>2, AdvertisedValues
<1>10. CASE r = <<"scaling", Tickets!Known(defaults["scaling"], "auto")>>
  <2>1. MayBeDefault("scaling", defaults["scaling"])
    BY <1>1 DEF DefaultNames
  <2>2. Tickets!Known(defaults["scaling"], "auto") \in Tickets!Scalings
    BY <2>1 DEF MayBeDefault, Tickets!Known, Tickets!Scalings
  <2>3. QED
    BY <1>10, <2>2, AdvertisedValues
<1>11. CASE r = <<"quality", Tickets!Known(defaults["quality"], "normal")>>
  <2>1. MayBeDefault("quality", defaults["quality"])
    BY <1>1 DEF DefaultNames
  <2>2. Tickets!Known(defaults["quality"], "normal") \in Tickets!Qualities \cup {"other"}
    BY <2>1 DEF MayBeDefault, Tickets!Known, Tickets!Qualities
  <2>3. QED
    BY <1>11, <2>2, AdvertisedValues
<1>12. QED
  BY <1>2, <1>3, <1>4, <1>5, <1>6, <1>7, <1>8, <1>9, <1>10, <1>11
  DEF Tickets!Reported, Tickets!When

\* Custom sizes are listed by their range.
LEMMA RangeListed ==
  ASSUME NEW d \in Drivers, d.custom_min # 0, d.custom_min < d.custom_max
  PROVE  <<d.custom_min, d.custom_max>> \in Tickets!MediaSizes(d)
<1>1. PICK least, most \in Nat : least = d.custom_min /\ most = d.custom_max
  BY DriverFacts
<1>2. Tickets!Custom(d) = {least, most}
  BY <1>1 DEF Tickets!Custom
<1>3. most \notin {least} /\ IsFiniteSet({least}) /\ Cardinality({least}) = 1
  BY <1>1, FS_Singleton
<1>4. Cardinality({least} \cup {most}) = 1 + 1
  BY <1>3, FS_AddElement
<1>5. {least} \cup {most} = {least, most}
  OBVIOUS
<1>6. Cardinality(Tickets!Custom(d)) = 2
  BY <1>2, <1>4, <1>5
<1>7. Tickets!When(Cardinality(Tickets!Custom(d)) = 2, {<<d.custom_min, d.custom_max>>})
        \subseteq Tickets!MediaSizes(d)
  BY TicketCardinality, Zenon DEF Tickets!MediaSizes
<1>8. <<d.custom_min, d.custom_max>>
        \in Tickets!When(Cardinality(Tickets!Custom(d)) = 2,
                         {<<d.custom_min, d.custom_max>>})
  BY <1>6 DEF Tickets!When
<1>9. QED
  BY <1>7, <1>8

\* Ready media have their entry in the database of media, but for what is named.
LEMMA ReadyListed ==
  ASSUME TicketsInv
  PROVE  Tickets!ReadyInDatabase
<1>1. /\ driver \in Drivers /\ driver.bottom_top \in Nat /\ driver.left_right \in Nat
      /\ driver.media \subseteq Nat /\ driver.borderless \in BOOLEAN
      /\ driver.custom_min \in Nat /\ driver.custom_max \in Nat
      /\ IF driver.custom_min = 0 THEN driver.custom_max = 0
                                  ELSE driver.custom_min < driver.custom_max
  BY DriverFacts DEF TicketsInv, Tickets!ValidDriver
<1>2. SUFFICES ASSUME NEW m \in Tickets!MediaColReady(driver, ready), m.size \in driver.media,
                      ~(driver.borderless /\ ((driver.bottom_top = 0) # (driver.left_right = 0)))
               PROVE  \E e \in Tickets!MediaColDatabase(driver) :
                        /\ e.size[1] <= m.size /\ m.size <= e.size[2]
                        /\ <<e.bottom_top, e.left_right>> = <<m.bottom_top, m.left_right>>
  BY DEF Tickets!ReadyInDatabase
<1>3. PICK s \in Tickets!MediaSizes(driver) :
        s[1] <= m.size /\ m.size <= s[2]
  <2>1. CASE m.size \notin Tickets!Custom(driver)
    <3>1. <<m.size, m.size>> \in Tickets!MediaSizes(driver)
      BY <1>2, <2>1 DEF Tickets!MediaSizes
    <3>2. m.size <= m.size
      BY <1>1, <1>2
    <3>3. QED
      BY <3>1, <3>2
  <2>2. CASE m.size \in Tickets!Custom(driver)
    <3>1. /\ driver.custom_min # 0 /\ driver.custom_max # 0
          /\ driver.custom_min < driver.custom_max
          /\ m.size = driver.custom_min \/ m.size = driver.custom_max
      BY <1>1, <2>2 DEF Tickets!Custom
    <3>2. <<driver.custom_min, driver.custom_max>> \in Tickets!MediaSizes(driver)
      BY <1>1, <3>1, RangeListed
    <3>3. QED
      BY <1>1, <3>1, <3>2
  <2>3. QED
    BY <2>1, <2>2
<1>4. \/ m.bottom_top = driver.bottom_top /\ m.left_right = driver.left_right
      \/ /\ m.bottom_top = 0 /\ m.left_right = 0
         /\ driver.borderless /\ (driver.bottom_top # 0 \/ driver.left_right # 0)
  <2>1. PICK x : m \in {Tickets!MediaCol(x, driver.bottom_top, driver.left_right)} \cup
                   Tickets!When(driver.borderless
                                  /\ (driver.bottom_top # 0 \/ driver.left_right # 0),
                                {Tickets!MediaCol(x, 0, 0)})
    BY DEF Tickets!MediaColReady
  <2>2. QED
    BY <2>1 DEF Tickets!When, Tickets!MediaCol
<1>5. CASE m.bottom_top = driver.bottom_top /\ m.left_right = driver.left_right
  <2>1. Tickets!MediaCol(s, driver.bottom_top, driver.left_right)
          \in Tickets!MediaColDatabase(driver)
    BY <1>3 DEF Tickets!MediaColDatabase
  <2>2. QED
    BY <1>3, <1>5, <2>1 DEF Tickets!MediaCol
<1>6. CASE /\ m.bottom_top = 0 /\ m.left_right = 0
           /\ driver.borderless /\ (driver.bottom_top # 0 \/ driver.left_right # 0)
  <2>1. driver.bottom_top > 0 /\ driver.left_right > 0
    BY <1>1, <1>2, <1>6
  <2>2. Tickets!MediaCol(s, 0, 0) \in Tickets!MediaColDatabase(driver)
    BY <1>3, <1>6, <2>1 DEF Tickets!MediaColDatabase, Tickets!When
  <2>3. QED
    BY <1>3, <1>6, <2>2 DEF Tickets!MediaCol
<1>7. QED
  BY <1>4, <1>5, <1>6

\* The margins of the database are listed.
LEMMA MarginsInLists == Tickets!MarginsListed
BY DEF Tickets!MarginsListed, Tickets!MediaColDatabase, Tickets!MediaCol, Tickets!When,
       Tickets!BottomTops, Tickets!LeftRights

\* No format is advertised that nothing becomes of.
LEMMA FormatsUsed == Tickets!FormatsProcessed
<1>1. ASSUME NEW f \in Tickets!Filtered(driver)
      PROVE  Tickets!CanFilter(f, driver.format) \/ Tickets!CanFilter(f, "pwg-raster")
  <2>1. PICK g \in Filters : g[2] \in {driver.format, "pwg-raster"} /\ f = g[1]
    BY DEF Tickets!Filtered
  <2>2. g = <<g[1], g[2]>>
    BY AttrsConstants DEF AttrsConstants
  <2>3. QED
    BY <2>1, <2>2 DEF Tickets!CanFilter
<1>2. \A f \in Tickets!Commands(driver) : Tickets!Processed(driver, f)
  BY <1>1 DEF Tickets!Commands, Tickets!DocumentFormats, Tickets!Processed, Tickets!Streamed
<1>3. Tickets!PreferredFormat(driver) \in Tickets!DocumentFormats(driver)
  BY DEF Tickets!PreferredFormat, Tickets!DocumentFormats
<1>4. QED
  BY <1>2, <1>3 DEF Tickets!FormatsProcessed

\* What may be set is in the table and is changed, but for four names.
LEMMA SettableSet == Tickets!SettableChanged
BY DEF Tickets!SettableChanged, Tickets!Settable, Tickets!When, Tickets!Table, Tickets!Changed

\* Each URI has its authentication.
LEMMA URIsHaveTheirs == Tickets!URIsAuthenticated
<1>1. SUFFICES ASSUME NEW s \in Tickets!Settings
               PROVE  \/ /\ Len(Tickets!Authentication(s)) = Len(Tickets!URIs(s))
                         /\ \A i \in DOMAIN Tickets!URIs(s) :
                              Tickets!Authentication(s)[i] = Tickets!XRI(s)[Tickets!URIs(s)[i]]
                      \/ s.no_tls /\ s.tls_only /\ ~s.local
  BY DEF Tickets!URIsAuthenticated
<1>2. ASSUME NEW a, NEW b
      PROVE  /\ <<a>> \o << >> = <<a>> /\ << >> \o <<a>> = <<a>>
             /\ <<a>> \o <<b>> = <<a, b>>
  <2>1. <<a>> \in Seq({a, b}) /\ <<b>> \in Seq({a, b})
    OBVIOUS
  <2>2. <<a>> \o << >> = <<a>> /\ << >> \o <<a>> = <<a>>
    BY <2>1, ConcatEmptySeq
  <2>3. /\ <<a>> \o <<b>> \in Seq({a, b}) /\ Len(<<a>> \o <<b>>) = 1 + 1
        /\ \A i \in 1..(1 + 1) : (<<a>> \o <<b>>)[i] = IF i <= 1 THEN <<a>>[i] ELSE <<b>>[i - 1]
    BY <2>1, ConcatProperties
  <2>4. <<a>> \o <<b>> = <<a, b>>
    <3>1. (<<a>> \o <<b>>)[1] = a /\ (<<a>> \o <<b>>)[2] = b
      BY <2>3
    <3>2. <<a, b>> \in Seq({a, b}) /\ Len(<<a, b>>) = 2
      OBVIOUS
    <3>3. \A i \in 1..2 : i = 1 \/ i = 2
      OBVIOUS
    <3>4. \A i \in 1..2 : (<<a>> \o <<b>>)[i] = <<a, b>>[i]
      BY <3>1, <3>3
    <3>5. Len(<<a>> \o <<b>>) = Len(<<a, b>>)
      BY <2>3, <3>2
    <3>6. QED
      BY <2>3, <3>2, <3>4, <3>5, SeqEqual
  <2>5. QED
    BY <2>2, <2>4
<1>3. CASE s.local \/ (s.no_tls /\ ~s.tls_only)
  <2>1. /\ Tickets!HasIPP(s) /\ ~Tickets!HasIPPS(s)
        /\ Tickets!Authentication(s) = <<"none">>
    BY <1>3 DEF Tickets!HasIPP, Tickets!HasIPPS, Tickets!Authentication
  <2>2. Tickets!URIs(s) = <<"ipp">>
    BY <1>2, <2>1 DEF Tickets!URIs, Tickets!If
  <2>3. Tickets!XRI(s)["ipp"] = "none"
    BY <2>1 DEF Tickets!XRI, Tickets!When
  <2>4. QED
    BY <2>1, <2>2, <2>3
<1>4. CASE ~s.local /\ ~s.no_tls /\ s.tls_only
  <2>1. ~Tickets!HasIPP(s) /\ Tickets!HasIPPS(s)
    BY <1>4 DEF Tickets!HasIPP, Tickets!HasIPPS
  <2>2. Tickets!URIs(s) = <<"ipps">> /\ Tickets!Authentication(s) = <<Tickets!Basic(s)>>
    BY <1>2, <1>4, <2>1 DEF Tickets!URIs, Tickets!If, Tickets!Authentication
  <2>3. Tickets!XRI(s)["ipps"] = Tickets!Basic(s)
    BY <2>1 DEF Tickets!XRI, Tickets!When
  <2>4. QED
    BY <2>2, <2>3
<1>5. CASE ~s.local /\ ~s.no_tls /\ ~s.tls_only
  <2>1. Tickets!HasIPP(s) /\ Tickets!HasIPPS(s)
    BY <1>5 DEF Tickets!HasIPP, Tickets!HasIPPS
  <2>2. /\ Tickets!URIs(s) = <<"ipps", "ipp">>
        /\ Tickets!Authentication(s) = <<Tickets!Basic(s), "none">>
    BY <1>2, <1>5, <2>1 DEF Tickets!URIs, Tickets!If, Tickets!Authentication
  <2>3. Tickets!XRI(s)["ipps"] = Tickets!Basic(s) /\ Tickets!XRI(s)["ipp"] = "none"
    BY <2>1 DEF Tickets!XRI, Tickets!When
  <2>4. QED
    BY <2>2, <2>3
<1>6. QED
  BY <1>3, <1>4, <1>5

\* The last resolutions of a driver are of those that it has.
LEMMA URFListed ==
  ASSUME TicketsInv
  PROVE  Tickets!URFResolutions(driver) \subseteq Tickets!Resolutions(driver)
<1>1. PICK r \in Seq(Nat) : r = driver.resolutions /\ r # << >>
  BY DriverFacts DEF TicketsInv, Tickets!ValidDriver
<1>2. Len(r) \in Nat \ {0} /\ DOMAIN r = 1..Len(r)
  BY <1>1, EmptySeq
<1>3. Tickets!URFResolutions(driver) =
        IF Len(r) = 1 THEN {r[1]} ELSE {r[Len(r) - 1], r[Len(r)]}
  BY <1>1 DEF Tickets!URFResolutions
<1>4. Tickets!Resolutions(driver) = {r[i] : i \in 1..Len(r)}
  BY <1>1, <1>2 DEF Tickets!Resolutions
<1>5. Len(r) # 1 => Len(r) - 1 \in 1..Len(r)
  BY <1>2
<1>6. QED
  BY <1>2, <1>3, <1>4, <1>5

\* What a printer says of itself is so, whatever was changed of it.
LEMMA AttributesSo ==
  ASSUME TicketsInv
  PROVE  Tickets!AttributesAgree
BY AcceptsAdvertised, ReportsListed, ReadyListed, MarginsInLists, FormatsUsed,
   SettableSet, URIsHaveTheirs, URFListed DEF Tickets!AttributesAgree

\* The resolution of a job is one that the driver has.
LEMMA ResolutionListed ==
  ASSUME TicketsInv, doc = Tickets!NoAttrs, NEW quality
  PROVE  Tickets!ChosenResolution(quality) \in Tickets!Resolutions(driver)
<1>1. PICK r \in Seq(Nat) : r = driver.resolutions /\ r # << >>
  BY DriverFacts DEF TicketsInv, Tickets!ValidDriver
<1>2. Len(r) \in Nat \ {0} /\ DOMAIN r = 1..Len(r)
  BY <1>1, EmptySeq
<1>3. PICK n \in Nat \ {0} : n = Len(r)
  BY <1>2
<1>4. n \div 2 + 1 \in 1..n
  BY <1>3
<1>5. 1 \in 1..n /\ n \in 1..n
  BY <1>3
<1>6. \A i \in 1..n : r[i] \in Tickets!Resolutions(driver)
  BY <1>1, <1>2, <1>3 DEF Tickets!Resolutions
<1>7. PICK i \in 1..n : Tickets!ChosenResolution(quality) = Tickets!Of("resolution", r[i])
  <2>1. CASE quality = "draft"
    BY <1>1, <1>5, <2>1 DEF Tickets!ChosenResolution
  <2>2. CASE quality = "normal"
    BY <1>1, <1>3, <1>4, <2>2 DEF Tickets!ChosenResolution
  <2>3. CASE quality \notin {"draft", "normal"}
    BY <1>1, <1>3, <1>5, <2>3 DEF Tickets!ChosenResolution
  <2>4. QED
    BY <2>1, <2>2, <2>3
<1>8. Tickets!Of("resolution", r[i]) = r[i]
        \/ /\ "resolution" \in DOMAIN ticket
           /\ Tickets!Of("resolution", r[i]) = ticket["resolution"]
  BY DEF Tickets!Of, Tickets!OfJob, Tickets!NoAttrs
<1>9. "resolution" \in DOMAIN ticket => ticket["resolution"] \in Tickets!Resolutions(driver)
  BY SupportedValues DEF TicketsInv, TicketKept
<1>10. QED
  BY <1>6, <1>7, <1>8, <1>9

\* What a job's or the default value is, without those of a document.
LEMMA WithoutDocument ==
  ASSUME doc = Tickets!NoAttrs, NEW n, NEW v
  PROVE  \/ n \in DOMAIN ticket /\ Tickets!Of(n, v) = ticket[n]
         \/ Tickets!Of(n, v) = v
BY DEF Tickets!Of, Tickets!OfJob, Tickets!NoAttrs

\* What a job is printed on and with is supported.
LEMMA OptionsMade ==
  ASSUME TicketsInv, NEW n, NEW in_color, Tickets!CreatePrintOptions(n, in_color)
  PROVE  Tickets!OptionsSupported'
<1>1. /\ driver' = driver /\ doc' = doc
      /\ options'.media = Tickets!Of("media", defaults.media)
      /\ options'.color = Tickets!Color(in_color)
      /\ options'.sides = Tickets!PrintedSides(Tickets!Pages(n).num)
      /\ options'.resolution
           = Tickets!ChosenResolution(Tickets!Of("quality", defaults.quality))
  BY DEF Tickets!CreatePrintOptions
<1>2. SUFFICES ASSUME doc = Tickets!NoAttrs
               PROVE  /\ \/ options'.media = 0 \/ driver.media = {}
                         \/ Tickets!InRange(driver, options'.media)
                      /\ \/ options'.color \in driver.color
                         \/ {"auto", "auto-monochrome"} \cap driver.color # {}
                      /\ \/ options'.sides \in driver.sides \cup {"one-sided"}
                         \/ driver.sides = {}
                      /\ options'.resolution \in Tickets!Resolutions(driver)
  BY <1>1 DEF Tickets!OptionsSupported, Tickets!NoAttrs, Tickets!InRange, Tickets!Resolutions
<1>3. /\ driver \in Drivers
      /\ \A m \in DefaultNames : MayBeDefault(m, defaults[m])
      /\ \A m \in DOMAIN ticket : Tickets!Supported(m, ticket[m])
  BY DEF TicketsInv, AreDefaults, TicketKept
<1>4. \/ options'.media = 0 \/ driver.media = {} \/ Tickets!InRange(driver, options'.media)
  <2>1. MayBeDefault("media", defaults.media)
    BY <1>3 DEF DefaultNames
  <2>2. "media" \in DOMAIN ticket => Tickets!InRange(driver, ticket["media"])
    BY <1>3, SupportedValues, ListedInRange
  <2>3. QED
    BY <1>1, <1>2, <2>1, <2>2, WithoutDocument DEF MayBeDefault
<1>5. \/ options'.color \in driver.color
      \/ {"auto", "auto-monochrome"} \cap driver.color # {}
  <2>1. MayBeDefault("color", defaults.color)
    BY <1>3 DEF DefaultNames
  <2>2. "color" \in DOMAIN ticket => ticket["color"] \in driver.color
    BY <1>3, SupportedValues
  <2>3. Tickets!Of("color", defaults.color) \in driver.color
    BY <1>2, <2>1, <2>2, WithoutDocument DEF MayBeDefault
  <2>4. \/ Tickets!Color(in_color) = Tickets!Of("color", defaults.color)
        \/ Tickets!Of("color", defaults.color) \in {"auto", "auto-monochrome"}
    BY DEF Tickets!Color
  <2>5. QED
    BY <1>1, <2>3, <2>4
<1>6. \/ options'.sides \in driver.sides \cup {"one-sided"} \/ driver.sides = {}
  <2>1. MayBeDefault("sides", defaults.sides)
    BY <1>3 DEF DefaultNames
  <2>2. "sides" \in DOMAIN ticket => ticket["sides"] \in driver.sides
    BY <1>3, SupportedValues
  <2>3. PICK v \in {defaults.sides, "one-sided"} : options'.sides = Tickets!Of("sides", v)
    BY <1>1 DEF Tickets!PrintedSides
  <2>4. QED
    BY <1>2, <2>1, <2>2, <2>3, WithoutDocument DEF MayBeDefault
<1>7. options'.resolution \in Tickets!Resolutions(driver)
  BY <1>1, <1>2, ResolutionListed
<1>8. QED
  BY <1>4, <1>5, <1>6, <1>7

\* The numbers from first to last are last - first + 1.
LEMMA RangeSize ==
  ASSUME NEW first \in Nat, NEW last \in Nat, first <= last + 1
  PROVE  Cardinality(first..last) = last - first + 1
<1>1. Cardinality(first..last) = IF first > last THEN 0 ELSE last - first + 1
  BY FS_Interval
<1>2. QED
  BY <1>1

\* The pages that are printed of n are those that the job asks for.
LEMMA PagesOfRange ==
  ASSUME TicketsInv, NEW n \in Nat \ {0}
  PROVE  LET asked == {p \in 1..n : "pages" \in DOMAIN ticket =>
                                      ticket.pages.first <= p /\ p <= ticket.pages.last}
         IN /\ asked = {p \in 1..n : /\ Tickets!Pages(n).first <= p
                                     /\ p <= Tickets!Pages(n).last}
            /\ Tickets!Pages(n).num = Cardinality(asked)
<1> DEFINE asked == {p \in 1..n : "pages" \in DOMAIN ticket =>
                                    ticket.pages.first <= p /\ p <= ticket.pages.last}
           made  == {p \in 1..n : /\ Tickets!Pages(n).first <= p
                                  /\ p <= Tickets!Pages(n).last}
<1>1. CASE "pages" \notin DOMAIN ticket
  <2>1. Tickets!Pages(n) = [first |-> 1, last |-> n, num |-> n]
    BY <1>1 DEF Tickets!Pages
  <2>2. asked = 1..n /\ made = 1..n
    BY <1>1, <2>1
  <2>3. Cardinality(1..n) = n
    BY RangeSize, SMT
  <2>4. Cardinality(asked) = n
    BY <2>2, <2>3, Zenon
  <2>5. QED
    BY <2>1, <2>2, <2>4
<1>2. CASE "pages" \in DOMAIN ticket
  <2>1. PICK f, l \in Int : f = ticket.pages.first /\ l = ticket.pages.last
    BY <1>2, AttrFacts DEF TicketsInv, TicketKept
  <2>2. 1 <= f /\ f <= l
    <3>1. ~Tickets!Wrong("pages", ticket["pages"])
      BY <1>2 DEF TicketsInv, TicketKept
    <3>2. ~(f < 1) /\ ~(l < f)
      BY <2>1, <3>1, WrongValues
    <3>3. QED
      BY <3>2
  <2>3. asked = {p \in 1..n : f <= p /\ p <= l}
    BY <1>2, <2>1
  <2>4. CASE f > n
    <3>1. Tickets!Pages(n) = [first |-> n + 1, last |-> n + 1, num |-> 0]
      BY <1>2, <2>1, <2>4 DEF Tickets!Pages
    <3>2. asked = {} /\ made = {}
      BY <2>3, <2>4, <3>1
    <3>3. QED
      BY <3>1, <3>2, FS_EmptySet
  <2>5. CASE f <= n
    <3>1. PICK k \in Nat : k = (IF l > n THEN n ELSE l) /\ f <= k /\ k <= n
      BY <2>2, <2>5
    <3>2. Tickets!Pages(n) = [first |-> f, last |-> k, num |-> k - f + 1]
      BY <1>2, <2>1, <2>5, <3>1 DEF Tickets!Pages, Tickets!Range
    <3>3. asked = f..k /\ made = f..k
      BY <2>2, <2>3, <2>5, <3>1, <3>2
    <3>4. Cardinality(f..k) = k - f + 1
      BY <2>2, <3>1, RangeSize
    <3>5. Cardinality(asked) = k - f + 1
      BY <3>3, <3>4, Zenon
    <3>6. QED
      BY <3>2, <3>3, <3>5
  <2>6. QED
    BY <2>4, <2>5
<1>3. QED
  BY <1>1, <1>2

\* What a job is printed with are its copies and its pages.
LEMMA CopiesMade ==
  ASSUME TicketsInv, NEW n \in 0..2, NEW in_color, Tickets!CreatePrintOptions(n, in_color)
  PROVE  Tickets!PagesHonoured'
<1>1. /\ ticket' = ticket /\ options'.document = n /\ options'.pages = Tickets!Pages(n)
      /\ \/ options'.copies = 1 /\ options'.header_copies = Tickets!OfJob("copies", 1)
         \/ options'.header_copies = 1 /\ options'.copies = Tickets!OfJob("copies", 1)
  BY DEF Tickets!CreatePrintOptions
<1>2. Tickets!OfJob("copies", 1) \in Int
  <2>1. "copies" \in DOMAIN ticket => ticket["copies"] \in 1..999
    <3>1. "copies" \in DOMAIN ticket => ~Tickets!Wrong("copies", ticket["copies"])
      BY DEF TicketsInv, TicketKept
    <3>2. QED
      BY <3>1, WrongValues
  <2>2. QED
    BY <2>1 DEF Tickets!OfJob
<1>3. PICK copies \in Int : copies = Tickets!OfJob("copies", 1)
  BY <1>2
<1>4. options'.copies * options'.header_copies = Tickets!OfJob("copies", 1)'
  <2>1. Tickets!OfJob("copies", 1)' = copies
    BY <1>1, <1>3 DEF Tickets!OfJob
  <2>2. copies * 1 = copies /\ 1 * copies = copies
    OBVIOUS
  <2>3. QED
    BY <1>1, <1>3, <2>1, <2>2
<1>5. n > 0 =>
        LET asked == {p \in 1..n : "pages" \in DOMAIN ticket =>
                                     ticket.pages.first <= p /\ p <= ticket.pages.last}
        IN /\ asked = {p \in 1..n : /\ Tickets!Pages(n).first <= p
                                    /\ p <= Tickets!Pages(n).last}
           /\ Tickets!Pages(n).num = Cardinality(asked)
  BY PagesOfRange
<1>6. QED
  BY <1>1, <1>4, <1>5, TicketCardinality DEF Tickets!PagesHonoured

\* The invariant after a step, from what is known before it of the new values.
LEMMA TicketsKept ==
  ASSUME driver \in Drivers, Tickets!ValidDriver(driver), driver' = driver,
         edits' \in 0..MaxEdits, AreDefaults(defaults'),
         AreReady(ready'), Tickets!ValidReady(driver, ready'),
         job' \in {"none", "accepted", "refused", "printed"}, TicketKept(ticket'),
         DOMAIN doc' \subseteq Tickets!Names,
         job' = "printed" => Tickets!OptionsSupported' /\ Tickets!PagesHonoured'
  PROVE  TicketsInv'
<1>1. Tickets!OptionsSupported' /\ Tickets!PagesHonoured'
  BY DEF Tickets!OptionsSupported, Tickets!PagesHonoured
<1>2. AreDefaults(defaults)'
  BY DEF AreDefaults, MayBeDefault, Tickets!InRange, Tickets!Resolutions, Tickets!HasSpeed
<1>3. TicketKept(ticket)'
  <2>1. ASSUME NEW n, NEW v PROVE Tickets!Wrong(n, v)' <=> Tickets!Wrong(n, v)
    BY DEF Tickets!Wrong, Tickets!PDFSupported, Tickets!CanFilter
  <2>2. ASSUME NEW n, NEW v PROVE Tickets!Supported(n, v)' <=> Tickets!Supported(n, v)
    BY DEF Tickets!Supported, Tickets!Resolutions, Tickets!HasSpeed
  <2>3. QED
    BY <2>1, <2>2 DEF TicketKept
<1>4. Tickets!ValidReady(driver, ready)' /\ Tickets!ValidDriver(driver)'
  BY DEF Tickets!ValidReady, Tickets!InRange, Tickets!ValidDriver
<1>5. AreReady(ready)'
  BY DEF AreReady
<1>6. QED
  BY <1>1, <1>2, <1>3, <1>4, <1>5 DEF TicketsInv

\* A step of another part leaves the printer and the job as they are.
LEMMA TicketsStay ==
  ASSUME TicketsInv, UNCHANGED ticketVars
  PROVE  TicketsInv'
<1>1. UNCHANGED <<driver, defaults, ready, edits, job, ticket, doc, options>>
  BY DEF ticketVars
<1>2. Tickets!OptionsSupported'
  BY <1>1 DEF TicketsInv, Tickets!OptionsSupported, Tickets!InRange, Tickets!Resolutions
<1>3. Tickets!PagesHonoured'
  BY <1>1 DEF TicketsInv, Tickets!PagesHonoured, Tickets!OfJob
<1>4. QED
  BY <1>1, <1>2, <1>3, TicketsKept DEF TicketsInv

\* A step of the printer and its job keeps the invariant.
LEMMA TicketsStep ==
  ASSUME TicketsInv, Tickets!Next
  PROVE  TicketsInv'
<1>1. MaxEdits \in Nat
  BY DriverConstants DEF DriverConstants
<1>2. ASSUME Tickets!MayEdit, NEW v \in Tickets!Edited, Tickets!SetDriverDefaults(v)
      PROVE  TicketsInv'
  <2>1. AreDefaults(defaults') /\ edits' \in 0..MaxEdits /\ job' # "printed"
    BY <1>1, <1>2, EditedDefaults
    DEF TicketsInv, Tickets!SetDriverDefaults, Tickets!MayEdit
  <2>2. QED
    BY <1>2, <2>1, TicketsKept DEF TicketsInv, Tickets!SetDriverDefaults
<1>3. ASSUME Tickets!MayEdit, NEW r \in Tickets!SetReady \cup Tickets!MediaForm,
             Tickets!SetReadyMedia(r)
      PROVE  TicketsInv'
  <2>1. /\ ready' = r /\ Tickets!ValidReady(driver, r)
        /\ edits' \in 0..MaxEdits /\ job' # "printed"
        /\ UNCHANGED <<driver, job, ticket, doc, options>>
    BY <1>1, <1>3 DEF TicketsInv, Tickets!SetReadyMedia, Tickets!MayEdit
  <2>2. AreDefaults(defaults') /\ AreReady(r)
    BY <1>3, <2>1, ReadyDefaults, EditedReady
  <2>3. QED
    BY <2>1, <2>2, TicketsKept DEF TicketsInv
<1>4. ASSUME NEW t \in Tickets!With(Attrs) \cup {Tickets!NoAttrs}, NEW exact \in BOOLEAN,
             Tickets!CreateJob(t, exact)
      PROVE  TicketsInv'
  <2>1. TicketKept(ticket') /\ job' \in {"accepted", "refused"}
    BY <1>4, TicketMade DEF TicketsInv, Tickets!CreateJob
  <2>2. QED
    BY <1>4, <2>1, TicketsKept DEF TicketsInv, Tickets!CreateJob
<1>5. ASSUME NEW t \in Tickets!With(DocAttrs), Tickets!SendDocument(t)
      PROVE  TicketsInv'
  BY <1>5, DocumentNames, TicketsKept DEF TicketsInv, Tickets!SendDocument
<1>6. ASSUME NEW n \in 0..2, NEW in_color \in BOOLEAN,
             Tickets!CreatePrintOptions(n, in_color)
      PROVE  TicketsInv'
  <2>1. Tickets!OptionsSupported' /\ Tickets!PagesHonoured'
    BY <1>6, OptionsMade, CopiesMade
  <2>2. /\ UNCHANGED <<driver, defaults, ready, edits, ticket, doc>>
        /\ job' = "printed"
    BY <1>6 DEF Tickets!CreatePrintOptions
  <2>3. QED
    BY <2>1, <2>2, TicketsKept DEF TicketsInv
<1>7. QED
  BY <1>2, <1>3, <1>4, <1>5, <1>6 DEF Tickets!Next

\* What a driver sets at the beginning is what a printer may have.
LEMMA FirstDefaults ==
  ASSUME driver \in Drivers, Tickets!ValidDefaults(driver, driver.defaults)
  PROVE  AreDefaults(driver.defaults)
<1>1. PICK v : v = driver.defaults
  OBVIOUS
<1>2. /\ DOMAIN v = DefaultNames
      /\ v["source"] \in Tickets!SourceNames /\ v["quality"] \in Tickets!Qualities
      /\ v["handling"] \in Tickets!AllHandlings /\ v["content"] \in Tickets!Contents
      /\ v["scaling"] \in Tickets!Scalings /\ v["orientation"] \in Tickets!Orientations
      /\ driver.bins # << >> => v["bin"] \in DOMAIN driver.bins
      /\ driver.speed[2] # 0 => v["speed"] \in {0} \cup (driver.speed[1]..driver.speed[2])
  BY <1>1, DriverDefaultsFacts
<1>3. /\ driver.media = {} \/ Tickets!InRange(driver, v["media"])
      /\ v["color"] \in driver.color /\ v["resolution"] \in Tickets!Resolutions(driver)
      /\ v["sides"] \in driver.sides \/ driver.sides = {}
  BY <1>1, ListedInRange DEF Tickets!ValidDefaults
<1>4. \A n \in DefaultNames : MayBeDefault(n, v[n])
  BY <1>2, <1>3 DEF MayBeDefault, Tickets!HasSpeed
<1>5. QED
  BY <1>1, <1>2, <1>4 DEF AreDefaults

-----------------------------------------------------------------------------
\* TicketsInv is an invariant of the parts: the defaults and ready media of a
\* printer are what it may have, and a job has kept what the printer supports.
THEOREM TicketsAlways == PartsSpec => []TicketsInv
<1>1. PartsInit => TicketsInv
  <2>1. SUFFICES ASSUME Tickets!Init PROVE TicketsInv
    BY DEF PartsInit
  <2>2. /\ driver \in Drivers /\ Tickets!Usable(driver)
        /\ defaults = driver.defaults /\ ready = driver.ready /\ edits = 0
        /\ job = "none" /\ ticket = Tickets!NoAttrs /\ doc = Tickets!NoAttrs
    BY <2>1 DEF Tickets!Init
  <2>3. edits \in 0..MaxEdits
    BY <2>2, DriverConstants DEF DriverConstants
  <2>4. AreDefaults(defaults)
    BY <2>2, FirstDefaults DEF Tickets!Usable
  <2>5. /\ AreReady(ready) /\ Tickets!ValidReady(driver, ready)
        /\ Tickets!ValidDriver(driver)
    BY <2>2, DriverDefaultsFacts DEF Tickets!Usable
  <2>6. DOMAIN ticket = {} /\ DOMAIN doc = {}
    BY <2>2 DEF Tickets!NoAttrs
  <2>7. Tickets!OptionsSupported /\ Tickets!PagesHonoured
    BY <2>2 DEF Tickets!OptionsSupported, Tickets!PagesHonoured
  <2>8. QED
    BY <2>2, <2>3, <2>4, <2>5, <2>6, <2>7 DEF TicketsInv, TicketKept
<1>2. TicketsInv /\ [PartsNext]_partsVars => TicketsInv'
  <2>1. SUFFICES ASSUME TicketsInv, [PartsNext]_partsVars PROVE TicketsInv'
    OBVIOUS
  <2>2. UNCHANGED ticketVars \/ Tickets!Next
    BY <2>1 DEF PartsNext, Others, partsVars
  <2>3. QED
    BY <2>1, <2>2, TicketsStay, TicketsStep
<1>3. QED
  BY <1>1, <1>2, PTL DEF PartsSpec

\* For any drivers, attributes, filters and changes of the defaults and the ready
\* media: what a printer says of itself is so, and the options of a job say what the
\* printer supports, and the copies and pages that the job asks for.
THEOREM TicketIsHonoured == PartsSpec => []TicketHonoured
<1>1. TicketsInv => TicketHonoured
  BY AttributesSo DEF TicketsInv, TicketHonoured, In
<1>2. QED
  BY <1>1, TicketsAlways, PTL

-----------------------------------------------------------------------------
(* Every part at once.                                                     *)

\* The output devices are a part of their own.
LEMMA DevicesApart == PartsSpec => Spec
<1>1. PartsInit => Init
  BY DEF PartsInit
<1>2. [PartsNext]_partsVars => [Next]_deviceVars
  BY DEF PartsNext, Others, partsVars
<1>3. QED
  BY <1>1, <1>2, PTL DEF PartsSpec, Spec

\* The types of what a printer says and a job asks for.
LEMMA TicketTypes ==
  ASSUME TicketsInv
  PROVE  Tickets!TypeOK
<1>1. driver.color \subseteq Tickets!Colors
  BY DriverFacts DEF TicketsInv
<1>2. /\ defaults.source \in Tickets!SourceNames /\ defaults.color \in Tickets!Colors
      /\ defaults.quality \in Tickets!Qualities \cup {"unknown", "other"}
      /\ defaults.handling \in Tickets!AllHandlings
  <2>1. {"source", "color", "quality", "handling"} \subseteq DefaultNames
    BY DEF DefaultNames
  <2>2. \A n \in {"source", "color", "quality", "handling"} : MayBeDefault(n, defaults[n])
    BY <2>1 DEF TicketsInv, AreDefaults
  <2>3. QED
    BY <1>1, <2>2 DEF MayBeDefault
<1>3. DOMAIN ticket \subseteq Tickets!Names
  <2>1. SUFFICES ASSUME NEW n \in DOMAIN ticket PROVE n \in Tickets!Names
    OBVIOUS
  <2>2. <<n, ticket[n]>> \in Attrs
    BY DEF TicketsInv, TicketKept
  <2>3. <<n, ticket[n]>>[1] \in Tickets!Names
    BY <2>2, AttrFacts
  <2>4. QED
    BY <2>3
<1>4. QED
  BY <1>2, <1>3 DEF TicketsInv, AreReady, Tickets!TypeOK

\* The types of the printers, and of the threads that create and delete them.
LEMMA PrinterTypes ==
  ASSUME RegistryInv
  PROVE  Registry!TypeOK
<1>1. /\ RegistryTypes /\ PagesOwned
  BY DEF RegistryInv
<1>2. DOMAIN printer = 1..Len(printer)
  BY <1>1, LenProperties DEF RegistryTypes
<1>3. \A page \in pages : page.owner \in {0} \cup DOMAIN printer
  BY <1>1, <1>2 DEF PagesOwned, Registry!SystemPage
<1>4. \A t \in Creators : thread[t].pc \in {"idle"} \cup Registry!Creating \cup Registry!Deleting
  BY <1>1 DEF RegistryTypes, ThreadType, Registry!Creating, Registry!Deleting
<1>5. QED
  BY <1>1, <1>2, <1>3, <1>4 DEF RegistryTypes, Registry!TypeOK

\* Every variable of every part has its type in every state that is reached, for
\* any values of the constants; the bytes in the buffer of a device fit into it,
\* and what remains of a body is never less than nothing.
THEOREM PartsTypes == PartsSpec => []PartsTypeOK
<1>1. PartsSpec => []TypeOK
  BY DevicesApart, TypeHolds, PTL
<1>2. /\ TypeOK /\ StreamInv /\ ClientsInv /\ MonitorTypes /\ TicketsInv /\ RasterInv
      /\ RegistryInv
      => PartsTypeOK
  <2>1. SUFFICES ASSUME TypeOK, StreamInv, ClientsInv, MonitorTypes, TicketsInv, RasterInv,
                        RegistryInv
                 PROVE  PartsTypeOK
    OBVIOUS
  <2>2. Tickets!TypeOK /\ Registry!TypeOK
    BY <2>1, TicketTypes, PrinterTypes
  <2>3. Stream!TypeOK /\ Clients!TypeOK
    BY <2>1 DEF StreamInv, ClientsInv
  <2>4. Monitor!TypeOK /\ Raster!TypeOK
    BY <2>1 DEF MonitorTypes, RasterInv, RasterTypes
  <2>5. In("devices", TypeOK) /\ In("stream", Stream!TypeOK)
    BY <2>1, <2>3 DEF In
  <2>6. In("monitor", Monitor!TypeOK) /\ In("clients", Clients!TypeOK)
    BY <2>3, <2>4 DEF In
  <2>7. In("tickets", Tickets!TypeOK) /\ In("raster", Raster!TypeOK)
    BY <2>2, <2>4 DEF In
  <2>8. In("printers", Registry!TypeOK)
    BY <2>2 DEF In
  <2>9. QED
    BY <2>5, <2>6, <2>7, <2>8 DEF PartsTypeOK
<1>3. QED
  BY <1>1, <1>2, StreamAlways, ClientsAlways, MonitorTypesAlways, TicketsAlways, RasterAlways,
     RegistryAlways, PTL
=============================================================================
