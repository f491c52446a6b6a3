---------------------------- MODULE WorkerProofs ----------------------------
(* Proofs about the servers for deno and Cloudflare: a websocket piped to a *)
(* connection keeps the order of its messages (WorkerDirect), a request    *)
(* that waits for its partner can be found by it (WorkerPair), and on a    *)
(* websocket with the streams of a mux client each client hears its        *)
(* connection and each connection gets its own stream (WorkerMux).         *)
EXTENDS WorkerDirect, WorkerPair, WorkerMux, SequenceTheorems, FiniteSetTheorems, TLAPS

-----------------------------------------------------------------------------

(* server/deno.ts and server/cloud.js, one websocket piped to one          *)
(* connection.                                                             *)

\* The case the property excepts: cloud.js awaits the bytes of a Blob.
AwaitsBlob == blob /\ kind \in {"cloudDirect", "speed"}

\* The number of the first message a connection may get.
FirstPiped == IF kind = "relay" THEN 1 ELSE 2

\* r followed by q is an unbroken run of message numbers that starts at n.
RunFrom(r, q, n) == r \o q = [j \in 1 .. Len(r) + Len(q) |-> n + j - 1]

\* What the proof needs of the types.
DirectTypeOK ==
  /\ wire \in Nat
  /\ queue \in Seq(Int) /\ rgot \in Seq(Int) /\ dials \in Seq(Int)
  /\ \A p \in pend : p[1] \in Int

\* Before the address nothing has been delivered; after it every message
\* delivered is in the pipe or written, the address excepted.
DirectCounts ==
  /\ pend = {}
  /\ handler = "address" => /\ kind # "relay" /\ wire = 0 /\ conn = "none"
                            /\ rgot = <<>> /\ queue = <<>> /\ dials = <<>>
  /\ handler = "stream" => Len(rgot) + Len(queue) + FirstPiped - 1 = wire
  /\ handler \in {"address", "stream"}

\* The inductive invariant.
DirectIInv == DirectTypeOK /\ (~AwaitsBlob => DirectCounts /\ RunFrom(rgot, queue, FirstPiped) /\ Len(dials) <= 1)

\* Nothing is a run.
LEMMA RunEmpty ==
  ASSUME NEW n \in Int
  PROVE  RunFrom(<<>>, <<>>, n)
BY DEF RunFrom

\* A message that comes next makes the run longer.
LEMMA RunGrows ==
  ASSUME NEW r \in Seq(Int), NEW q \in Seq(Int), NEW n \in Int, RunFrom(r, q, n)
  PROVE  RunFrom(r, Append(q, n + Len(r) + Len(q)), n)
<1> DEFINE m == n + Len(r) + Len(q)
<1> DEFINE a == r \o Append(q, m)
<1>1. /\ Len(r) \in Nat /\ Len(q) \in Nat /\ m \in Int /\ Append(q, m) \in Seq(Int)
      /\ Len(Append(q, m)) = Len(q) + 1
  OBVIOUS
<1>2. a \in Seq(Int) /\ Len(a) = Len(r) + Len(q) + 1
  BY <1>1
<1>3. ASSUME NEW j \in 1 .. Len(a) PROVE a[j] = n + j - 1
  <2>0. r \o q = [i \in 1 .. Len(r) + Len(q) |-> n + i - 1] BY DEF RunFrom
  <2>1. CASE j <= Len(r)
    <3>1. a[j] = r[j] BY <2>1, <1>1, <1>2
    <3>2. (r \o q)[j] = r[j] BY <2>1, <1>1, <1>2
    <3> QED BY <3>1, <3>2, <2>0, <2>1, <1>1, <1>2
  <2>2. CASE j > Len(r) /\ j <= Len(r) + Len(q)
    <3>1. a[j] = q[j - Len(r)] BY <2>2, <1>1, <1>2
    <3>2. (r \o q)[j] = q[j - Len(r)] BY <2>2, <1>1, <1>2
    <3> QED BY <3>1, <3>2, <2>0, <2>2, <1>1, <1>2
  <2>3. CASE j = Len(r) + Len(q) + 1
    <3>1. a[j] = Append(q, m)[j - Len(r)] BY <2>3, <1>1, <1>2
    <3> QED BY <3>1, <2>3, <1>1, <1>2
  <2> QED BY <2>1, <2>2, <2>3, <1>1, <1>2
<1>4. a = [j \in 1 .. Len(a) |-> n + j - 1]
  <2> HIDE DEF a
  <2> QED BY <1>2, <1>3
<1>5. Len(a) = Len(r) + Len(Append(q, m))
  BY <1>1, <1>2
<1> QED BY <1>4, <1>5 DEF RunFrom

\* A message written moves from the pipe to the connection; the run is the same.
LEMMA RunMoves ==
  ASSUME NEW r \in Seq(Int), NEW q \in Seq(Int), NEW n \in Int, RunFrom(r, q, n), q # <<>>
  PROVE  RunFrom(Append(r, Head(q)), Tail(q), n)
<1>1. /\ Tail(q) \in Seq(Int) /\ Head(q) \in Int /\ Len(q) \in Nat \ {0} /\ Len(Tail(q)) = Len(q) - 1
      /\ Append(r, Head(q)) \in Seq(Int) /\ Len(Append(r, Head(q))) = Len(r) + 1
      /\ Len(r) \in Nat
  OBVIOUS
<1>2. Append(r, Head(q)) \o Tail(q) = r \o q
  <2> DEFINE a == Append(r, Head(q)) \o Tail(q)
  <2> DEFINE b == r \o q
  <2>1. a \in Seq(Int) /\ b \in Seq(Int) /\ Len(a) = Len(b) /\ Len(b) = Len(r) + Len(q)
    BY <1>1
  <2>2. ASSUME NEW j \in 1 .. Len(b) PROVE a[j] = b[j]
    <3>1. CASE j <= Len(r) BY <3>1, <1>1, <2>1
    <3>2. CASE j = Len(r) + 1 BY <3>2, <1>1, <2>1
    <3>3. CASE j > Len(r) + 1
      <4>1. a[j] = Tail(q)[j - (Len(r) + 1)] BY <3>3, <1>1, <2>1
      <4>2. Tail(q)[j - (Len(r) + 1)] = q[j - Len(r)] BY <3>3, <1>1, <2>1
      <4> QED BY <4>1, <4>2, <3>3, <1>1, <2>1
    <3> QED BY <3>1, <3>2, <3>3, <1>1, <2>1
  <2> HIDE DEF a, b
  <2>3. a = b BY <2>1, <2>2
  <2> QED BY <2>3 DEF a, b
<1> QED BY <1>1, <1>2 DEF RunFrom

\* The websocket opens, and relay has its connection at once.
LEMMA DirectInitOK ==
  ASSUME NEW k \in Kinds, NEW b, DirectInit(k, b)
  PROVE  DirectIInv
<1>1. DirectTypeOK /\ pend = {} /\ Len(dials) <= 1
  BY DEF DirectInit, DirectTypeOK
<1>2. DirectCounts
  BY <1>1 DEF DirectInit, DirectCounts, FirstPiped
<1>3. RunFrom(rgot, queue, FirstPiped)
  BY RunEmpty DEF DirectInit, FirstPiped
<1> QED BY <1>1, <1>2, <1>3 DEF DirectIInv

\* What a message handler does keeps the types.
LEMMA TakeTypes ==
  ASSUME DirectTypeOK, NEW m \in Int, NEW h, Take(m, h)
  PROVE  /\ queue' \in Seq(Int) /\ dials' \in Seq(Int)
<1>1. CASE Enqueue(m) BY <1>1 DEF DirectTypeOK, Enqueue
<1>2. CASE Address(m)
  <2>1. queue' = queue /\ (dials' = dials \/ dials' = Append(dials, m))
    BY <1>2 DEF Address, CloudAddress, DenoAddress, SpeedAddress, Dial
  <2>2. dials \in Seq(Int) /\ Append(dials, m) \in Seq(Int) BY DEF DirectTypeOK
  <2> QED BY <2>1, <2>2 DEF DirectTypeOK
<1> QED BY <1>1, <1>2 DEF Take

\* Every step keeps the types.
LEMMA DirectTypes ==
  ASSUME DirectTypeOK, DirectNext
  PROVE  DirectTypeOK'
<1>1. CASE Message
  <2>1. wire + 1 \in Int /\ wire' \in Nat /\ rgot' = rgot BY <1>1 DEF DirectTypeOK, Message
  <2>2. CASE pend' = pend \cup {<<wire + 1, handler>>} /\ UNCHANGED <<handler, queue, dials, conn, socket>>
    BY <2>1, <2>2 DEF DirectTypeOK
  <2>3. CASE pend' = pend /\ Take(wire + 1, handler)
    BY <2>1, <2>3, TakeTypes DEF DirectTypeOK
  <2> QED BY <1>1, <2>2, <2>3 DEF Message
<1>2. CASE ToBytesDone
  <2>1. PICK p \in pend : pend' = pend \ {p} /\ Take(p[1], p[2]) /\ UNCHANGED <<kind, blob, wire, rgot>>
    BY <1>2 DEF ToBytesDone
  <2>2. queue' \in Seq(Int) /\ dials' \in Seq(Int)
    BY <2>1, TakeTypes DEF DirectTypeOK
  <2> QED BY <2>1, <2>2 DEF DirectTypeOK
<1>3. CASE PipeToRemote
  BY <1>3 DEF PipeToRemote, DirectTypeOK
<1>4. CASE Dialled \/ RemoteCloses \/ SocketCloses
  BY <1>4 DEF Dialled, RemoteCloses, SocketCloses, DirectTypeOK
<1> QED BY <1>1, <1>2, <1>3, <1>4 DEF DirectNext

\* Without the await a step keeps the counts and the run.
LEMMA DirectStep ==
  ASSUME DirectIInv, ~AwaitsBlob, DirectNext
  PROVE  DirectCounts' /\ RunFrom(rgot, queue, FirstPiped)' /\ Len(dials)' <= 1
<1>0. /\ DirectTypeOK /\ DirectCounts /\ RunFrom(rgot, queue, FirstPiped) /\ Len(dials) <= 1
      /\ FirstPiped \in {1, 2}
  BY DEF DirectIInv, FirstPiped
<1>1. CASE Message
  <2>1. /\ wire' = wire + 1 /\ pend' = pend /\ Take(wire + 1, handler)
        /\ kind' = kind /\ rgot' = rgot
    BY <1>1 DEF Message, AwaitsBlob
  <2>2. FirstPiped' = FirstPiped BY <2>1 DEF FirstPiped
  <2>3. CASE handler = "stream"
    <3>1. /\ queue' = Append(queue, wire + 1) /\ handler' = handler /\ dials' = dials
          /\ conn' = conn
      BY <2>1, <2>3 DEF Take, Enqueue
    <3>2. wire + 1 = FirstPiped + Len(rgot) + Len(queue)
      BY <1>0, <2>3 DEF DirectCounts, DirectTypeOK
    <3>3. RunFrom(rgot, queue, FirstPiped)'
      <4>1. RunFrom(rgot, Append(queue, FirstPiped + Len(rgot) + Len(queue)), FirstPiped)
        BY <1>0, RunGrows DEF DirectTypeOK
      <4> QED BY <4>1, <2>1, <2>2, <3>1, <3>2
    <3>4. Len(queue') = Len(queue) + 1 BY <3>1, <1>0 DEF DirectTypeOK
    <3> QED BY <1>0, <2>1, <2>2, <2>3, <3>1, <3>2, <3>3, <3>4 DEF DirectCounts, DirectTypeOK
  <2>4. CASE handler = "address"
    <3>1. /\ handler' = "stream" /\ queue' = queue
          /\ dials' = dials \/ dials' = Append(dials, wire + 1)
      BY <2>1, <2>4 DEF Take, Address, CloudAddress, DenoAddress, SpeedAddress, Dial
    <3>2. /\ rgot = <<>> /\ queue = <<>> /\ dials = <<>> /\ wire = 0 /\ FirstPiped = 2 /\ pend = {}
      BY <1>0, <2>4 DEF DirectCounts, FirstPiped
    <3>3. Len(dials') <= 1
      <4>1. CASE dials' = dials BY <4>1, <1>0
      <4>2. CASE dials' = Append(dials, wire + 1)
        BY <4>2, <1>0, <3>2, Len(Append(dials, wire + 1)) = Len(dials) + 1 DEF DirectTypeOK
      <4> QED BY <3>1, <4>1, <4>2
    <3> QED BY <1>0, <2>1, <2>2, <3>1, <3>2, <3>3 DEF DirectCounts
  <2> QED BY <1>0, <2>3, <2>4 DEF DirectCounts
<1>2. CASE ToBytesDone
  BY <1>0, <1>2 DEF ToBytesDone, DirectCounts
<1>3. CASE PipeToRemote
  <2>1. /\ queue # <<>> /\ rgot' = Append(rgot, Head(queue)) /\ queue' = Tail(queue)
        /\ UNCHANGED <<kind, wire, handler, pend, dials, conn>> /\ FirstPiped' = FirstPiped
    BY <1>3 DEF PipeToRemote, FirstPiped
  <2>2. RunFrom(rgot, queue, FirstPiped)'
    BY <1>0, <2>1, RunMoves DEF DirectTypeOK
  <2>3. Len(rgot') + Len(queue') = Len(rgot) + Len(queue)
    BY <1>0, <2>1 DEF DirectTypeOK
  <2>4. handler # "address" BY <1>0, <2>1 DEF DirectCounts
  <2> QED BY <1>0, <2>1, <2>2, <2>3, <2>4 DEF DirectCounts
<1>4. CASE Dialled \/ RemoteCloses \/ SocketCloses
  <2>1. /\ UNCHANGED <<kind, wire, handler, pend, queue, dials, rgot>>
        /\ conn = "none" => conn' = "none"
    BY <1>4 DEF Dialled, RemoteCloses, SocketCloses
  <2> QED BY <1>0, <2>1 DEF DirectCounts, RunFrom, FirstPiped
<1> QED BY <1>1, <1>2, <1>3, <1>4 DEF DirectNext

\* The property follows from the invariant.
LEMMA DirectImplies ==
  ASSUME DirectIInv
  PROVE  PipedInOrder
BY DEF DirectIInv, PipedInOrder, AwaitsBlob, RunFrom, FirstPiped

\* Both pipes of server/deno.ts, and those of server/cloud.js whenever the
\* payload is no Blob, hand every message after the address to the connection
\* in order, and no more than one address is read.
THEOREM PipesKeepOrder ==
  ASSUME NEW k \in Kinds, NEW b
  PROVE  DirectInit(k, b) /\ [][DirectNext]_directVars => []PipedInOrder
<1>1. DirectInit(k, b) => DirectIInv BY DirectInitOK
<1>2. DirectIInv /\ [DirectNext]_directVars => DirectIInv'
  <2> SUFFICES ASSUME DirectIInv, [DirectNext]_directVars PROVE DirectIInv' OBVIOUS
  <2>1. CASE DirectNext
    <3>1. DirectTypeOK' BY <2>1, DirectTypes DEF DirectIInv
    <3>2. AwaitsBlob' <=> AwaitsBlob
      BY <2>1 DEF DirectNext, Message, ToBytesDone, Dialled, PipeToRemote, RemoteCloses, SocketCloses, AwaitsBlob
    <3> QED BY <2>1, <3>1, <3>2, DirectStep DEF DirectIInv
  <2>2. CASE UNCHANGED directVars
    BY <2>2 DEF directVars, DirectIInv, DirectTypeOK, DirectCounts, AwaitsBlob, RunFrom, FirstPiped
  <2> QED BY <2>1, <2>2
<1>3. DirectIInv => PipedInOrder BY DirectImplies
<1> QED BY <1>1, <1>2, <1>3, PTL

-----------------------------------------------------------------------------
(* The pairing of server/deno.ts.                                          *)

\* What the proof needs of the types.
PairTypeOK ==
  /\ tick \in Codes /\ mutex \in Requests \cup {NoOne}
  /\ \A c \in commands : c[2] \in Codes
  /\ group \in [Codes -> Entries \cup {NoOne}]
  /\ pc \in [Requests -> {"new", "refused", "lock", "opening", "first", "joined", "vanished", "thrown"}]
  /\ code \in [Requests -> Codes] /\ second \in [Requests -> BOOLEAN]

\* Who is between the test of the table and onopen holds the mutex.
OpeningHoldsMutex == \A r \in Requests : pc[r] = "opening" => mutex = r

\* What a request read in the table still holds in its onopen.
TestStillHolds ==
  \A r \in Requests : pc[r] = "opening" /\ second[r] = FALSE => group[code[r]] = NoOne

\* The inductive invariant.
PairIInv == PairTypeOK /\ OpeningHoldsMutex /\ TestStillHolds /\ WaitingFirstIsFindable

\* Nobody has come yet.
LEMMA PairInitOK ==
  ASSUME PairInit
  PROVE  PairIInv
<1>1. 0 \in Codes BY WorkerPairAssumption DEF Codes
<1>2. PairTypeOK BY <1>1 DEF PairInit, PairTypeOK
<1> QED BY <1>2 DEF PairInit, PairIInv, OpeningHoldsMutex, TestStillHolds, WaitingFirstIsFindable

\* Steps that move no request into or out of onopen and leave the table.
LEMMA PairQuiet ==
  ASSUME PairIInv,
         \/ Tick
         \/ \E g \in Manages : ManageOpen(g) \/ ManageDies(g) \/ ManageClosed(g)
         \/ UNCHANGED pairVars
  PROVE  PairIInv'
<1>1. /\ UNCHANGED <<commands, group, mutex, pc, code, second, broken>>
      /\ tick' = tick \/ (tick < MaxTick /\ tick' = tick + 1)
  BY DEF Tick, ManageOpen, ManageDies, ManageClosed, pairVars
<1>2. PairTypeOK'
  BY <1>1, WorkerPairAssumption DEF PairIInv, PairTypeOK, Codes
<1> QED BY <1>1, <1>2 DEF PairIInv, OpeningHoldsMutex, TestStillHolds, WaitingFirstIsFindable

\* A request gets its code, or is refused, before it stands anywhere.
LEMMA PairEnters ==
  ASSUME PairIInv, NEW r \in Requests, Connect(r) \/ DialBack(r)
  PROVE  PairIInv'
<1>1. /\ pc[r] = "new"
      /\ \E v \in {"refused", "lock"} : pc' = [pc EXCEPT ![r] = v]
      /\ UNCHANGED <<group, mutex, second, broken, tick>>
  BY DEF Connect, DialBack
<1>2. PICK v \in {"refused", "lock"} : pc' = [pc EXCEPT ![r] = v] BY <1>1
<1>3. /\ \E k \in Codes : code' = code \/ code' = [code EXCEPT ![r] = k]
      /\ \A c \in commands' : c[2] \in Codes
  <2>1. CASE Connect(r)
    <3>1. tick \in Codes BY DEF PairIInv, PairTypeOK
    <3>2. commands' \subseteq commands \cup {<<r, tick>>} BY <2>1 DEF Connect
    <3>3. code' = code \/ code' = [code EXCEPT ![r] = tick] BY <2>1 DEF Connect
    <3> QED BY <3>1, <3>2, <3>3 DEF PairIInv, PairTypeOK
  <2>2. CASE DialBack(r)
    BY <2>2 DEF DialBack, PairIInv, PairTypeOK
  <2> QED BY <2>1, <2>2
<1>4. PICK k \in Codes : code' = code \/ code' = [code EXCEPT ![r] = k] BY <1>3
<1>5. PairTypeOK' BY <1>1, <1>2, <1>3, <1>4 DEF PairIInv, PairTypeOK
<1>6. \A x \in Requests : x # r => pc'[x] = pc[x] /\ code'[x] = code[x]
  BY <1>2, <1>4 DEF PairIInv, PairTypeOK
<1>7. pc'[r] = v BY <1>2 DEF PairIInv, PairTypeOK
<1> QED BY <1>1, <1>5, <1>6, <1>7 DEF PairIInv, OpeningHoldsMutex, TestStillHolds, WaitingFirstIsFindable

\* The table is read by the one request that holds the mutex.
LEMMA PairAcquires ==
  ASSUME PairIInv, NEW r \in Requests, Acquire(r)
  PROVE  PairIInv'
<1>1. /\ mutex = NoOne /\ mutex' = r /\ pc' = [pc EXCEPT ![r] = "opening"]
      /\ second' = [second EXCEPT ![r] = (group[code[r]] # NoOne)]
      /\ UNCHANGED <<commands, group, code, broken, tick>>
  BY DEF Acquire
<1>2. (group[code[r]] # NoOne) \in BOOLEAN OBVIOUS
<1>3. PairTypeOK' BY <1>1, <1>2 DEF PairIInv, PairTypeOK
<1>4. /\ pc'[r] = "opening" /\ second'[r] = (group[code[r]] # NoOne)
      /\ \A x \in Requests : x # r => pc'[x] = pc[x] /\ second'[x] = second[x]
  BY <1>1 DEF PairIInv, PairTypeOK
<1>5. OpeningHoldsMutex'
  BY <1>1, <1>4, WorkerPairAssumption DEF PairIInv, OpeningHoldsMutex
<1>6. TestStillHolds'
  BY <1>1, <1>4 DEF PairIInv, TestStillHolds
<1>7. WaitingFirstIsFindable'
  BY <1>1, <1>4 DEF PairIInv, WaitingFirstIsFindable
<1> QED BY <1>3, <1>5, <1>6, <1>7 DEF PairIInv

\* The first socket of a code enters where nobody waits.
LEMMA PairOpensFirst ==
  ASSUME PairIInv, NEW r \in Requests, OpenFirst(r)
  PROVE  PairIInv'
<1> DEFINE e == [first |-> r, second |-> NoOne]
<1>1. /\ pc[r] = "opening" /\ second[r] = FALSE /\ mutex' = NoOne
      /\ group' = [group EXCEPT ![code[r]] = e] /\ pc' = [pc EXCEPT ![r] = "first"]
      /\ UNCHANGED <<commands, code, second, broken, tick>>
  <2>1. second[r] \in BOOLEAN BY DEF PairIInv, PairTypeOK
  <2> QED BY <2>1 DEF OpenFirst
<1>2. e \in Entries /\ e # NoOne /\ e.first = r BY WorkerPairAssumption DEF Entries
<1> HIDE DEF e
<1>3. PairTypeOK' BY <1>1, <1>2 DEF PairIInv, PairTypeOK
<1>4. code[r] \in Codes /\ group[code[r]] = NoOne BY <1>1 DEF PairIInv, PairTypeOK, TestStillHolds
<1>5. /\ pc'[r] = "first" /\ group'[code[r]] = e
      /\ \A x \in Requests : x # r => pc'[x] = pc[x] /\ pc[x] # "opening"
      /\ \A k \in Codes : k # code[r] => group'[k] = group[k]
  BY <1>1, <1>4, WorkerPairAssumption DEF PairIInv, PairTypeOK, OpeningHoldsMutex
<1>6. OpeningHoldsMutex' /\ TestStillHolds'
  BY <1>1, <1>5 DEF OpeningHoldsMutex, TestStillHolds
<1>7. WaitingFirstIsFindable'
  <2> SUFFICES ASSUME NEW x \in Requests, pc'[x] = "first", code[x] \notin broken
               PROVE  group'[code[x]] # NoOne /\ group'[code[x]].first = x
    BY <1>1 DEF WaitingFirstIsFindable
  <2>1. CASE x = r BY <2>1, <1>2, <1>5
  <2>2. CASE x # r
    <3>1. group[code[x]] # NoOne /\ group[code[x]].first = x
      BY <2>2, <1>5 DEF PairIInv, WaitingFirstIsFindable
    <3>2. code[x] # code[r] BY <3>1, <1>4
    <3>3. code[x] \in Codes BY DEF PairIInv, PairTypeOK
    <3> QED BY <3>1, <3>2, <3>3, <1>5
  <2> QED BY <2>1, <2>2
<1> QED BY <1>3, <1>6, <1>7 DEF PairIInv

\* The second socket leaves the entry to the first, which no longer waits.
LEMMA PairOpensSecond ==
  ASSUME PairIInv, NEW r \in Requests, OpenSecond(r)
  PROVE  PairIInv'
<1> DEFINE k == code[r]
<1> DEFINE f == group[k].first
<1> DEFINE e == [group[k] EXCEPT !.second = r]
<1>1. /\ pc[r] = "opening" /\ group[k] # NoOne /\ mutex' = NoOne
      /\ group' = [group EXCEPT ![k] = e]
      /\ pc' = [pc EXCEPT ![r] = "joined", ![f] = "joined"]
      /\ UNCHANGED <<commands, code, second, broken, tick>>
  BY DEF OpenSecond
<1>2. k \in Codes /\ group[k] \in Entries BY <1>1 DEF PairIInv, PairTypeOK
<1>3. f \in Requests /\ e \in Entries /\ e.first = f /\ e # NoOne
  BY <1>2, WorkerPairAssumption DEF Entries
<1> HIDE DEF e, f, k
<1>4. PairTypeOK' BY <1>1, <1>2, <1>3 DEF PairIInv, PairTypeOK
<1>5. /\ pc'[f] = "joined" /\ pc'[r] = "joined" /\ group'[k] = e
      /\ \A x \in Requests : x # r /\ x # f => pc'[x] = pc[x]
      /\ \A x \in Requests : x # r => pc[x] # "opening"
      /\ \A j \in Codes : j # k => group'[j] = group[j]
  BY <1>1, <1>2, <1>3 DEF PairIInv, PairTypeOK, OpeningHoldsMutex
<1>6. OpeningHoldsMutex' /\ TestStillHolds'
  BY <1>1, <1>3, <1>5 DEF OpeningHoldsMutex, TestStillHolds
<1>7. WaitingFirstIsFindable'
  <2> SUFFICES ASSUME NEW x \in Requests, pc'[x] = "first", code[x] \notin broken
               PROVE  group'[code[x]] # NoOne /\ group'[code[x]].first = x
    BY <1>1 DEF WaitingFirstIsFindable
  <2>1. x # r /\ x # f /\ pc[x] = "first" BY <1>5
  <2>2. group[code[x]] # NoOne /\ group[code[x]].first = x
    BY <2>1 DEF PairIInv, WaitingFirstIsFindable
  <2>3. code[x] # k BY <2>1, <2>2 DEF f
  <2>4. code[x] \in Codes BY DEF PairIInv, PairTypeOK
  <2> QED BY <2>2, <2>3, <2>4, <1>5
<1> QED BY <1>4, <1>6, <1>7 DEF PairIInv

\* A socket that never opens, or whose onopen throws, keeps the mutex.
LEMMA PairFails ==
  ASSUME PairIInv, NEW r \in Requests, OpenThrows(r) \/ NeverOpens(r)
  PROVE  PairIInv'
<1>1. /\ \E v \in {"thrown", "vanished"} : pc' = [pc EXCEPT ![r] = v]
      /\ UNCHANGED <<commands, group, mutex, code, second, broken, tick>>
  BY DEF OpenThrows, NeverOpens
<1>2. PICK v \in {"thrown", "vanished"} : pc' = [pc EXCEPT ![r] = v] BY <1>1
<1>3. PairTypeOK' BY <1>1, <1>2 DEF PairIInv, PairTypeOK
<1>4. pc'[r] = v /\ \A x \in Requests : x # r => pc'[x] = pc[x]
  BY <1>2 DEF PairIInv, PairTypeOK
<1> QED BY <1>1, <1>3, <1>4 DEF PairIInv, OpeningHoldsMutex, TestStillHolds, WaitingFirstIsFindable

\* A pipe that breaks clears the entry and marks its code.
LEMMA PairBreaks ==
  ASSUME PairIInv, NEW k \in Codes, PipeThrows(k)
  PROVE  PairIInv'
<1>1. /\ group' = [group EXCEPT ![k] = NoOne] /\ broken' = broken \cup {k}
      /\ UNCHANGED <<commands, mutex, pc, code, second, tick>>
  BY DEF PipeThrows
<1>2. PairTypeOK' BY <1>1 DEF PairIInv, PairTypeOK
<1>3. group'[k] = NoOne /\ \A j \in Codes : j # k => group'[j] = group[j]
  BY <1>1 DEF PairIInv, PairTypeOK
<1>4. \A x \in Requests : code[x] \in Codes BY DEF PairIInv, PairTypeOK
<1> QED BY <1>1, <1>2, <1>3, <1>4 DEF PairIInv, OpeningHoldsMutex, TestStillHolds, WaitingFirstIsFindable

\* server/deno.ts never overwrites the entry of a socket that waits for its
\* partner: the mutex spans the test of groupSocket and the entry in onopen.
THEOREM FirstStaysFindable ==
  PairInit /\ [][PairNext]_pairVars => []WaitingFirstIsFindable
<1>1. PairInit => PairIInv BY PairInitOK
<1>2. PairIInv /\ [PairNext]_pairVars => PairIInv'
  BY PairQuiet, PairEnters, PairAcquires, PairOpensFirst, PairOpensSecond, PairFails, PairBreaks
  DEF PairNext, Open
<1>3. PairIInv => WaitingFirstIsFindable BY DEF PairIInv
<1> QED BY <1>1, <1>2, <1>3, PTL

-----------------------------------------------------------------------------

(* server/cloud.js and server/deno.ts, one websocket with the streams of a *)
(* mux client.                                                             *)

\* Items of data: a stream, and the place in it; the address is in place 0.
Items == Nat \X Nat
\* The commands of frames.
Cmds == {"HDR", "SYN", "PSH", "FIN", "NOP"}
\* The frames that carry an id of a set.
Frames(ids) == [cmd : Cmds, id : ids, of : Streams, body : Seq(Items), odd : BOOLEAN]
\* A frame that shares its message with the mux version.
Odd(f) == f.odd = TRUE
\* What the message handler awaits.
Jobs == [op : {"dial", "early", "write"}, id : Ids, to : Nat \cup {None}, data : Seq(Items)]

\* The frames of the server.
OutFrames == [k : Nat, status : BOOLEAN]
\* The j-th data frame.
Data(j) == [k |-> j, status |-> j = 1]

\* What the proofs need of the types.
MuxTypes ==
  /\ plat \in {"cloud", "deno"} /\ ready \in BOOLEAN /\ swallowed \in BOOLEAN
  /\ sent \in [Streams -> Int] /\ \A s \in Streams : sent[s] >= -1
  /\ inq \in Seq(Frames(Streams))
  /\ remain = None \/ (remain \in Frames(Ids) /\ remain.cmd = "SYN")
  /\ busy = None \/ busy \in Jobs
  /\ sessions \subseteq Ids /\ parked \subseteq Ids
  /\ target \in [Ids -> Nat \cup {None}] /\ got \in [Ids -> Seq(Items)]
  /\ remote \in [Ids -> {"none", "open", "ended", "broken", "closed"}]
  /\ reader \in [Ids -> {"off", "run", "done"}]
  /\ spoken \in [Ids -> Nat] /\ left \in [Ids -> Nat]
  /\ out \in [Ids -> Seq(OutFrames)]

\* The id under which the server handles a frame: cloud.js reads the first SYN early.
HandledAs(f) == IF Odd(f) /\ plat = "cloud" THEN 0 ELSE f.id

\* The stages of an id: its SYN is on its way,
Announced(i) == \E j \in 1 .. Len(inq) : inq[j].cmd = "SYN" /\ HandledAs(inq[j]) = i
\* it waits for its address,
Waiting(i) == remain # None /\ remain.id = i
\* its address is being dialled or its early data written,
Dialling(i) == busy # None /\ busy.op \in {"dial", "early"} /\ busy.id = i
\* and its connection is read.
Started(i) == reader[i] # "off"
\* Only an id that the client has opened is at any of these.
Opened(i) == \E s \in Streams : sent[s] # -1 /\ (i = 0 \/ i = s)

\* The request comes first, then the version with the first SYN.
QueueHead ==
  /\ \A j \in 1 .. Len(inq) :
       Odd(inq[j]) => inq[j].cmd = "SYN" /\ (j = 1 \/ (j = 2 /\ inq[1].cmd = "HDR"))
  /\ \A j \in 1 .. Len(inq) :
       inq[j].cmd = "HDR" => j = 1 /\ ready = FALSE /\ 2 \in 1 .. Len(inq) /\ Odd(inq[2])
  /\ plat = "deno" /\ ready = TRUE => \A j \in 1 .. Len(inq) : ~Odd(inq[j])
  /\ ready = FALSE => \/ inq = <<>> /\ \A s \in Streams : sent[s] = -1
                      \/ inq # <<>> /\ (inq[1].cmd = "HDR" \/ Odd(inq[1]))
  /\ (\A s \in Streams : sent[s] = -1) => inq = <<>> /\ ready = FALSE

\* A SYN comes once for an id, after the client has opened it.
SynOnce ==
  /\ \A j, k \in 1 .. Len(inq) :
       inq[j].cmd = "SYN" /\ inq[k].cmd = "SYN" /\ HandledAs(inq[j]) = HandledAs(inq[k]) => j = k
  /\ \A j \in 1 .. Len(inq) : inq[j].cmd = "SYN" => sent[inq[j].id] # -1

\* An id is at one stage at a time.
OneStage(i) ==
  /\ Announced(i) => ~Waiting(i) /\ ~Dialling(i) /\ ~Started(i)
  /\ Waiting(i) => ~Dialling(i) /\ ~Started(i)
  /\ Dialling(i) => ~Started(i)
  /\ Announced(i) \/ Waiting(i) \/ Dialling(i) \/ Started(i) => Opened(i)

\* q holds the data frames 1 to n.
Plain(q, n) == Len(q) = n /\ \A j \in 1 .. n : q[j] = Data(j)
\* q holds the data frames 1 to n, and a FIN in the p-th place.
Ended(q, n, p) ==
  /\ Len(q) = n + 1 /\ p \in 1 .. n + 1 /\ q[p] = FinFrame
  /\ \A j \in 1 .. n + 1 : /\ j < p => q[j] = Data(j)
                           /\ j > p => q[j] = Data(j - 1)

\* What has been sent for an id, and that at most one FIN is still to come.
OutOf(i) ==
  /\ left[i] <= spoken[i] /\ (plat = "deno" /\ pipe = "run" => left[i] = 0)
  /\ ~Started(i) => i \notin sessions \cup parked /\ out[i] = <<>> /\ spoken[i] = 0
  /\ i \notin sessions \cap parked
  /\ i \in sessions \cup parked => Plain(out[i], spoken[i] - left[i])
  /\ Plain(out[i], spoken[i] - left[i]) \/ \E p \in Nat : Ended(out[i], spoken[i] - left[i], p)

\* The inductive invariant, without the data.
MuxCtl == MuxTypes /\ QueueHead /\ SynOnce /\ \A i \in Ids : OneStage(i) /\ OutOf(i)

-----------------------------------------------------------------------------
\* Nothing has happened yet.
LEMMA MuxInitCtl == ASSUME NEW p \in {"cloud", "deno"}, MuxInit(p) PROVE MuxCtl
<1> USE DEF MuxInit
<1>1. MuxTypes
  <2>1. /\ plat \in {"cloud", "deno"} /\ ready \in BOOLEAN /\ swallowed \in BOOLEAN
        /\ remain = None /\ busy = None /\ sessions \subseteq Ids /\ parked \subseteq Ids
    OBVIOUS
  <2>2. sent \in [Streams -> Int] /\ (\A s \in Streams : sent[s] >= -1) /\ inq \in Seq(Frames(Streams))
    OBVIOUS
  <2>3. target \in [Ids -> Nat \cup {None}] /\ got \in [Ids -> Seq(Items)]
    OBVIOUS
  <2>4. /\ remote \in [Ids -> {"none", "open", "ended", "broken", "closed"}]
        /\ reader \in [Ids -> {"off", "run", "done"}]
        /\ spoken \in [Ids -> Nat] /\ left \in [Ids -> Nat]
    OBVIOUS
  <2>5. out \in [Ids -> Seq(OutFrames)]
    OBVIOUS
  <2> QED
    BY <2>1, <2>2, <2>3, <2>4, <2>5, Zenon DEF MuxTypes
<1>2. QueueHead /\ SynOnce
  BY DEF QueueHead, SynOnce
<1>3. ASSUME NEW i \in Ids
      PROVE  OneStage(i) /\ OutOf(i)
  <2>1. OneStage(i)
    BY <1>3 DEF OneStage, Announced, Waiting, Dialling, Started
  <2>2. left[i] = 0 /\ spoken[i] = 0 /\ out[i] = <<>> /\ sessions = {} /\ parked = {}
    OBVIOUS
  <2>3. Plain(<<>>, 0)
    BY DEF Plain
  <2>4. OutOf(i)
    BY <2>2, <2>3 DEF OutOf
  <2> QED
    BY <2>1, <2>4
<1> QED
  BY <1>1, <1>2, <1>3 DEF MuxCtl

-----------------------------------------------------------------------------
\* A frame and its parts.
IsFrame(f, c, s, b) ==
  f \in Frames(Streams) /\ f.cmd = c /\ f.id = s /\ f.of = s /\ ~Odd(f) /\ f.body = b

\* The client sends a frame.
LEMMA FrameIs ==
  ASSUME NEW c \in Cmds, NEW s \in Streams, NEW b \in Seq(Items)
  PROVE  IsFrame(Frame(c, s, b), c, s, b)
  BY DEF Frame, Frames, Cmds, IsFrame, Odd

\* The body of the PSH that carries the k-th piece of data of s; the address goes with
\* the first.
Body(s, k) == IF k = 1 THEN << <<s, 0>>, <<s, 1>> >> ELSE << <<s, k>> >>

\* What stays as it is when the client moves.
ClientFixed == UNCHANGED <<plat, ready, remain, busy, pipe, sessions, connVars, out, parked, swallowed>>

\* A client's step that appends a frame.
Appends(f) ==
  /\ f \in Frames(Streams) /\ f.cmd \in {"SYN", "PSH", "FIN", "NOP"} /\ ~Odd(f) /\ f.of = f.id
  /\ inq' = Append(inq, f) /\ ClientFixed
  /\ \E t \in Streams : sent[t] # -1
  /\ f.cmd = "SYN" => sent[f.id] = -1 /\ sent' = [sent EXCEPT ![f.id] = 0]
  /\ f.cmd = "PSH" => /\ sent[f.id] >= 0 /\ sent' = [sent EXCEPT ![f.id] = @ + 1]
                      /\ f.body = Body(f.id, sent[f.id] + 1)
  /\ f.cmd \in {"FIN", "NOP"} => sent[f.id] # -1 /\ sent' = sent
  /\ f.cmd # "PSH" => f.body = <<>>

\* What a client's step is: its first frames, or one more.
FirstFrames(s) ==
  /\ \A t \in Streams : sent[t] = -1
  /\ sent' = [sent EXCEPT ![s] = 0] /\ ClientFixed
  /\ \E h, f \in Frames(Streams) :
       /\ inq' = <<h, f>> /\ h.cmd = "HDR" /\ ~Odd(h) /\ h.body = <<>> /\ h.of = h.id
       /\ f.cmd = "SYN" /\ Odd(f) /\ f.id = s /\ f.of = s /\ f.body = <<>>

\* Two items make a sequence of two.
LEMMA TwoItems == ASSUME NEW S, NEW x \in S, NEW y \in S PROVE <<x>> \o <<y>> = <<x, y>>
<1>1. <<x>> \in Seq(S) /\ <<y>> \in Seq(S) /\ <<x, y>> \in Seq(S)
  OBVIOUS
<1>2. Len(<<x>> \o <<y>>) = Len(<<x, y>>)
  OBVIOUS
<1>3. \A j \in 1 .. Len(<<x>> \o <<y>>) : (<<x>> \o <<y>>)[j] = <<x, y>>[j]
  OBVIOUS
<1>4. \A p, q \in Seq(S) : p \o q \in Seq(S)
  OBVIOUS
<1>5. PICK p \in Seq(S), q \in Seq(S) : p = <<x>> \o <<y>> /\ q = <<x, y>>
  BY <1>1, <1>4, Zenon
<1> QED
  BY <1>2, <1>3, <1>5, SeqEqual, Zenon

\* The four steps of a client.
LEMMA ClientSteps ==
  ASSUME MuxTypes, NEW s \in Streams, MuxClient(s)
  PROVE  FirstFrames(s) \/ \E f \in Frames(Streams) : f.id = s /\ Appends(f)
<1>0. PICK e \in Seq(Items) : e = <<>>
  <2>1. <<>> \in Seq(Items)
    OBVIOUS
  <2> QED
    BY <2>1, Zenon
<1>7. "HDR" \in Cmds /\ "SYN" \in Cmds /\ "PSH" \in Cmds /\ "FIN" \in Cmds /\ "NOP" \in Cmds
  BY DEF Cmds
<1>5. inq \in Seq(Frames(Streams)) /\ sent \in [Streams -> Int]
  BY DEF MuxTypes
<1> HIDE DEF MuxTypes
<1>1. CASE ClientOpen(s)
  <2>1. ClientFixed /\ sent[s] = -1 /\ sent' = [sent EXCEPT ![s] = 0]
    BY <1>1 DEF ClientOpen, ClientFixed
  <2>2. CASE \A t \in Streams : sent[t] = -1
    <3>1. inq' = << Frame("HDR", s, <<>>), [Frame("SYN", s, <<>>) EXCEPT !.odd = TRUE] >>
      BY <1>1, <2>2 DEF ClientOpen
    <3>2. PICK h : h = Frame("HDR", s, e) /\ IsFrame(h, "HDR", s, e)
      BY <1>7, FrameIs, Zenon
    <3>3. PICK f \in Frames(Streams) : /\ f = [Frame("SYN", s, <<>>) EXCEPT !.odd = TRUE]
                                       /\ f.cmd = "SYN" /\ Odd(f) /\ f.id = s /\ f.of = s /\ f.body = <<>>
      <4>1. PICK g : g = Frame("SYN", s, e) /\ IsFrame(g, "SYN", s, e)
      BY <1>7, FrameIs, Zenon
      <4>2. /\ [g EXCEPT !.odd = TRUE] \in Frames(Streams) /\ Odd([g EXCEPT !.odd = TRUE])
            /\ [g EXCEPT !.odd = TRUE].cmd = g.cmd /\ [g EXCEPT !.odd = TRUE].id = g.id
            /\ [g EXCEPT !.odd = TRUE].body = g.body /\ [g EXCEPT !.odd = TRUE].of = g.of
        BY <4>1 DEF Frames, Odd, IsFrame
      <4> QED
        BY <1>0, <4>1, <4>2, Zenon DEF IsFrame
    <3>4. inq' = <<h, f>>
      BY <1>0, <3>1, <3>2, <3>3, Zenon
    <3> QED
      BY <1>0, <2>1, <2>2, <3>2, <3>3, <3>4 DEF FirstFrames, IsFrame
  <2>3. CASE ~\A t \in Streams : sent[t] = -1
    <3>1. inq' = Append(inq, Frame("SYN", s, <<>>))
      BY <1>1, <2>3 DEF ClientOpen
    <3>2. PICK f : f = Frame("SYN", s, e) /\ IsFrame(f, "SYN", s, e)
      BY <1>7, FrameIs, Zenon
    <3> QED
      BY <1>0, <2>1, <2>3, <3>1, <3>2 DEF Appends, IsFrame
  <2> QED
    BY <2>2, <2>3
<1>2. CASE ClientWrite(s)
  <2>1. /\ ClientFixed /\ sent[s] \in 0 .. MaxData - 1 /\ sent' = [sent EXCEPT ![s] = @ + 1]
        /\ inq' = Append(inq, Frame("PSH", s,
              (IF sent[s] = 0 THEN << <<s, 0>> >> ELSE <<>>) \o << <<s, sent[s] + 1>> >>))
    BY <1>2 DEF ClientWrite, ClientFixed
  <2>2. sent[s] >= 0 /\ sent[s] # -1 /\ sent[s] \in Int
    BY <2>1, WorkerMuxAssumption
  <2>3. PICK b \in Seq(Items) : b = (IF sent[s] = 0 THEN << <<s, 0>> >> ELSE <<>>) \o << <<s, sent[s] + 1>> >>
    <3>1. s \in Nat /\ sent[s] + 1 \in Nat
      BY <2>2, WorkerMuxAssumption
    <3>2. <<s, 0>> \in Items /\ <<s, sent[s] + 1>> \in Items
      BY <3>1 DEF Items
    <3>3. << <<s, 0>> >> \in Seq(Items) /\ << <<s, sent[s] + 1>> >> \in Seq(Items)
      BY <3>2
    <3>4. \A p, q \in Seq(Items) : p \o q \in Seq(Items)
      OBVIOUS
    <3> QED
      BY <1>0, <3>3, <3>4, Zenon
  <2>4. PICK f : f = Frame("PSH", s, b) /\ IsFrame(f, "PSH", s, b)
      BY <1>7, FrameIs, Zenon
  <2>5. inq' = Append(inq, f)
    BY <2>1, <2>3, <2>4
  <2>6. b = Body(s, sent[s] + 1)
    <3>1. CASE sent[s] = 0
      <4>1. sent[s] + 1 = 1
        BY <3>1
      <4>2. << <<s, 0>> >> \o << <<s, 1>> >> = << <<s, 0>>, <<s, 1>> >>
        <5>1. s \in Nat
          BY WorkerMuxAssumption
        <5>2. <<s, 0>> \in Items /\ <<s, 1>> \in Items
          BY <5>1 DEF Items
        <5> QED
          BY <5>2, TwoItems, Zenon
      <4> QED
        BY <2>3, <3>1, <4>1, <4>2, Zenon DEF Body
    <3>2. CASE sent[s] # 0
      <4>1. sent[s] + 1 # 1
        BY <2>2, <3>2
      <4>2. \A x : <<>> \o <<x>> = <<x>>
        OBVIOUS
      <4> QED
        BY <2>3, <3>2, <4>1, <4>2, Zenon DEF Body
    <3> QED
      BY <3>1, <3>2
  <2> QED
    BY <2>1, <2>2, <2>4, <2>5, <2>6 DEF Appends, IsFrame
<1>3. CASE ClientFin(s)
  <2>1. /\ ClientFixed /\ sent[s] > 0 /\ sent' = sent /\ inq' = Append(inq, Frame("FIN", s, <<>>))
    BY <1>3 DEF ClientFin, ClientFixed
  <2>2. PICK f : f = Frame("FIN", s, e) /\ IsFrame(f, "FIN", s, e)
      BY <1>7, FrameIs, Zenon
  <2>3. sent[s] # -1
    BY <2>1
  <2> QED
    BY <1>0, <2>1, <2>2, <2>3 DEF Appends, IsFrame
<1>4. CASE ClientPing(s)
  <2>1. /\ ClientFixed /\ sent[s] # -1 /\ sent' = sent /\ inq = <<>> /\ inq' = << Frame("NOP", s, <<>>) >>
    BY <1>4 DEF ClientPing, ClientFixed, clientVars
  <2>2. PICK f : f = Frame("NOP", s, e) /\ IsFrame(f, "NOP", s, e)
      BY <1>7, FrameIs, Zenon
  <2>3. inq' = Append(inq, f)
    <3>1. Append(<<>>, f) = <<f>>
      OBVIOUS
    <3> QED
      BY <1>0, <2>1, <2>2, <3>1, Zenon
  <2> QED
    BY <1>0, <2>1, <2>2, <2>3 DEF Appends, IsFrame
<1> QED
  BY <1>1, <1>2, <1>3, <1>4 DEF MuxClient

\* The client's first two frames.
LEMMA FirstFramesCtl ==
  ASSUME MuxCtl, NEW s \in Streams, FirstFrames(s)
  PROVE  MuxCtl'
<1>1. MuxTypes /\ QueueHead /\ SynOnce
  BY DEF MuxCtl
<1>2. PICK h, f \in Frames(Streams) :
       /\ inq' = <<h, f>> /\ h.cmd = "HDR" /\ ~Odd(h) /\ h.body = <<>>
       /\ f.cmd = "SYN" /\ Odd(f) /\ f.id = s /\ f.body = <<>>
  BY DEF FirstFrames
<1>3. /\ UNCHANGED <<plat, ready, remain, busy, pipe, sessions, target, got, remote, reader, left, spoken,
                     out, parked, swallowed>>
      /\ sent' = [sent EXCEPT ![s] = 0] /\ \A t \in Streams : sent[t] = -1
  BY DEF FirstFrames, ClientFixed, connVars
<1>4. ready = FALSE
  BY <1>1, <1>3 DEF QueueHead
<1>5. /\ inq' \in Seq(Frames(Streams)) /\ Len(inq') = 2 /\ inq'[1] = h /\ inq'[2] = f
      /\ \A j \in 1 .. Len(inq') : j = 1 \/ j = 2
  BY <1>2
<1>6. sent' \in [Streams -> Int] /\ sent'[s] = 0 /\ \A t \in Streams : sent'[t] >= -1
  BY <1>1, <1>3 DEF MuxTypes
<1>7. MuxTypes'
  BY <1>1, <1>3, <1>5, <1>6, Zenon DEF MuxTypes
<1>8. QueueHead'
  <2>1. 2 \in 1 .. Len(inq') /\ 1 \in 1 .. Len(inq') /\ inq' # <<>>
    BY <1>5
  <2>2. sent'[s] # -1
    BY <1>6
  <2> QED
    BY <1>2, <1>3, <1>4, <1>5, <2>1, <2>2 DEF QueueHead
<1>9. SynOnce'
  BY <1>2, <1>3, <1>5, <1>6 DEF SynOnce
<1>10. ASSUME NEW i \in Ids
       PROVE  OneStage(i)' /\ OutOf(i)'
  <2>1. OneStage(i) /\ OutOf(i)
    BY DEF MuxCtl
  <2>2. OutOf(i)'
    BY <1>3, <2>1 DEF OutOf, Started
  <2>3. ~Waiting(i) /\ ~Dialling(i) /\ ~Started(i)
    BY <1>3, <2>1 DEF OneStage, Opened
  <2>4. ~Waiting(i)' /\ ~Dialling(i)' /\ ~Started(i)'
    BY <1>3, <2>3 DEF Waiting, Dialling, Started
  <2>5. Announced(i)' => Opened(i)'
    <3> SUFFICES ASSUME Announced(i)'
                 PROVE  Opened(i)'
      OBVIOUS
    <3>1. i = 0 \/ i = s
      BY <1>2, <1>3, <1>5 DEF Announced, HandledAs
    <3> QED
      BY <1>6, <3>1 DEF Opened
  <2> QED
    BY <2>2, <2>4, <2>5 DEF OneStage
<1> QED
  BY <1>7, <1>8, <1>9, <1>10 DEF MuxCtl

\* One more frame of the client.
LEMMA AppendsCtl ==
  ASSUME MuxCtl, NEW f \in Frames(Streams), Appends(f)
  PROVE  MuxCtl'
<1>1. MuxTypes /\ QueueHead /\ SynOnce
  BY DEF MuxCtl
<1>2. /\ UNCHANGED <<plat, ready, remain, busy, pipe, sessions, target, got, remote, reader, left, spoken,
                     out, parked, swallowed>>
      /\ inq' = Append(inq, f) /\ f.cmd \in {"SYN", "PSH", "FIN", "NOP"} /\ ~Odd(f)
      /\ \E t \in Streams : sent[t] # -1
  BY DEF Appends, ClientFixed, connVars
<1>3. f.id \in Streams /\ inq \in Seq(Frames(Streams)) /\ sent \in [Streams -> Int] /\ \A t \in Streams : sent[t] >= -1
  BY <1>1 DEF Frames, MuxTypes
<1>4. /\ inq' \in Seq(Frames(Streams)) /\ Len(inq') = Len(inq) + 1 /\ Len(inq) \in Nat
      /\ inq'[Len(inq) + 1] = f /\ \A j \in 1 .. Len(inq) : inq'[j] = inq[j]
  BY <1>2, <1>3
<1>5. PICK n \in Nat : n = Len(inq)
  BY <1>4
<1>6. sent' \in [Streams -> Int] /\ sent'[f.id] # -1 /\ \A t \in Streams : sent'[t] >= -1 /\ (t = f.id \/ sent'[t] = sent[t])
  BY <1>3 DEF Appends
<1>7. MuxTypes'
  BY <1>1, <1>2, <1>4, <1>6, Zenon DEF MuxTypes
<1>8. QueueHead'
  <2>1. inq # <<>> \/ ready = TRUE
    BY <1>1, <1>2 DEF QueueHead, MuxTypes
  <2>2. inq' # <<>> /\ (inq # <<>> => 1 \in 1 .. Len(inq) /\ inq'[1] = inq[1])
    BY <1>3, <1>4
  <2>3. \A j \in 1 .. Len(inq') : j \in 1 .. Len(inq) \/ inq'[j] = f
    BY <1>4
  <2>4. 2 \in 1 .. Len(inq) => 2 \in 1 .. Len(inq') /\ inq'[2] = inq[2]
    BY <1>4
  <2>5. \E t \in Streams : sent'[t] # -1
    BY <1>3, <1>6
  <2>6. \A j \in 1 .. Len(inq') :
          Odd(inq'[j]) => inq'[j].cmd = "SYN" /\ (j = 1 \/ (j = 2 /\ inq'[1].cmd = "HDR"))
    BY <1>1, <1>2, <1>4, <2>2, <2>3 DEF QueueHead
  <2>7. \A j \in 1 .. Len(inq') :
          inq'[j].cmd = "HDR" => j = 1 /\ ready' = FALSE /\ 2 \in 1 .. Len(inq') /\ Odd(inq'[2])
    BY <1>1, <1>2, <1>4, <2>3, <2>4 DEF QueueHead
  <2>8. plat' = "deno" /\ ready' = TRUE => \A j \in 1 .. Len(inq') : ~Odd(inq'[j])
    BY <1>1, <1>2, <1>4, <2>3 DEF QueueHead
  <2>9. ready' = FALSE => inq' # <<>> /\ (inq'[1].cmd = "HDR" \/ Odd(inq'[1]))
    BY <1>1, <1>2, <2>1, <2>2 DEF QueueHead
  <2> QED
    BY <2>5, <2>6, <2>7, <2>8, <2>9 DEF QueueHead
<1>9. SynOnce'
  <2>1. \A j \in 1 .. Len(inq') : j \in 1 .. Len(inq) \/ (j = Len(inq) + 1 /\ inq'[j] = f)
    BY <1>4
  <2>2. \A g : HandledAs(g)' = HandledAs(g)
    BY <1>2 DEF HandledAs
  <2>3. HandledAs(f) = f.id
    BY <1>2 DEF HandledAs
  <2>4. ASSUME NEW j \in 1 .. Len(inq), inq[j].cmd = "SYN"
        PROVE  /\ sent[inq[j].id] # -1 /\ inq[j].id \in Streams /\ sent'[inq[j].id] # -1
               /\ f.cmd = "SYN" => HandledAs(inq[j]) # f.id
    <3>1. inq[j].id \in Streams /\ sent[inq[j].id] # -1
      <4>1. inq[j] \in Frames(Streams)
        BY <1>3
      <4>2. inq[j].id \in Streams
        BY <4>1 DEF Frames
      <4> QED
        BY <1>1, <2>4, <4>2 DEF SynOnce
    <3>2. f.cmd = "SYN" => sent[f.id] = -1
      BY DEF Appends
    <3>3. f.id # 0
      BY <1>3, WorkerMuxAssumption
    <3>4. sent'[inq[j].id] # -1
      BY <1>6, <3>1
    <3> QED
      BY <3>1, <3>2, <3>3, <3>4 DEF HandledAs
  <2>5. \A j, k \in 1 .. Len(inq') :
          inq'[j].cmd = "SYN" /\ inq'[k].cmd = "SYN" /\ HandledAs(inq'[j]) = HandledAs(inq'[k]) => j = k
    BY <1>1, <1>4, <2>1, <2>3, <2>4 DEF SynOnce
  <2>6. \A j \in 1 .. Len(inq') : inq'[j].cmd = "SYN" => sent'[inq'[j].id] # -1
    BY <1>4, <1>6, <2>1, <2>4
  <2> QED
    BY <2>2, <2>5, <2>6 DEF SynOnce
<1>10. ASSUME NEW i \in Ids
       PROVE  OneStage(i)' /\ OutOf(i)'
  <2>1. OneStage(i) /\ OutOf(i)
    BY DEF MuxCtl
  <2>2. OutOf(i)'
    BY <1>2, <2>1 DEF OutOf, Started
  <2>3. Opened(i) => Opened(i)'
    BY <1>6 DEF Opened
  <2>4. (Waiting(i)' <=> Waiting(i)) /\ (Dialling(i)' <=> Dialling(i)) /\ (Started(i)' <=> Started(i))
    BY <1>2 DEF Waiting, Dialling, Started
  <2>5. Announced(i)' => Announced(i) \/ (f.cmd = "SYN" /\ i = f.id)
    BY <1>2, <1>4 DEF Announced, HandledAs
  <2>6. f.cmd = "SYN" /\ i = f.id => ~Opened(i) /\ Opened(i)'
    <3>1. f.id # 0
      BY <1>3, WorkerMuxAssumption
    <3>2. f.cmd = "SYN" => sent[f.id] = -1
      BY DEF Appends
    <3> QED
      BY <1>3, <1>6, <3>1, <3>2 DEF Opened
  <2> QED
    BY <2>1, <2>2, <2>3, <2>4, <2>5, <2>6 DEF OneStage
<1> QED
  BY <1>7, <1>8, <1>9, <1>10 DEF MuxCtl

-----------------------------------------------------------------------------
\* The steps that leave the client, the queue and a waiting SYN alone.
Beside == UNCHANGED <<plat, sent, inq, ready, remain, swallowed>>

\* A step beside the queue keeps the stages apart.
LEMMA BesideStage ==
  ASSUME MuxCtl, MuxTypes', Beside, \A i \in Ids : OutOf(i)',
         \A i \in Ids : Dialling(i)' => Dialling(i),
         \A i \in Ids : Started(i)' => Started(i) \/ (Dialling(i) /\ ~Dialling(i)')
  PROVE  MuxCtl'
<1>1. QueueHead' /\ SynOnce'
  <2>1. QueueHead /\ SynOnce
    BY DEF MuxCtl
  <2>2. \A g : HandledAs(g)' = HandledAs(g)
    BY DEF HandledAs, Beside
  <2>3. QueueHead'
    BY <2>1 DEF QueueHead, Beside
  <2>4. SynOnce'
    BY <2>1, <2>2 DEF SynOnce, Beside
  <2> QED
    BY <2>3, <2>4
<1>2. ASSUME NEW i \in Ids PROVE OneStage(i)'
  <2>1. OneStage(i)
    BY DEF MuxCtl
  <2>2. (Waiting(i)' <=> Waiting(i)) /\ (Opened(i)' <=> Opened(i)) /\ (Announced(i)' <=> Announced(i))
    BY DEF Beside, Waiting, Opened, Announced, HandledAs
  <2>3. (Dialling(i)' => Dialling(i)) /\ (Started(i)' => Started(i) \/ (Dialling(i) /\ ~Dialling(i)'))
    OBVIOUS
  <2> QED
    BY <2>1, <2>2, <2>3 DEF OneStage
<1> QED
  BY <1>1, <1>2 DEF MuxCtl

\* The handler dials.
LEMMA DialCtl ==
  ASSUME MuxCtl, DenoDial \/ CloudDial
  PROVE  MuxCtl'
<1>1. MuxTypes
  BY DEF MuxCtl
<1>2. /\ Beside /\ busy # None /\ busy.op = "dial"
      /\ UNCHANGED <<sessions, parked, got, reader, left, spoken, out>>
      /\ \/ /\ busy.to # None /\ busy' = [busy EXCEPT !.op = "early"]
            /\ remote' = [remote EXCEPT ![busy.id] = "open"]
            /\ target' = [target EXCEPT ![busy.id] = busy.to]
         \/ busy' = None /\ UNCHANGED <<remote, target>>
      /\ pipe' = pipe \/ pipe' = "dead"
  BY DEF DenoDial, CloudDial, Beside, Throw, clientVars
<1>3. busy \in Jobs /\ busy.id \in Ids /\ busy.to \in Nat \cup {None}
  BY <1>1, <1>2 DEF MuxTypes, Jobs
<1>4. busy' = None \/ (busy' \in Jobs /\ busy'.id = busy.id /\ busy'.op = "early")
  BY <1>2, <1>3 DEF Jobs
<1>5. /\ target' \in [Ids -> Nat \cup {None}]
      /\ remote' \in [Ids -> {"none", "open", "ended", "broken", "closed"}]
  BY <1>1, <1>2, <1>3 DEF MuxTypes
<1>6. MuxTypes'
  <2>1. busy' = None \/ busy' \in Jobs
    BY <1>4
  <2> QED
    BY <1>1, <1>2, <1>5, <2>1 DEF MuxTypes, Beside
<1>7. ASSUME NEW i \in Ids
      PROVE  /\ OutOf(i)' /\ (Dialling(i)' => Dialling(i)) /\ (Started(i)' => Started(i))
  <2>1. OutOf(i)
    BY DEF MuxCtl
  <2>2. OutOf(i)'
    BY <1>2, <2>1 DEF OutOf, Started, Beside
  <2>3. Dialling(i)' => Dialling(i)
    BY <1>2, <1>4 DEF Dialling
  <2>4. Started(i)' => Started(i)
    BY <1>2 DEF Started
  <2> QED
    BY <2>2, <2>3, <2>4
<1> QED
  BY <1>2, <1>6, <1>7, BesideStage

\* The handler has written, or failed to.
LEMMA WriteCtl ==
  ASSUME MuxCtl, EarlyWritten \/ EarlyFails \/ DataWritten \/ DataFails
  PROVE  MuxCtl'
<1>1. MuxTypes
  BY DEF MuxCtl
<1>2. /\ Beside /\ busy # None /\ busy' = None
      /\ UNCHANGED <<parked, target, remote, left, spoken, out>>
      /\ got' = got \/ got' = [got EXCEPT ![busy.id] = @ \o busy.data]
      /\ \/ UNCHANGED <<sessions, reader>>
         \/ /\ busy.op = "early" /\ sessions' = sessions \cup {busy.id}
            /\ reader' = [reader EXCEPT ![busy.id] = "run"]
      /\ pipe' = pipe \/ pipe' = "dead"
  BY DEF EarlyWritten, EarlyFails, DataWritten, DataFails, Beside, Throw, clientVars, connVars
<1>3. busy \in Jobs /\ busy.id \in Ids /\ busy.data \in Seq(Items)
  BY <1>1, <1>2 DEF MuxTypes, Jobs
<1>4. got' \in [Ids -> Seq(Items)]
  <2>1. got[busy.id] \o busy.data \in Seq(Items) /\ got \in [Ids -> Seq(Items)]
    BY <1>1, <1>3 DEF MuxTypes
  <2> QED
    BY <1>2, <2>1
<1>5. sessions' \subseteq Ids /\ reader' \in [Ids -> {"off", "run", "done"}]
  BY <1>1, <1>2, <1>3 DEF MuxTypes
<1>6. MuxTypes'
  BY <1>1, <1>2, <1>4, <1>5 DEF MuxTypes, Beside
<1>7. ASSUME NEW i \in Ids
      PROVE  /\ OutOf(i)' /\ (Dialling(i)' => Dialling(i))
             /\ Started(i)' => Started(i) \/ (Dialling(i) /\ ~Dialling(i)')
  <2>1. OutOf(i) /\ OneStage(i)
    BY DEF MuxCtl
  <2>2. ~Dialling(i)'
    BY <1>2 DEF Dialling
  <2>3. Started(i)' <=> Started(i) \/ (i = busy.id /\ reader' # reader)
    BY <1>1, <1>2, <1>3 DEF Started, MuxTypes
  <2>4. CASE UNCHANGED <<sessions, reader>>
    BY <1>2, <2>1, <2>2, <2>4 DEF OutOf, Started, Beside
  <2>5. CASE busy.op = "early" /\ sessions' = sessions \cup {busy.id} /\ reader' = [reader EXCEPT ![busy.id] = "run"]
    <3>1. CASE i = busy.id
      <4>1. Dialling(i) /\ ~Started(i)
        BY <1>2, <2>1, <2>5, <3>1 DEF Dialling, OneStage
      <4>2. /\ i \notin sessions \cup parked /\ out[i] = <<>> /\ spoken[i] = 0 /\ left[i] <= spoken[i]
            /\ left[i] \in Nat /\ (plat = "deno" /\ pipe = "run" => left[i] = 0)
        BY <1>1, <2>1, <4>1 DEF OutOf, MuxTypes
      <4>3. spoken[i] - left[i] = 0 /\ Plain(<<>>, 0)
        BY <4>2 DEF Plain
      <4>4. Started(i)'
        BY <1>1, <1>3, <2>5, <3>1 DEF Started, MuxTypes
      <4>5. OutOf(i)'
        BY <1>2, <2>5, <3>1, <4>2, <4>3, <4>4 DEF OutOf, Beside
      <4> QED
        BY <2>2, <4>1, <4>5
    <3>2. CASE i # busy.id
      <4>1. reader'[i] = reader[i] /\ (i \in sessions' <=> i \in sessions)
        BY <1>1, <2>5, <3>2 DEF MuxTypes
      <4> QED
        BY <1>2, <2>1, <2>2, <4>1 DEF OutOf, Started, Beside
    <3> QED
      BY <3>1, <3>2
  <2> QED
    BY <1>2, <2>4, <2>5
<1> QED
  BY <1>2, <1>6, <1>7, BesideStage

-----------------------------------------------------------------------------
\* The data frames and FIN are frames of the server.
LEMMA DataIs ==
  /\ FinFrame \in OutFrames
  /\ \A j \in Nat : Data(j) \in OutFrames
  /\ \A i, j : Sent(i, j) = Data(j)
  BY DEF FinFrame, OutFrames, Data, Sent

\* More data after the data, and after data and FIN.
LEMMA MoreData ==
  ASSUME NEW q \in Seq(OutFrames), NEW n \in Nat, NEW m \in Nat, NEW r \in Seq(OutFrames),
         Len(r) = m, \A j \in 1 .. m : r[j] = Data(n + j)
  PROVE  /\ q \o r \in Seq(OutFrames)
         /\ Plain(q, n) => Plain(q \o r, n + m)
         /\ \A p \in Nat : Ended(q, n, p) => Ended(q \o r, n + m, p)
<1>1. /\ q \o r \in Seq(OutFrames) /\ Len(q \o r) = Len(q) + m
      /\ \A j \in 1 .. Len(q) : (q \o r)[j] = q[j]
      /\ \A j \in 1 .. m : (q \o r)[Len(q) + j] = r[j]
  OBVIOUS
<1>2. PICK t \in Seq(OutFrames) : t = q \o r
  BY <1>1
<1>3. /\ Len(t) = Len(q) + m /\ Len(q) \in Nat
      /\ \A j \in 1 .. Len(q) : t[j] = q[j]
      /\ \A j \in 1 .. m : t[Len(q) + j] = Data(n + j)
  BY <1>1, <1>2
<1>4. Plain(q, n) => Plain(t, n + m)
  <2> SUFFICES ASSUME Plain(q, n)
               PROVE  Plain(t, n + m)
    OBVIOUS
  <2>1. Len(q) = n /\ \A j \in 1 .. n : q[j] = Data(j)
    BY DEF Plain
  <2>2. ASSUME NEW j \in 1 .. n + m PROVE t[j] = Data(j)
    <3>1. CASE j <= n
      BY <1>3, <2>1, <3>1
    <3>2. CASE j > n
      <4>1. j - n \in 1 .. m /\ n + (j - n) = j
        BY <3>2
      <4> QED
        BY <1>3, <2>1, <4>1
    <3> QED
      BY <3>1, <3>2
  <2> QED
    BY <1>3, <2>1, <2>2 DEF Plain
<1>5. ASSUME NEW p \in Nat, Ended(q, n, p)
      PROVE  Ended(t, n + m, p)
  <2>1. /\ Len(q) = n + 1 /\ p \in 1 .. n + 1 /\ q[p] = FinFrame
        /\ \A j \in 1 .. n + 1 : (j < p => q[j] = Data(j)) /\ (j > p => q[j] = Data(j - 1))
    BY <1>5 DEF Ended
  <2>2. ASSUME NEW j \in 1 .. (n + m) + 1
        PROVE  (j < p => t[j] = Data(j)) /\ (j > p => t[j] = Data(j - 1))
    <3>1. CASE j <= n + 1
      BY <1>3, <2>1, <3>1
    <3>2. CASE j > n + 1
      <4>1. PICK k \in 1 .. m : Len(q) + k = j /\ n + k = j - 1
        BY <2>1, <3>2
      <4>2. t[Len(q) + k] = Data(n + k)
        BY <1>3
      <4>3. ~(j < p)
        BY <2>1, <3>2
      <4> QED
        BY <4>1, <4>2, <4>3, Zenon
    <3> QED
      BY <3>1, <3>2
  <2>3. t[p] = FinFrame /\ Len(t) = (n + m) + 1 /\ p \in 1 .. (n + m) + 1
    BY <1>3, <2>1
  <2> QED
    BY <2>2, <2>3 DEF Ended
<1> QED
  BY <1>1, <1>2, <1>4, <1>5

\* A FIN after the data.
LEMMA FinAfterData ==
  ASSUME NEW q \in Seq(OutFrames), NEW n \in Nat, Plain(q, n)
  PROVE  Append(q, FinFrame) \in Seq(OutFrames) /\ Ended(Append(q, FinFrame), n, n + 1)
<1>1. Len(q) = n /\ \A j \in 1 .. n : q[j] = Data(j)
  BY DEF Plain
<1>2. PICK f \in OutFrames : f = FinFrame
  BY DataIs
<1>3. /\ Append(q, f) \in Seq(OutFrames) /\ Len(Append(q, f)) = Len(q) + 1
      /\ Append(q, f)[Len(q) + 1] = f /\ \A j \in 1 .. Len(q) : Append(q, f)[j] = q[j]
  OBVIOUS
<1> QED
  BY <1>1, <1>2, <1>3 DEF Ended

\* closeSession takes an id out of the table and owes it a FIN, or sends it.
LEMMA CloseOut ==
  ASSUME MuxTypes, \A j \in Ids : OutOf(j), NEW i \in Ids, CloseSession(i),
         UNCHANGED <<plat, pipe, spoken, left>>, \A j \in Ids : Started(j)' <=> Started(j)
  PROVE  /\ sessions' \subseteq Ids /\ parked' \subseteq Ids
         /\ remote' \in [Ids -> {"none", "open", "ended", "broken", "closed"}]
         /\ out' \in [Ids -> Seq(OutFrames)]
         /\ \A j \in Ids : OutOf(j)'
<1>1. \/ /\ sessions' = sessions \ {i} /\ i \in sessions
         /\ parked' = parked \cup {i} /\ out' = out /\ remote' = [remote EXCEPT ![i] = "closed"]
      \/ /\ sessions' = sessions \ {i} /\ i \in sessions
         /\ parked' = parked /\ out' = [out EXCEPT ![i] = Append(@, FinFrame)] /\ remote' = remote
      \/ UNCHANGED <<sessions, parked, out, remote>>
  <2>1. i \notin sessions => sessions \ {i} = sessions
    OBVIOUS
  <2>2. CASE plat = "cloud"
    BY <2>1, <2>2 DEF CloseSession, CloudCloseSession
  <2>3. CASE plat # "cloud"
    BY <2>1, <2>3 DEF CloseSession, DenoCloseSession
  <2> QED
    BY <2>2, <2>3
<1>2. /\ sessions \subseteq Ids /\ parked \subseteq Ids /\ out \in [Ids -> Seq(OutFrames)]
      /\ remote \in [Ids -> {"none", "open", "ended", "broken", "closed"}]
      /\ \A j \in Ids : spoken[j] \in Nat /\ left[j] \in Nat
  BY DEF MuxTypes
<1>3. PICK n \in Nat : n = spoken[i] - left[i]
  BY <1>2 DEF OutOf
<1>4. /\ Append(out[i], FinFrame) \in Seq(OutFrames)
      /\ i \in sessions => Ended(Append(out[i], FinFrame), n, n + 1)
  <2>1. PICK f \in OutFrames : f = FinFrame
    BY DataIs
  <2>2. out[i] \in Seq(OutFrames)
    BY <1>2
  <2>3. Append(out[i], f) \in Seq(OutFrames)
    BY <2>2
  <2>4. i \in sessions => Plain(out[i], n)
    BY <1>3 DEF OutOf
  <2> QED
    BY <2>1, <2>2, <2>3, <2>4, FinAfterData, Zenon
<1>5. /\ sessions' \subseteq Ids /\ parked' \subseteq Ids
      /\ remote' \in [Ids -> {"none", "open", "ended", "broken", "closed"}]
      /\ out' \in [Ids -> Seq(OutFrames)]
  BY <1>1, <1>2, <1>4
<1>6. ASSUME NEW j \in Ids
      PROVE  OutOf(j)'
  <2>1. OutOf(j) /\ (Started(j)' <=> Started(j)) /\ UNCHANGED <<plat, pipe, spoken, left>>
    OBVIOUS
  <2>2. CASE j # i
    <3>1. out'[j] = out[j] /\ (j \in sessions' <=> j \in sessions) /\ (j \in parked' <=> j \in parked)
      BY <1>1, <1>2, <2>2
    <3> QED
      BY <2>1, <3>1 DEF OutOf
  <2>3. CASE UNCHANGED <<sessions, parked, out, remote>>
    BY <2>1, <2>3 DEF OutOf
  <2>4. CASE j = i /\ i \in sessions /\ sessions' = sessions \ {i}
    <3>1. Started(i) /\ i \notin parked
      BY <2>1, <2>4 DEF OutOf
    <3>2. CASE parked' = parked \cup {i} /\ out' = out
      BY <1>1, <2>1, <2>4, <3>1, <3>2 DEF OutOf
    <3>3. CASE parked' = parked /\ out' = [out EXCEPT ![i] = Append(@, FinFrame)]
      <4>1. out'[i] = Append(out[i], FinFrame) /\ spoken'[i] - left'[i] = n
        BY <1>2, <1>3, <2>1, <3>3
      <4>2. Ended(out'[i], n, n + 1) /\ n + 1 \in Nat
        BY <1>4, <2>4, <4>1
      <4>3. i \notin sessions' \cup parked'
        BY <2>4, <3>1, <3>3
      <4> QED
        BY <2>1, <2>4, <3>1, <4>1, <4>2, <4>3 DEF OutOf
    <3>4. CASE UNCHANGED <<sessions, parked, out, remote>>
      BY <2>3, <3>4
    <3> QED
      BY <1>1, <3>2, <3>3, <3>4
  <2> QED
    BY <1>1, <2>2, <2>3, <2>4
<1> QED
  BY <1>5, <1>6

\* The reader of a connection passes on what it has read.
LEMMA ReadCtl ==
  ASSUME MuxCtl, NEW i \in Ids, DenoRead(i) \/ DenoSendFails(i) \/ CloudRead(i) \/ CloudSendPiece(i)
  PROVE  MuxCtl'
<1>1. MuxTypes /\ OutOf(i)
  BY DEF MuxCtl
<1>2. /\ Beside /\ UNCHANGED <<busy, pipe, sessions, target, got, remote, parked>>
      /\ reader' = reader \/ (reader[i] = "run" /\ reader' = [reader EXCEPT ![i] = "done"])
  BY DEF DenoRead, DenoSendFails, CloudRead, CloudSendPiece, Beside, clientVars
<1>3. /\ out \in [Ids -> Seq(OutFrames)] /\ spoken \in [Ids -> Nat] /\ left \in [Ids -> Nat]
      /\ left[i] <= spoken[i] /\ (plat = "deno" /\ pipe = "run" => left[i] = 0)
  BY <1>1 DEF MuxTypes, OutOf
<1>4. PICK n \in Nat : n = spoken[i] - left[i]
  BY <1>3
<1>5. PICK m \in Nat, a \in Nat, b \in Nat :
        \E r \in Seq(OutFrames) :
          /\ Len(r) = m /\ \A j \in 1 .. m : r[j] = Data(n + j)
          /\ spoken' = [spoken EXCEPT ![i] = a] /\ left' = [left EXCEPT ![i] = b]
          /\ out' = [out EXCEPT ![i] = @ \o r]
          /\ a - b = n + m /\ b <= a /\ (plat = "deno" /\ pipe = "run" => b = 0) /\ Started(i)
  <2>0. <<>> \in Seq(OutFrames)
    OBVIOUS
  <2>1. CASE DenoRead(i)
    <3>1. PICK m \in 1 .. 2 :
            /\ plat = "deno" /\ pipe = "run" /\ reader[i] = "run"
            /\ spoken' = [spoken EXCEPT ![i] = @ + m] /\ left' = left
            /\ out' = [out EXCEPT ![i] = @ \o [j \in 1 .. m |-> Sent(i, spoken[i] + j)]]
      BY <2>1 DEF DenoRead
    <3>2. PICK r : r = [j \in 1 .. m |-> Sent(i, spoken[i] + j)]
      OBVIOUS
    <3>3. \A j \in 1 .. m : Sent(i, spoken[i] + j) = Data(n + j) /\ Data(n + j) \in OutFrames
      <4>1. spoken[i] = n
        BY <1>3, <1>4, <3>1
      <4>2. \A j \in 1 .. m : n + j \in Nat
        OBVIOUS
      <4> QED
        BY <4>1, <4>2, DataIs, Zenon
    <3>4. r \in Seq(OutFrames) /\ Len(r) = m /\ \A j \in 1 .. m : r[j] = Data(n + j)
      BY <3>2, <3>3
    <3>5. /\ left' = [left EXCEPT ![i] = 0] /\ spoken' = [spoken EXCEPT ![i] = n + m] /\ Started(i)
      <4>1. left[i] = 0 /\ spoken[i] = n
        BY <1>3, <1>4, <3>1
      <4>2. left' = [left EXCEPT ![i] = 0]
        BY <1>3, <3>1, <4>1
      <4>3. spoken' = [spoken EXCEPT ![i] = n + m]
        BY <3>1, <4>1, Zenon
      <4>4. Started(i)
        BY <3>1 DEF Started
      <4> QED
        BY <4>2, <4>3, <4>4
    <3>6. out' = [out EXCEPT ![i] = @ \o r]
      BY <3>1, <3>2
    <3>7. m \in Nat /\ n + m \in Nat /\ (n + m) - 0 = n + m /\ 0 <= n + m /\ 0 \in Nat
      OBVIOUS
    <3> QED
      BY <3>4, <3>5, <3>6, <3>7
  <2>2. CASE CloudRead(i)
    <3>1. PICK m \in 1 .. 2 :
            /\ plat = "cloud" /\ reader[i] = "run" /\ left[i] = 0 /\ out' = out
            /\ spoken' = [spoken EXCEPT ![i] = @ + m] /\ left' = [left EXCEPT ![i] = m]
      BY <2>2 DEF CloudRead
    <3>2. out' = [out EXCEPT ![i] = @ \o <<>>]
      BY <1>3, <3>1
    <3>3. spoken' = [spoken EXCEPT ![i] = n + m] /\ Started(i)
      <4>1. spoken[i] = n
        BY <1>3, <1>4, <3>1
      <4>2. spoken' = [spoken EXCEPT ![i] = n + m]
        BY <3>1, <4>1, Zenon
      <4>3. Started(i)
        BY <3>1 DEF Started
      <4> QED
        BY <4>2, <4>3
    <3>4. PICK r \in Seq(OutFrames) : r = <<>>
      BY <2>0, Zenon
    <3>5. Len(r) = 0 /\ \A j \in 1 .. 0 : r[j] = Data(n + j)
      BY <3>4
    <3>6. m \in Nat /\ n + m \in Nat /\ (n + m) - m = n + 0 /\ m <= n + m /\ 0 \in Nat
      OBVIOUS
    <3>7. plat # "deno"
      BY <3>1
    <3> QED
      BY <3>1, <3>2, <3>3, <3>4, <3>5, <3>6, <3>7
  <2>3. CASE DenoSendFails(i)
    <3>1. PICK m \in 1 .. 2 :
            /\ pipe = "dead" /\ reader[i] = "run" /\ out' = out
            /\ spoken' = [spoken EXCEPT ![i] = @ + m] /\ left' = [left EXCEPT ![i] = @ + m]
      BY <2>3 DEF DenoSendFails
    <3>2. out' = [out EXCEPT ![i] = @ \o <<>>]
      BY <1>3, <3>1
    <3>3. PICK a \in Nat, b \in Nat : a = spoken[i] + m /\ b = left[i] + m /\ b <= a /\ a - b = n + 0
      <4>1. spoken[i] \in Nat /\ left[i] \in Nat /\ left[i] <= spoken[i] /\ n = spoken[i] - left[i]
        BY <1>3, <1>4
      <4>2. /\ spoken[i] + m \in Nat /\ left[i] + m \in Nat /\ left[i] + m <= spoken[i] + m
            /\ (spoken[i] + m) - (left[i] + m) = n + 0
        BY <4>1
      <4> QED
        BY <4>2, Zenon
    <3>4. spoken' = [spoken EXCEPT ![i] = a] /\ left' = [left EXCEPT ![i] = b] /\ Started(i)
      BY <3>1, <3>3, Zenon DEF Started
    <3>5. PICK r \in Seq(OutFrames) : r = <<>>
      BY <2>0, Zenon
    <3>6. Len(r) = 0 /\ (\A j \in 1 .. 0 : r[j] = Data(n + j)) /\ 0 \in Nat /\ pipe # "run"
      BY <3>1, <3>5
    <3> QED
      BY <3>2, <3>3, <3>4, <3>5, <3>6
  <2>4. CASE CloudSendPiece(i)
    <3>1. /\ plat = "cloud" /\ left[i] > 0 /\ left' = [left EXCEPT ![i] = @ - 1] /\ spoken' = spoken
          /\ out' = [out EXCEPT ![i] = Append(@, Sent(i, spoken[i] - left[i] + 1))]
      BY <2>4 DEF CloudSendPiece
    <3>2. PICK d \in OutFrames : d = Data(n + 1) /\ d = Sent(i, spoken[i] - left[i] + 1)
      BY <1>4, DataIs
    <3>3. out' = [out EXCEPT ![i] = @ \o <<d>>]
      <4>1. out[i] \in Seq(OutFrames)
        BY <1>3
      <4>2. Append(out[i], d) = out[i] \o <<d>>
        BY <4>1
      <4> QED
        BY <1>3, <3>1, <3>2, <4>2
    <3>4. PICK r \in Seq(OutFrames) : r = <<d>>
      <4>1. <<d>> \in Seq(OutFrames)
        OBVIOUS
      <4> QED
        BY <4>1, Zenon
    <3>5. Len(r) = 1 /\ \A j \in 1 .. 1 : r[j] = Data(n + j)
      BY <3>2, <3>4
    <3>6. Started(i) /\ plat # "deno"
      BY <1>1, <1>3, <3>1 DEF OutOf
    <3>7. PICK a \in Nat, b \in Nat : a = spoken[i] /\ b = left[i] - 1 /\ b <= a /\ a - b = n + 1
      BY <1>3, <1>4, <3>1
    <3>8. spoken' = [spoken EXCEPT ![i] = a] /\ left' = [left EXCEPT ![i] = b]
      BY <1>3, <3>1, <3>7
    <3> QED
      BY <3>3, <3>4, <3>5, <3>6, <3>7, <3>8
  <2> QED
    BY <2>1, <2>2, <2>3, <2>4
<1>6. PICK r \in Seq(OutFrames) :
          /\ Len(r) = m /\ \A j \in 1 .. m : r[j] = Data(n + j)
          /\ spoken' = [spoken EXCEPT ![i] = a] /\ left' = [left EXCEPT ![i] = b]
          /\ out' = [out EXCEPT ![i] = @ \o r]
          /\ a - b = n + m /\ b <= a /\ (plat = "deno" /\ pipe = "run" => b = 0) /\ Started(i)
  BY <1>5
<1>7. /\ out[i] \o r \in Seq(OutFrames)
      /\ Plain(out[i], n) => Plain(out[i] \o r, n + m)
      /\ \A p \in Nat : Ended(out[i], n, p) => Ended(out[i] \o r, n + m, p)
  <2>1. out[i] \in Seq(OutFrames)
    BY <1>3
  <2> QED
    BY <1>6, <2>1, MoreData, Zenon
<1>8. MuxTypes'
  <2>1. /\ out' \in [Ids -> Seq(OutFrames)] /\ spoken' \in [Ids -> Nat] /\ left' \in [Ids -> Nat]
    BY <1>3, <1>6, <1>7
  <2>2. reader' \in [Ids -> {"off", "run", "done"}]
    BY <1>1, <1>2 DEF MuxTypes
  <2> QED
    BY <1>1, <1>2, <2>1, <2>2 DEF MuxTypes, Beside
<1>9. ASSUME NEW j \in Ids
       PROVE  (Dialling(j)' <=> Dialling(j)) /\ (Started(j)' <=> Started(j))
  <2>1. reader \in [Ids -> {"off", "run", "done"}]
    BY <1>1 DEF MuxTypes
  <2> QED
    BY <1>2, <2>1 DEF Dialling, Started
<1>10. ASSUME NEW j \in Ids
      PROVE  OutOf(j)'
  <2>1. OutOf(j)
    BY DEF MuxCtl
  <2>2. CASE j # i
    <3>1. out'[j] = out[j] /\ spoken'[j] = spoken[j] /\ left'[j] = left[j]
      BY <1>3, <1>6, <2>2
    <3> QED
      BY <1>2, <1>9, <2>1, <3>1 DEF OutOf, Beside
  <2>3. CASE j = i
    <3>1. out'[i] = out[i] \o r /\ spoken'[i] = a /\ left'[i] = b
      BY <1>3, <1>6
    <3>2. Plain(out[i], n) => Plain(out'[i], spoken'[i] - left'[i])
      BY <1>6, <1>7, <3>1
    <3>3. \A p \in Nat : Ended(out[i], n, p) => Ended(out'[i], spoken'[i] - left'[i], p)
      BY <1>6, <1>7, <3>1
    <3>4. Started(i)' /\ left'[i] <= spoken'[i] /\ (plat' = "deno" /\ pipe' = "run" => left'[i] = 0)
      BY <1>2, <1>6, <1>9, <3>1 DEF Beside
    <3>5. UNCHANGED <<sessions, parked>>
      BY <1>2
    <3>6. /\ i \notin sessions \cap parked
          /\ i \in sessions \cup parked => Plain(out[i], n)
          /\ Plain(out[i], n) \/ \E p \in Nat : Ended(out[i], n, p)
      BY <1>4, <2>1, <2>3 DEF OutOf
    <3> QED
      BY <2>3, <3>2, <3>3, <3>4, <3>5, <3>6 DEF OutOf
  <2> QED
    BY <2>2, <2>3
<1> QED
  BY <1>2, <1>8, <1>10, <1>9, BesideStage

\* A connection ends, its reader notices, and a FIN that waited is sent.
LEMMA EndCtl ==
  ASSUME MuxCtl, NEW i \in Ids, ReaderEnds(i) \/ CloudSendFails(i) \/ RemoteEnds(i) \/ SendParkedFin(i)
  PROVE  MuxCtl'
<1>1. MuxTypes /\ \A j \in Ids : OutOf(j)
  BY DEF MuxCtl
<1>2. Beside /\ UNCHANGED <<busy, pipe, target, got, left, spoken>>
  BY DEF ReaderEnds, CloudSendFails, RemoteEnds, SendParkedFin, Beside, clientVars, connVars
<1>3. CASE ReaderEnds(i)
  <2>1. /\ CloseSession(i) /\ reader[i] = "run" /\ reader' = [reader EXCEPT ![i] = "done"]
        /\ UNCHANGED <<plat, pipe, spoken, left>>
    BY <1>3 DEF ReaderEnds
  <2>2. reader \in [Ids -> {"off", "run", "done"}]
    BY <1>1 DEF MuxTypes
  <2>3. reader' \in [Ids -> {"off", "run", "done"}] /\ \A j \in Ids : Started(j)' <=> Started(j)
    BY <2>1, <2>2 DEF Started
  <2>4. /\ sessions' \subseteq Ids /\ parked' \subseteq Ids
        /\ remote' \in [Ids -> {"none", "open", "ended", "broken", "closed"}]
        /\ out' \in [Ids -> Seq(OutFrames)]
        /\ \A j \in Ids : OutOf(j)'
    BY <1>1, <2>1, <2>3, CloseOut
  <2>5. MuxTypes'
    BY <1>1, <1>2, <2>3, <2>4 DEF MuxTypes, Beside
  <2>6. \A j \in Ids : Dialling(j)' => Dialling(j)
    BY <1>2 DEF Dialling
  <2> QED
    BY <1>2, <2>3, <2>4, <2>5, <2>6, BesideStage
<1>4. CASE RemoteEnds(i)
  <2>1. /\ remote' = [remote EXCEPT ![i] = "ended"] \/ remote' = [remote EXCEPT ![i] = "broken"]
        /\ UNCHANGED <<sessions, reader, out, parked>>
    BY <1>4 DEF RemoteEnds
  <2>2. remote' \in [Ids -> {"none", "open", "ended", "broken", "closed"}]
    BY <1>1, <2>1 DEF MuxTypes
  <2>3. MuxTypes'
    BY <1>1, <1>2, <2>1, <2>2 DEF MuxTypes, Beside
  <2>4. ASSUME NEW j \in Ids
        PROVE  OutOf(j)' /\ (Dialling(j)' => Dialling(j)) /\ (Started(j)' => Started(j))
    BY <1>1, <1>2, <2>1 DEF OutOf, Dialling, Started, Beside
  <2> QED
    BY <1>2, <2>3, <2>4, BesideStage
<1>5. CASE CloudSendFails(i)
  <2>1. /\ reader[i] = "run" /\ reader' = [reader EXCEPT ![i] = "done"]
        /\ remote' = [remote EXCEPT ![i] = "closed"] /\ out' = out
        /\ parked' = IF i \in sessions THEN parked \cup {i} ELSE parked
        /\ sessions' = sessions \ {i}
    BY <1>5 DEF CloudSendFails
  <2>2. /\ reader \in [Ids -> {"off", "run", "done"}]
        /\ remote \in [Ids -> {"none", "open", "ended", "broken", "closed"}]
        /\ sessions \subseteq Ids /\ parked \subseteq Ids
    BY <1>1 DEF MuxTypes
  <2>3. /\ reader' \in [Ids -> {"off", "run", "done"}]
        /\ remote' \in [Ids -> {"none", "open", "ended", "broken", "closed"}]
        /\ sessions' \subseteq Ids /\ parked' \subseteq Ids
    BY <2>1, <2>2
  <2>4. MuxTypes'
    BY <1>1, <1>2, <2>1, <2>3 DEF MuxTypes, Beside
  <2>5. ASSUME NEW j \in Ids
        PROVE  OutOf(j)' /\ (Dialling(j)' => Dialling(j)) /\ (Started(j)' <=> Started(j))
    <3>1. (Dialling(j)' <=> Dialling(j)) /\ (Started(j)' <=> Started(j))
      BY <1>2, <2>1, <2>2 DEF Dialling, Started
    <3>2. /\ j \in sessions' => j \in sessions
          /\ j \in sessions' \cup parked' <=> j \in sessions \cup parked
          /\ j \notin sessions \cap parked => j \notin sessions' \cap parked'
      BY <2>1
    <3>3. OutOf(j) /\ UNCHANGED <<plat, pipe, left, spoken, out>>
      BY <1>1, <1>2, <2>1 DEF Beside
    <3> QED
      BY <3>1, <3>2, <3>3 DEF OutOf
  <2> QED
    BY <1>2, <2>4, <2>5, BesideStage
<1>6. CASE SendParkedFin(i) /\ pipe # "run"
  <2>1. parked' = parked \ {i} /\ UNCHANGED <<sessions, reader, remote, out>>
    BY <1>6 DEF SendParkedFin, connVars
  <2>2. MuxTypes'
    BY <1>1, <1>2, <2>1 DEF MuxTypes, Beside
  <2>3. ASSUME NEW j \in Ids
        PROVE  OutOf(j)' /\ (Dialling(j)' => Dialling(j)) /\ (Started(j)' => Started(j))
    BY <1>1, <1>2, <2>1 DEF OutOf, Dialling, Started, Beside
  <2> QED
    BY <1>2, <2>2, <2>3, BesideStage
<1>7. CASE SendParkedFin(i) /\ pipe = "run"
  <2>1. /\ i \in parked /\ parked' = parked \ {i} /\ out' = [out EXCEPT ![i] = Append(@, FinFrame)]
        /\ UNCHANGED <<sessions, reader, remote>>
    BY <1>7 DEF SendParkedFin, connVars
  <2>2. out \in [Ids -> Seq(OutFrames)] /\ spoken[i] \in Nat /\ left[i] \in Nat /\ OutOf(i)
    BY <1>1 DEF MuxTypes
  <2>3. PICK n \in Nat : n = spoken[i] - left[i]
    BY <2>2 DEF OutOf
  <2>4. Append(out[i], FinFrame) \in Seq(OutFrames) /\ Ended(Append(out[i], FinFrame), n, n + 1)
    <3>1. out[i] \in Seq(OutFrames) /\ Plain(out[i], n)
      BY <2>1, <2>2, <2>3 DEF OutOf
    <3> QED
      BY <3>1, FinAfterData, Zenon
  <2>5. out' \in [Ids -> Seq(OutFrames)] /\ parked' \subseteq Ids
    BY <1>1, <2>1, <2>2, <2>4 DEF MuxTypes
  <2>6. MuxTypes'
    BY <1>1, <1>2, <2>1, <2>5 DEF MuxTypes, Beside
  <2>7. ASSUME NEW j \in Ids
        PROVE  OutOf(j)' /\ (Dialling(j)' => Dialling(j)) /\ (Started(j)' => Started(j))
    <3>1. (Dialling(j)' => Dialling(j)) /\ (Started(j)' <=> Started(j))
      BY <1>2, <2>1 DEF Dialling, Started
    <3>2. CASE j # i
      <4>1. out'[j] = out[j] /\ (j \in parked' <=> j \in parked)
        BY <2>1, <2>2, <3>2
      <4> QED
        BY <1>1, <1>2, <2>1, <3>1, <4>1 DEF OutOf, Beside
    <3>3. CASE j = i
      <4>1. out'[i] = Append(out[i], FinFrame) /\ i \notin parked' /\ i \notin sessions /\ Started(i)
        BY <2>1, <2>2 DEF OutOf
      <4>2. Ended(out'[i], n, n + 1) /\ n + 1 \in Nat
        BY <2>4, <4>1
      <4>3. spoken'[i] - left'[i] = n
        BY <1>2, <2>3
      <4> QED
        BY <1>2, <2>1, <2>2, <3>1, <3>3, <4>1, <4>2, <4>3 DEF OutOf, Beside
    <3> QED
      BY <3>2, <3>3
  <2> QED
    BY <1>2, <2>6, <2>7, BesideStage
<1> QED
  BY <1>3, <1>4, <1>7, <1>5, <1>6

-----------------------------------------------------------------------------
\* The message handler takes the next message;
Moves ==
  /\ inq \in Seq(Frames(Streams)) /\ inq # <<>> /\ pipe = "run" /\ busy = None /\ inq' = Tail(inq)
  /\ UNCHANGED <<plat, sent, pipe, target, got, reader, left, spoken>>
  /\ ready' \in BOOLEAN /\ (ready' = FALSE => inq[1].cmd = "HDR")
  /\ plat = "deno" /\ ready' = TRUE => ready = TRUE \/ inq[1].cmd # "HDR"
\* it drops it, which it does to no piece of data,
Dropped == inq[1].cmd # "PSH" /\ UNCHANGED <<remain, busy, sessions, out, parked, remote, swallowed>>
\* or handles the frame c it has read from it.
Took(c) ==
  /\ HandleFrame(c) /\ c.cmd = inq[1].cmd /\ c.id = HandledAs(inq[1]) /\ c.of = inq[1].of
  /\ HandledAs(inq[1]) # 0 => c.body = inq[1].body

\* The steps of the message handler.
LEMMA HandlerSteps ==
  ASSUME MuxTypes, QueueHead, HandleFirst \/ HandleMessage
  PROVE  Moves /\ (Dropped \/ \E c \in Frames(Ids) : Took(c))
<1>1. inq \in Seq(Frames(Streams)) /\ inq # <<>> /\ ready \in BOOLEAN /\ plat \in {"cloud", "deno"}
  BY DEF MuxTypes, HandleFirst, HandleMessage
<1>2. PICK h \in Frames(Streams) : h = Head(inq) /\ h = inq[1]
  BY <1>1
<1>3. /\ h \in Frames(Ids) /\ h.id \in Streams /\ h.id # 0 /\ h.body \in Seq(Items) /\ h.cmd \in Cmds
      /\ 1 \in 1 .. Len(inq)
  BY <1>1, WorkerMuxAssumption DEF Frames, Ids
<1>4. CASE HandleMessage
  <2>1. Moves
    BY <1>1, <1>4 DEF Moves, HandleMessage, clientVars
  <2>2. HandleFrame(Misread(h))
    BY <1>2, <1>4 DEF HandleMessage
  <2>3. CASE Odd(h)
    <3>1. PICK b \in Seq(Items) : b = <<Stray>> \o h.body
      <4>1. Stray \in Items
        BY DEF Stray, Items
      <4>2. <<Stray>> \in Seq(Items)
        BY <4>1
      <4>3. \A x, y \in Seq(Items) : x \o y \in Seq(Items)
        OBVIOUS
      <4> QED
        BY <1>3, <4>2, <4>3, Zenon
    <3>2. PICK c : c = [h EXCEPT !.cmd = "SYN", !.id = 0, !.body = b, !.odd = FALSE]
      OBVIOUS
    <3>3. c \in Frames(Ids) /\ c.cmd = "SYN" /\ c.id = 0 /\ c.of = h.of
      BY <1>3, <3>2 DEF Frames, Cmds, Ids
    <3>4. HandleFrame(c)
      BY <2>2, <2>3, <3>1, <3>2, Zenon DEF Misread, Odd
    <3>5. h.cmd = "SYN" /\ plat = "cloud"
      BY <1>1, <1>2, <1>3, <1>4, <2>3 DEF QueueHead, HandleMessage
    <3>6. HandledAs(h) = 0
      BY <2>3, <3>5 DEF HandledAs
    <3>7. Took(c)
      BY <1>2, <3>3, <3>4, <3>5, <3>6 DEF Took
    <3> QED
      BY <2>1, <3>3, <3>7
  <2>4. CASE ~Odd(h)
    <3>1. Misread(h) = h
      BY <2>4, <1>2 DEF Misread, Odd, Frames
    <3>2. HandledAs(h) = h.id
      BY <2>4 DEF HandledAs
    <3>3. Took(h)
      BY <1>2, <2>2, <3>1, <3>2 DEF Took
    <3> QED
      BY <1>3, <2>1, <3>3
  <2> QED
    BY <2>3, <2>4
<1>5. CASE HandleFirst
  <2>0. h.cmd # "PSH"
    BY <1>1, <1>2, <1>3, <1>5 DEF QueueHead, HandleFirst
  <2>1. CASE plat = "cloud"
    <3>1. CloudFirst(h).ready = TRUE /\ CloudFirst(h).chunk = None
      BY DEF CloudFirst, CloudLength, LessThan, NaN
    <3>2. ready' = TRUE /\ Dropped
      BY <1>2, <1>5, <2>0, <2>1, <3>1 DEF HandleFirst, Dropped
    <3>3. Moves
      BY <1>1, <1>5, <2>1, <3>2 DEF Moves, HandleFirst, clientVars
    <3> QED
      BY <3>2, <3>3
  <2>2. CASE plat = "deno"
    <3>1. CASE h.cmd = "HDR"
      <4>1. DenoFirst(h).ready = FALSE /\ DenoFirst(h).chunk = None
        BY <3>1 DEF DenoFirst, DenoLength, LessThan, NaN
      <4>2. ready' = FALSE /\ Dropped
        BY <1>2, <1>5, <2>0, <2>2, <4>1 DEF HandleFirst, Dropped
      <4>3. Moves
        BY <1>1, <1>2, <1>5, <2>2, <3>1, <4>2 DEF Moves, HandleFirst, clientVars
      <4> QED
        BY <4>2, <4>3
    <3>2. CASE h.cmd # "HDR"
      <4>1. PICK c : c = [h EXCEPT !.odd = FALSE]
        OBVIOUS
      <4>2. c \in Frames(Ids) /\ c.cmd = h.cmd /\ c.id = h.id /\ c.of = h.of /\ c.body = h.body
        BY <1>3, <4>1 DEF Frames
      <4>3. DenoFirst(h).ready = TRUE /\ DenoFirst(h).chunk = c
        BY <3>2, <4>1 DEF DenoFirst, DenoLength, LessThan, NaN
      <4>4. ready' = TRUE /\ (Dropped \/ HandleFrame(c))
        BY <1>2, <1>5, <2>0, <2>2, <4>3 DEF HandleFirst, Dropped
      <4>5. Moves
        BY <1>1, <1>2, <1>5, <2>2, <3>2, <4>4 DEF Moves, HandleFirst, clientVars
      <4>6. HandledAs(h) = h.id
        BY <2>2 DEF HandledAs
      <4>7. HandleFrame(c) => Took(c)
        BY <1>2, <4>2, <4>6 DEF Took
      <4> QED
        BY <4>2, <4>4, <4>5, <4>7
    <3> QED
      BY <3>1, <3>2
  <2> QED
    BY <1>1, <2>1, <2>2
<1> QED
  BY <1>4, <1>5

\* The queue without its first message.
LEMMA TailCtl ==
  ASSUME MuxTypes, QueueHead, SynOnce, Moves
  PROVE  /\ inq' \in Seq(Frames(Streams)) /\ QueueHead' /\ SynOnce'
         /\ \A i : Announced(i)' => Announced(i)
         /\ \A i : inq[1].cmd = "SYN" /\ i = HandledAs(inq[1]) => Announced(i) /\ ~Announced(i)'
<1>1. /\ inq \in Seq(Frames(Streams)) /\ inq # <<>> /\ inq' = Tail(inq) /\ UNCHANGED <<plat, sent>>
      /\ ready' \in BOOLEAN /\ (ready' = FALSE => inq[1].cmd = "HDR")
      /\ plat = "deno" /\ ready' = TRUE => ready = TRUE \/ inq[1].cmd # "HDR"
  BY DEF Moves
<1>2. /\ inq' \in Seq(Frames(Streams)) /\ 1 \in 1 .. Len(inq) /\ Len(inq) \in Nat
      /\ \A j \in 1 .. Len(inq') : j + 1 \in 1 .. Len(inq) /\ j + 1 # 1 /\ j \in Nat /\ inq'[j] = inq[j + 1]
      /\ 2 \in 1 .. Len(inq) => 1 \in 1 .. Len(inq') /\ inq' # <<>> /\ inq'[1] = inq[2]
  BY <1>1
<1>3. \A g : HandledAs(g)' = HandledAs(g)
  BY <1>1 DEF HandledAs
<1>4. QueueHead'
  <2>1. ASSUME NEW j \in 1 .. Len(inq'), Odd(inq'[j])
        PROVE  inq'[j].cmd = "SYN" /\ j = 1 /\ inq[1].cmd = "HDR"
    <3>1. PICK k \in 1 .. Len(inq) : k = j + 1 /\ k # 1 /\ inq'[j] = inq[k]
      BY <1>2
    <3>2. inq[k].cmd = "SYN" /\ k = 2 /\ inq[1].cmd = "HDR"
      BY <2>1, <3>1 DEF QueueHead
    <3>3. j = 1
      BY <1>2, <3>1, <3>2
    <3> QED
      BY <3>1, <3>2, <3>3
  <2>2. \A j \in 1 .. Len(inq') : inq'[j].cmd # "HDR"
    <3> SUFFICES ASSUME NEW j \in 1 .. Len(inq')
                 PROVE  inq'[j].cmd # "HDR"
      OBVIOUS
    <3>1. PICK k \in 1 .. Len(inq) : k # 1 /\ inq'[j] = inq[k]
      BY <1>2
    <3> QED
      BY <3>1 DEF QueueHead
  <2>3. plat' = "deno" /\ ready' = TRUE => \A j \in 1 .. Len(inq') : ~Odd(inq'[j])
    <3> SUFFICES ASSUME plat = "deno", ready' = TRUE, NEW j \in 1 .. Len(inq'), Odd(inq'[j])
                 PROVE  FALSE
      BY <1>1
    <3>1. inq[1].cmd = "HDR"
      BY <2>1
    <3>2. ready = FALSE
      BY <1>2, <3>1 DEF QueueHead
    <3> QED
      BY <1>1, <3>1, <3>2
  <2>4. ready' = FALSE => inq' # <<>> /\ Odd(inq'[1])
    BY <1>1, <1>2 DEF QueueHead
  <2>5. ~\A s \in Streams : sent'[s] = -1
    BY <1>1 DEF QueueHead
  <2> QED
    BY <2>1, <2>2, <2>3, <2>4, <2>5 DEF QueueHead
<1>5. SynOnce'
  <2>1. ASSUME NEW j \in 1 .. Len(inq'), NEW k \in 1 .. Len(inq'), inq'[j].cmd = "SYN", inq'[k].cmd = "SYN",
               HandledAs(inq'[j]) = HandledAs(inq'[k])
        PROVE  j = k
    <3>1. PICK m \in 1 .. Len(inq) : m = j + 1 /\ inq'[j] = inq[m]
      BY <1>2
    <3>2. PICK n \in 1 .. Len(inq) : n = k + 1 /\ inq'[k] = inq[n]
      BY <1>2
    <3>3. m = n
      BY <2>1, <3>1, <3>2 DEF SynOnce
    <3> QED
      BY <1>2, <3>1, <3>2, <3>3
  <2>2. \A j \in 1 .. Len(inq') : inq'[j].cmd = "SYN" => sent'[inq'[j].id] # -1
    <3> SUFFICES ASSUME NEW j \in 1 .. Len(inq'), inq'[j].cmd = "SYN"
                 PROVE  sent'[inq'[j].id] # -1
      OBVIOUS
    <3>1. PICK m \in 1 .. Len(inq) : inq'[j] = inq[m]
      BY <1>2
    <3> QED
      BY <1>1, <3>1 DEF SynOnce
  <2> QED
    BY <1>3, <2>1, <2>2 DEF SynOnce
<1>6. ASSUME NEW i, Announced(i)' PROVE \E k \in 1 .. Len(inq) : k # 1 /\ inq[k].cmd = "SYN" /\ HandledAs(inq[k]) = i
  <2>1. PICK j \in 1 .. Len(inq') : inq'[j].cmd = "SYN" /\ HandledAs(inq'[j]) = i
    BY <1>3, <1>6 DEF Announced
  <2> QED
    BY <1>2, <2>1
<1>7. \A i : Announced(i)' => Announced(i)
  BY <1>6 DEF Announced
<1>8. ASSUME NEW i, inq[1].cmd = "SYN", i = HandledAs(inq[1])
      PROVE  Announced(i) /\ ~Announced(i)'
  <2>1. Announced(i)
    BY <1>2, <1>8 DEF Announced
  <2>2. ~Announced(i)'
    BY <1>2, <1>6, <1>8 DEF SynOnce
  <2> QED
    BY <2>1, <2>2
<1> QED
  BY <1>2, <1>4, <1>5, <1>7, <1>8

\* A waiting SYN takes in the frame; otherwise the frame stands for itself.
LEMMA MergeIs ==
  ASSUME MuxTypes, NEW c \in Frames(Ids)
  PROVE  /\ Merge(c) \in Frames(Ids)
         /\ remain = None => Merge(c) = c
         /\ remain # None => /\ Merge(c).cmd = "SYN" /\ Merge(c).id = remain.id /\ Merge(c).of = remain.of
                            /\ Merge(c).body = remain.body \o c.body
<1>1. CASE remain = None
  BY <1>1 DEF Merge
<1>2. CASE remain # None
  <2>1. remain \in Frames(Ids) /\ remain.cmd = "SYN"
    BY <1>2 DEF MuxTypes
  <2>2. PICK b \in Seq(Items) : b = remain.body \o c.body
    <3>1. remain.body \in Seq(Items) /\ c.body \in Seq(Items)
      BY <2>1 DEF Frames
    <3>2. \A x, y \in Seq(Items) : x \o y \in Seq(Items)
      OBVIOUS
    <3> QED
      BY <3>1, <3>2, Zenon
  <2>3. Merge(c) = [remain EXCEPT !.body = b]
    BY <1>2, <2>2 DEF Merge
  <2>4. /\ [remain EXCEPT !.body = b] \in Frames(Ids)
        /\ [remain EXCEPT !.body = b].cmd = remain.cmd /\ [remain EXCEPT !.body = b].id = remain.id
        /\ [remain EXCEPT !.body = b].of = remain.of /\ [remain EXCEPT !.body = b].body = b
    BY <2>1 DEF Frames
  <2> QED
    BY <1>2, <2>1, <2>2, <2>3, <2>4, Zenon
<1> QED
  BY <1>1, <1>2

\* An empty body is light.
LEMMA EmptyIsLight == Weight(<<>>) <= SynLimit
<1>1. {j \in DOMAIN <<>> : <<>>[j] # Stray} = {}
  OBVIOUS
<1>2. ~\E j \in DOMAIN <<>> : <<>>[j][2] = 0 /\ <<>>[j][1] \notin Short
  OBVIOUS
<1>3. Cardinality({}) = 0
  BY FS_EmptySet
<1>4. Weight(<<>>) = 0
  BY <1>1, <1>2, <1>3 DEF Weight
<1> QED
  BY <1>4, WorkerMuxAssumption

\* What HandleFrame does with a frame d: it waits for more of the address,
Waits(d) == remain' = d /\ busy' = None
\* has the address and dials it,
Dials(d) ==
  /\ remain' = None /\ d.body # <<>>
  /\ busy' = [op |-> "dial", id |-> d.id, to |-> ParseMuxAddress(d.body), data |-> Tail(d.body)]
\* has data for a connection,
Writes(d) ==
  /\ remain' = remain /\ remain = None /\ d.id \in sessions
  /\ busy' = [op |-> "write", id |-> d.id, to |-> None, data |-> d.body]
\* or awaits nothing.
Passes == UNCHANGED <<remain, busy>>

\* The cases of HandleFrame.
LEMMA HandleIs ==
  ASSUME MuxTypes, busy = None, NEW c \in Frames(Ids), NEW d \in Frames(Ids), d = Merge(c), HandleFrame(c)
  PROVE  \/ d.cmd = "SYN" /\ (Waits(d) \/ Dials(d)) /\ UNCHANGED <<sessions, out, parked, remote>>
         \/ d.cmd = "PSH" /\ d.id \in sessions /\ Writes(d) /\ UNCHANGED <<sessions, out, parked, remote>>
         \/ d.cmd = "PSH" /\ d.id \notin sessions /\ Passes /\ UNCHANGED <<sessions, out, parked, remote>>
         \/ d.cmd = "NOP" /\ Passes /\ UNCHANGED <<sessions, out, parked, remote>>
         \/ d.cmd = "FIN" /\ Passes /\ CloseSession(d.id)
<1>1. CASE d.cmd = "SYN" /\ HandleSyn(d)
  <2>1. Weight(d.body) <= SynLimit \/ d.body # <<>>
    BY EmptyIsLight
  <2> QED
    BY <1>1, <2>1 DEF HandleSyn, Waits, Dials
<1>2. CASE d.cmd = "NOP" /\ UNCHANGED <<remain, busy, sessions, out, parked, remote>>
  BY <1>2 DEF Passes
<1>3. CASE d.cmd = "FIN" /\ CloseSession(d.id) /\ UNCHANGED <<remain, busy>>
  BY <1>3 DEF Passes
<1>4. CASE /\ d.cmd = "PSH" /\ UNCHANGED <<remain, sessions, out, parked, remote>>
           /\ busy' = (IF d.id \in sessions
                       THEN [op |-> "write", id |-> d.id, to |-> None, data |-> d.body] ELSE None)
  <2>1. remain = None
    BY <1>4, MergeIs
  <2> QED
    BY <1>4, <2>1 DEF Writes, Passes
<1> QED
  BY <1>1, <1>2, <1>3, <1>4 DEF HandleFrame

\* What is then awaited is well formed, and at most one stage on.
LEMMA HandleStage ==
  ASSUME MuxTypes, busy = None, NEW c \in Frames(Ids), HandleFrame(c)
  PROVE  /\ remain' = None \/ (remain' \in Frames(Ids) /\ remain'.cmd = "SYN")
         /\ busy' = None \/ busy' \in Jobs
         /\ \A i \in Ids : Waiting(i)' \/ Dialling(i)' => Waiting(i) \/ (c.cmd = "SYN" /\ i = c.id)
         /\ \A i \in Ids : Waiting(i)' => ~Dialling(i)'
         /\ \/ UNCHANGED <<sessions, out, parked, remote>>
            \/ \E j \in Ids : CloseSession(j)
<1>1. PICK d \in Frames(Ids) : d = Merge(c)
  BY MergeIs
<1>2. d.id \in Ids /\ d.body \in Seq(Items)
  BY DEF Frames
<1>3. \A i \in Ids : d.cmd = "SYN" /\ i = d.id => Waiting(i) \/ (c.cmd = "SYN" /\ i = c.id)
  BY <1>1, MergeIs DEF Waiting
<1>4. \/ UNCHANGED <<sessions, out, parked, remote>>
      \/ \E j \in Ids : CloseSession(j)
  BY <1>1, <1>2, HandleIs
<1>5. SUFFICES /\ remain' = None \/ (remain' \in Frames(Ids) /\ remain'.cmd = "SYN")
               /\ busy' = None \/ busy' \in Jobs
               /\ \A i \in Ids : Waiting(i)' \/ Dialling(i)' => Waiting(i) \/ (c.cmd = "SYN" /\ i = c.id)
               /\ \A i \in Ids : Waiting(i)' => ~Dialling(i)'
  BY <1>4
<1>6. CASE d.cmd = "SYN" /\ Waits(d)
  BY <1>3, <1>6 DEF Waits, Waiting, Dialling
<1>7. CASE d.cmd = "SYN" /\ Dials(d)
  <2>1. PICK a \in Nat \cup {None}, e \in Seq(Items) : a = ParseMuxAddress(d.body) /\ e = Tail(d.body)
    <3>1. d.body # <<>>
      BY <1>7 DEF Dials
    <3>2. Head(d.body) \in Items /\ Tail(d.body) \in Seq(Items)
      BY <1>2, <3>1
    <3>3. ParseMuxAddress(d.body) \in Nat \cup {None}
      BY <3>2 DEF ParseMuxAddress, Items
    <3> QED
      BY <3>2, <3>3, Zenon
  <2>2. busy' = [op |-> "dial", id |-> d.id, to |-> a, data |-> e] /\ remain' = None
    BY <1>7, <2>1, Zenon DEF Dials
  <2>3. busy' \in Jobs /\ busy'.id = d.id
    BY <1>2, <2>2 DEF Jobs
  <2> QED
    BY <1>1, <1>3, <1>7, <2>2, <2>3, HandleIs DEF Waiting, Dialling
<1>8. CASE Writes(d)
  <2>1. busy' = [op |-> "write", id |-> d.id, to |-> None, data |-> d.body] /\ remain' = None
    BY <1>8 DEF Writes
  <2>2. busy' \in Jobs /\ busy'.op = "write"
    BY <1>2, <2>1 DEF Jobs
  <2> QED
    BY <2>1, <2>2 DEF Waiting, Dialling, Writes
<1>9. CASE Passes
  BY <1>9 DEF Passes, Waiting, Dialling, MuxTypes
<1> QED
  BY <1>1, <1>6, <1>7, <1>8, <1>9, HandleIs

\* The message handler keeps the control invariant.
LEMMA HandleCtl ==
  ASSUME MuxCtl, HandleFirst \/ HandleMessage
  PROVE  MuxCtl'
<1>1. MuxTypes /\ QueueHead /\ SynOnce /\ \A i \in Ids : OneStage(i) /\ OutOf(i)
  BY DEF MuxCtl
<1>2. Moves
  BY <1>1, HandlerSteps
<1>3. /\ busy = None /\ UNCHANGED <<plat, sent, pipe, target, got, reader, left, spoken>> /\ ready' \in BOOLEAN
  BY <1>2 DEF Moves
<1>4. /\ inq' \in Seq(Frames(Streams)) /\ QueueHead' /\ SynOnce'
      /\ \A i : Announced(i)' => Announced(i)
      /\ \A i : inq[1].cmd = "SYN" /\ i = HandledAs(inq[1]) => Announced(i) /\ ~Announced(i)'
  BY <1>1, <1>2, TailCtl
<1>5. /\ remain' = None \/ (remain' \in Frames(Ids) /\ remain'.cmd = "SYN")
      /\ busy' = None \/ busy' \in Jobs
      /\ \A i \in Ids : Waiting(i)' \/ Dialling(i)' => Waiting(i) \/ (Announced(i) /\ ~Announced(i)')
      /\ \A i \in Ids : Waiting(i)' => ~Dialling(i)'
      /\ \/ UNCHANGED <<sessions, out, parked, remote>>
         \/ \E j \in Ids : CloseSession(j)
      /\ swallowed' \in BOOLEAN
  <2>1. CASE Dropped
    BY <1>1, <1>3, <2>1 DEF Dropped, Waiting, Dialling, MuxTypes
  <2>2. CASE \E c \in Frames(Ids) : Took(c)
    <3>1. PICK c \in Frames(Ids) : HandleFrame(c) /\ c.cmd = inq[1].cmd /\ c.id = HandledAs(inq[1])
      BY <2>2 DEF Took
    <3>2. swallowed' \in BOOLEAN
      BY <1>1, <3>1 DEF HandleFrame, MuxTypes, Swallows
    <3> QED
      BY <1>1, <1>3, <1>4, <3>1, <3>2, HandleStage
  <2> QED
    BY <1>1, <2>1, <2>2, HandlerSteps
<1>6. \A i \in Ids : (Started(i)' <=> Started(i)) /\ (Opened(i)' <=> Opened(i)) /\ ~Dialling(i)
  BY <1>3 DEF Started, Opened, Dialling
<1>7. ASSUME NEW i \in Ids PROVE OneStage(i)'
  BY <1>1, <1>4, <1>5, <1>6 DEF OneStage
<1>8. /\ sessions' \subseteq Ids /\ parked' \subseteq Ids
      /\ remote' \in [Ids -> {"none", "open", "ended", "broken", "closed"}]
      /\ out' \in [Ids -> Seq(OutFrames)]
      /\ \A j \in Ids : OutOf(j)'
  <2>1. CASE UNCHANGED <<sessions, out, parked, remote>>
    <3>1. \A j \in Ids : OutOf(j)'
      BY <1>1, <1>3, <1>6, <2>1 DEF OutOf
    <3> QED
      BY <1>1, <2>1, <3>1 DEF MuxTypes
  <2>2. CASE \E j \in Ids : CloseSession(j)
    BY <1>1, <1>3, <1>6, <2>2, CloseOut
  <2> QED
    BY <1>5, <2>1, <2>2
<1>9. MuxTypes'
  BY <1>1, <1>3, <1>4, <1>5, <1>8 DEF MuxTypes
<1> QED
  BY <1>4, <1>7, <1>8, <1>9 DEF MuxCtl

\* Every step of the server and its clients does.
LEMMA MuxNextCtl == ASSUME MuxCtl, [MuxNext]_muxVars PROVE MuxCtl'
<1>1. MuxTypes
  BY DEF MuxCtl
<1>2. CASE \E s \in Streams : MuxClient(s)
  BY <1>1, <1>2, ClientSteps, FirstFramesCtl, AppendsCtl
<1>3. CASE MuxServer
  BY <1>3, HandleCtl, DialCtl, WriteCtl DEF MuxServer
<1>4. CASE \E i \in Ids : MuxReader(i) \/ RemoteEnds(i)
  BY <1>4, ReadCtl, EndCtl DEF MuxReader
<1>5. CASE UNCHANGED muxVars
  <2>1. UNCHANGED <<plat, sent, inq, ready, remain, busy, pipe, sessions, target, got, remote, reader,
                    left, spoken, out, parked, swallowed>>
    BY <1>5 DEF muxVars
  <2>2. Beside
    BY <2>1 DEF Beside
  <2>3. MuxTypes'
    BY <1>1, <2>1 DEF MuxTypes
  <2>4. \A i \in Ids : OutOf(i)' /\ (Dialling(i)' <=> Dialling(i)) /\ (Started(i)' <=> Started(i))
    BY <2>1 DEF MuxCtl, OutOf, Dialling, Started
  <2> QED
    BY <2>2, <2>3, <2>4, BesideStage
<1> QED
  BY <1>2, <1>3, <1>4, <1>5 DEF MuxNext

\* x is the part of d from a to b.
PartOf(x, d, a, b) ==
  x = SubSeq(d, a, b) /\ Len(x) = b - a + 1 /\ \A j \in 1 .. b - a + 1 : x[j] = d[a + j - 1]

\* A part of a sequence consists of the elements at its places.
LEMMA Part ==
  ASSUME NEW S, NEW d \in Seq(S), NEW a \in Nat \ {0}, NEW b \in Nat, b <= Len(d), a <= b + 1
  PROVE  \E x \in Seq(S) : PartOf(x, d, a, b)
<1>1. a \in Int /\ b \in Int /\ \A j \in a .. b : d[j] \in S
  OBVIOUS
<1>2. /\ SubSeq(d, a, b) \in Seq(S)
      /\ Len(SubSeq(d, a, b)) = IF a <= b THEN b - a + 1 ELSE 0
      /\ \A j \in 1 .. b - a + 1 : SubSeq(d, a, b)[j] = d[a + j - 1]
  BY <1>1, SubSeqProperties
<1>3. ~(a <= b) => b - a + 1 = 0
  OBVIOUS
<1>4. Len(SubSeq(d, a, b)) = b - a + 1
  BY <1>2, <1>3
<1> QED
  BY <1>2, <1>4, Zenon DEF PartOf

\* Data with a FIN in the p-th place is what InsertAt makes of it.
LEMMA EndedIsInsert ==
  ASSUME NEW q \in Seq(OutFrames), NEW n \in Nat, NEW p \in Nat, Ended(q, n, p),
         NEW d \in Seq(OutFrames), Plain(d, n)
  PROVE  q = InsertAt(d, p, FinFrame) /\ p \in 1 .. Len(d) + 1
<1>1. /\ Len(q) = n + 1 /\ p \in 1 .. n + 1 /\ q[p] = FinFrame
      /\ \A j \in 1 .. n + 1 : (j < p => q[j] = Data(j)) /\ (j > p => q[j] = Data(j - 1))
  BY DEF Ended
<1>2. Len(d) = n /\ \A j \in 1 .. n : d[j] = Data(j)
  BY DEF Plain
<1>3. PICK f \in OutFrames : f = FinFrame
  BY DataIs
<1>4. PICK x \in Seq(OutFrames) : /\ x = SubSeq(d, 1, p - 1) /\ Len(x) = p - 1
                                  /\ \A j \in 1 .. p - 1 : x[j] = d[j]
  <2>1. PICK m \in Nat, a \in Nat \ {0} : m = p - 1 /\ a = 1 /\ m <= Len(d) /\ a <= m + 1
    BY <1>1, <1>2
  <2>2. PICK x \in Seq(OutFrames) : PartOf(x, d, a, m)
    BY <2>1, Part
  <2>3. m - a + 1 = p - 1 /\ \A j \in 1 .. p - 1 : a + j - 1 = j
    BY <2>1
  <2>4. x = SubSeq(d, a, m) /\ Len(x) = m - a + 1 /\ \A j \in 1 .. m - a + 1 : x[j] = d[a + j - 1]
    BY <2>2, Zenon DEF PartOf
  <2>5. x = SubSeq(d, 1, p - 1)
    BY <2>1, <2>4, Zenon
  <2>6. Len(x) = p - 1
    BY <2>3, <2>4, Zenon
  <2>7. \A j \in 1 .. p - 1 : x[j] = d[j]
    BY <2>3, <2>4
  <2> QED
    BY <2>5, <2>6, <2>7, Zenon
<1>5. PICK y \in Seq(OutFrames) : /\ y = SubSeq(d, p, n) /\ Len(y) = n - p + 1
                                  /\ \A j \in 1 .. n - p + 1 : y[j] = d[p + j - 1]
  <2>1. p \in Nat \ {0} /\ n <= Len(d) /\ p <= n + 1
    BY <1>1, <1>2
  <2>2. PICK y \in Seq(OutFrames) : PartOf(y, d, p, n)
    BY <2>1, Part
  <2> QED
    BY <2>2, Zenon DEF PartOf
<1>6. PICK z \in Seq(OutFrames) : /\ z = x \o <<f>> /\ Len(z) = p
                                  /\ \A j \in 1 .. p - 1 : z[j] = x[j]
                                  /\ z[p] = f
  <2>1. <<f>> \in Seq(OutFrames) /\ Len(<<f>>) = 1 /\ <<f>>[1] = f
    OBVIOUS
  <2>2. PICK g \in Seq(OutFrames) : g = <<f>> /\ Len(g) = 1 /\ g[1] = f
    BY <2>1, Zenon
  <2>3. x \o g \in Seq(OutFrames) /\ Len(x \o g) = p /\ (x \o g)[p] = f /\ \A j \in 1 .. p - 1 : (x \o g)[j] = x[j]
    BY <1>1, <1>4, <2>2
  <2> QED
    BY <2>2, <2>3
<1>7. PICK w \in Seq(OutFrames) : /\ w = z \o y /\ Len(w) = n + 1
                                  /\ \A j \in 1 .. p : w[j] = z[j]
                                  /\ \A j \in p + 1 .. n + 1 : w[j] = y[j - p]
  <2>1. /\ z \o y \in Seq(OutFrames) /\ Len(z \o y) = Len(z) + Len(y)
        /\ \A j \in 1 .. Len(z) + Len(y) : (z \o y)[j] = IF j <= Len(z) THEN z[j] ELSE y[j - Len(z)]
    BY ConcatProperties, Zenon
  <2>2. PICK w \in Seq(OutFrames) : w = z \o y
    BY <2>1, Zenon
  <2>3. Len(w) = Len(z) + Len(y) /\ \A j \in 1 .. Len(z) + Len(y) : w[j] = IF j <= Len(z) THEN z[j] ELSE y[j - Len(z)]
    BY <2>1, <2>2, Zenon
  <2>4. Len(z) = p /\ Len(z) + Len(y) = n + 1
    <3>1. p + (n - p + 1) = n + 1
      OBVIOUS
    <3> QED
      BY <1>5, <1>6, <3>1, Zenon
  <2>7. Len(w) = n + 1 /\ \A j \in 1 .. n + 1 : w[j] = IF j <= p THEN z[j] ELSE y[j - p]
    BY <2>3, <2>4, Zenon
  <2>5. \A j \in 1 .. p : w[j] = z[j]
    <3>1. \A j \in 1 .. p : j \in 1 .. n + 1 /\ j <= p
      BY <1>1
    <3> QED
      BY <2>7, <3>1, Zenon
  <2>6. \A j \in p + 1 .. n + 1 : w[j] = y[j - p]
    <3>1. \A j \in p + 1 .. n + 1 : j \in 1 .. n + 1 /\ ~(j <= p)
      BY <1>1
    <3> QED
      BY <2>7, <3>1, Zenon
  <2> QED
    BY <2>2, <2>5, <2>6, <2>7, Zenon
<1>8. w = InsertAt(d, p, FinFrame)
  BY <1>2, <1>3, <1>4, <1>5, <1>6, <1>7, Zenon DEF InsertAt
<1>9. Len(w) = Len(q) /\ \A j \in 1 .. Len(w) : w[j] = q[j]
  <2>1. ASSUME NEW j \in 1 .. n + 1 PROVE w[j] = q[j]
    <3>1. CASE j < p
      <4>1. j \in 1 .. p - 1 /\ j \in 1 .. p /\ j \in 1 .. n
        BY <1>1, <3>1
      <4>2. w[j] = z[j] /\ z[j] = x[j] /\ x[j] = d[j]
        BY <1>4, <1>6, <1>7, <4>1, Zenon
      <4>3. d[j] = Data(j) /\ q[j] = Data(j)
        BY <1>1, <1>2, <3>1, <4>1, Zenon
      <4> QED
        BY <4>2, <4>3, Zenon
    <3>2. CASE j = p
      <4>1. j \in 1 .. p
        BY <1>1, <3>2
      <4>2. w[j] = z[j]
        BY <1>7, <4>1, Zenon
      <4> QED
        BY <1>1, <1>3, <1>6, <3>2, <4>2, Zenon
    <3>3. CASE j > p
      <4>1. j \in p + 1 .. n + 1 /\ j - p \in 1 .. n - p + 1 /\ p + (j - p) - 1 = j - 1 /\ j - 1 \in 1 .. n
        BY <1>1, <3>3
      <4>2. w[j] = y[j - p] /\ y[j - p] = d[p + (j - p) - 1]
        BY <1>5, <1>7, <4>1
      <4>3. d[j - 1] = Data(j - 1) /\ q[j] = Data(j - 1)
        BY <1>1, <1>2, <3>3, <4>1
      <4> QED
        BY <4>1, <4>2, <4>3
    <3> QED
      BY <1>1, <3>1, <3>2, <3>3
  <2> QED
    BY <1>1, <1>7, <2>1
<1>10. w = q
  BY <1>9, SeqEqual, Zenon
<1> QED
  BY <1>1, <1>2, <1>8, <1>10

\* What a client hears on a stream is what the connection sent, in order, with the status
\* byte on the first frame and nowhere else, and at most one FIN, also when the websocket
\* is closed under the readers: then what is missing is the end of the last chunk read.
THEOREM ClientHearsTheRemote ==
  (\E p \in {"cloud", "deno"} : MuxInit(p)) /\ [][MuxNext]_muxVars => []ClientHearsRemote
<1>1. (\E p \in {"cloud", "deno"} : MuxInit(p)) => MuxCtl
  BY MuxInitCtl
<1>2. MuxCtl /\ [MuxNext]_muxVars => MuxCtl'
  BY MuxNextCtl
<1>3. MuxCtl => ClientHearsRemote
  <2> SUFFICES ASSUME MuxCtl, NEW i \in Ids
               PROVE  LET data == [k \in 1 .. spoken[i] - left[i] |-> Sent(i, k)] IN
                      \/ out[i] = data
                      \/ \E p \in 1 .. Len(data) + 1 : out[i] = InsertAt(data, p, FinFrame)
    BY DEF ClientHearsRemote
  <2>1. /\ out[i] \in Seq(OutFrames) /\ spoken[i] \in Nat /\ left[i] \in Nat /\ left[i] <= spoken[i]
        /\ \/ Plain(out[i], spoken[i] - left[i])
           \/ \E p \in Nat : Ended(out[i], spoken[i] - left[i], p)
    BY DEF MuxCtl, MuxTypes, OutOf
  <2>2. PICK n \in Nat : n = spoken[i] - left[i]
    BY <2>1
  <2>3. PICK q \in Seq(OutFrames) : q = out[i]
    BY <2>1
  <2>4. PICK d \in Seq(OutFrames) : d = [k \in 1 .. n |-> Sent(i, k)] /\ Plain(d, n)
    <3>1. \A k \in 1 .. n : Sent(i, k) \in OutFrames /\ Sent(i, k) = Data(k)
      BY DataIs
    <3>2. [k \in 1 .. n |-> Sent(i, k)] \in Seq(OutFrames) /\ Len([k \in 1 .. n |-> Sent(i, k)]) = n
      BY <3>1
    <3> QED
      BY <3>1, <3>2 DEF Plain
  <2>5. Plain(q, n) => q = d
    <3> SUFFICES ASSUME Plain(q, n) PROVE q = d
      OBVIOUS
    <3>1. Len(q) = Len(d) /\ \A j \in 1 .. Len(q) : q[j] = d[j]
      BY <2>4 DEF Plain
    <3> QED
      BY <3>1, SeqEqual, Zenon
  <2>6. \A p \in Nat : Ended(q, n, p) => q = InsertAt(d, p, FinFrame) /\ p \in 1 .. Len(d) + 1
    BY <2>4, EndedIsInsert
  <2>7. q = d \/ \E p \in 1 .. Len(d) + 1 : q = InsertAt(d, p, FinFrame)
    BY <2>1, <2>2, <2>3, <2>5, <2>6, Zenon
  <2> QED
    BY <2>2, <2>3, <2>4, <2>7
<1> QED
  BY <1>1, <1>2, <1>3, PTL

\* The k-th item of stream s; the address is the item 0.
Item(s, k) == <<s, k>>
\* The number of the piece of data that a frame carries.
Num(f) == f.body[Len(f.body)][2]
\* The first n pieces of data of s, and the same after the address.
DataRun(s, n) == [k \in 1 .. n |-> Item(s, k)]
AddrRun(s, n) == IF n = 0 THEN <<>> ELSE [k \in 1 .. n + 1 |-> Item(s, k - 1)]

\* The k-th item of a stream is an item, alone or in a sequence.
LEMMA ItemIs ==
  ASSUME NEW s \in Streams, NEW k \in Nat
  PROVE  /\ Item(s, k) \in Items /\ Item(s, k)[1] = s /\ Item(s, k)[2] = k
         /\ <<Item(s, k)>> \in Seq(Items) /\ Len(<<Item(s, k)>>) = 1 /\ <<Item(s, k)>>[1] = Item(s, k)
<1>1. s \in Nat
  BY WorkerMuxAssumption
<1>2. Item(s, k) \in Items /\ Item(s, k)[1] = s /\ Item(s, k)[2] = k
  BY <1>1 DEF Item, Items
<1> QED
  BY <1>2

\* What a body is made of.
LEMMA BodyIs ==
  ASSUME NEW s \in Streams, NEW k \in Nat \ {0}
  PROVE  /\ Body(s, k) \in Seq(Items) /\ Body(s, k)[Len(Body(s, k))] = Item(s, k)
         /\ k # 1 => Body(s, k) = <<Item(s, k)>>
         /\ k = 1 => /\ Len(Body(s, k)) = 2 /\ Body(s, k)[1] = Item(s, 0) /\ Body(s, k)[2] = Item(s, 1)
<1>1. /\ Item(s, k) \in Items /\ Item(s, 0) \in Items /\ Item(s, 1) \in Items
      /\ <<Item(s, k)>> \in Seq(Items) /\ Len(<<Item(s, k)>>) = 1 /\ <<Item(s, k)>>[1] = Item(s, k)
  BY ItemIs
<1>2. CASE k = 1
  <2>1. Body(s, k) = <<Item(s, 0), Item(s, 1)>>
    BY <1>2 DEF Body, Item
  <2>2. PICK x \in Items, y \in Items : x = Item(s, 0) /\ y = Item(s, 1)
    BY <1>1
  <2>3. <<x, y>> \in Seq(Items) /\ Len(<<x, y>>) = 2 /\ <<x, y>>[1] = x /\ <<x, y>>[2] = y
    OBVIOUS
  <2> QED
    BY <1>2, <2>1, <2>2, <2>3, Zenon
<1>3. CASE k # 1
  <2>1. Body(s, k) = <<Item(s, k)>>
    BY <1>3 DEF Body, Item
  <2> QED
    BY <1>1, <1>3, <2>1, Zenon
<1> QED
  BY <1>2, <1>3

\* The number of a piece.
LEMMA NumIs ==
  ASSUME NEW s \in Streams, NEW k \in Nat \ {0}, NEW f, f.body = Body(s, k)
  PROVE  Num(f) = k
<1>1. Body(s, k)[Len(Body(s, k))] = Item(s, k)
  BY BodyIs
<1>2. f.body[Len(f.body)] = Item(s, k)
  BY <1>1, Zenon
<1>3. Item(s, k)[2] = k
  BY ItemIs
<1> QED
  BY <1>2, <1>3, Zenon DEF Num

\* The two runs.
LEMMA RunIs ==
  ASSUME NEW s \in Streams, NEW n \in Nat
  PROVE  /\ DataRun(s, n) \in Seq(Items) /\ Len(DataRun(s, n)) = n
         /\ \A j \in 1 .. n : DataRun(s, n)[j] = Item(s, j)
         /\ AddrRun(s, n) \in Seq(Items)
         /\ n # 0 => /\ Len(AddrRun(s, n)) = n + 1
                     /\ \A j \in 1 .. n + 1 : AddrRun(s, n)[j] = Item(s, j - 1)
<1>1. \A j \in 1 .. n : Item(s, j) \in Items
  BY ItemIs
<1>2. \A j \in 1 .. n + 1 : Item(s, j - 1) \in Items
  BY ItemIs
<1>3. /\ DataRun(s, n) \in Seq(Items) /\ Len(DataRun(s, n)) = n
      /\ \A j \in 1 .. n : DataRun(s, n)[j] = Item(s, j)
  BY <1>1 DEF DataRun
<1>4. CASE n = 0
  BY <1>3, <1>4 DEF AddrRun
<1>5. CASE n # 0
  BY <1>2, <1>3, <1>5 DEF AddrRun
<1> QED
  BY <1>4, <1>5

\* Two sequences of items with the same elements.
LEMMA SameItems ==
  ASSUME NEW p \in Seq(Items), NEW q \in Seq(Items), NEW n \in Nat, Len(p) = n, Len(q) = n,
         \A j \in 1 .. n : p[j] = q[j]
  PROVE  p = q
  BY SeqEqual, Zenon

\* One item more.
LEMMA OneItemMore ==
  ASSUME NEW x \in Seq(Items), NEW y \in Seq(Items), NEW n \in Nat, Len(x) = n, Len(y) = 1
  PROVE  /\ x \o y \in Seq(Items) /\ Len(x \o y) = n + 1
         /\ \A j \in 1 .. n : (x \o y)[j] = x[j]
         /\ (x \o y)[n + 1] = y[1]
<1>1. /\ x \o y \in Seq(Items) /\ Len(x \o y) = Len(x) + Len(y)
      /\ \A j \in 1 .. Len(x) + Len(y) : (x \o y)[j] = IF j <= Len(x) THEN x[j] ELSE y[j - Len(x)]
  BY ConcatProperties, Zenon
<1>2. Len(x \o y) = n + 1 /\ \A j \in 1 .. n + 1 : (x \o y)[j] = IF j <= n THEN x[j] ELSE y[j - n]
  BY <1>1, Zenon
<1>3. \A j \in 1 .. n : j \in 1 .. n + 1 /\ j <= n
  OBVIOUS
<1>4. n + 1 \in 1 .. n + 1 /\ ~(n + 1 <= n) /\ (n + 1) - n = 1
  OBVIOUS
<1> QED
  BY <1>1, <1>2, <1>3, <1>4, Zenon

\* One more piece of data.
LEMMA DataGrows ==
  ASSUME NEW s \in Streams, NEW n \in Nat
  PROVE  DataRun(s, n) \o <<Item(s, n + 1)>> = DataRun(s, n + 1)
<1>1. PICK x \in Seq(Items) : x = DataRun(s, n) /\ Len(x) = n /\ \A j \in 1 .. n : x[j] = Item(s, j)
  BY RunIs
<1>2. PICK y \in Seq(Items) : y = <<Item(s, n + 1)>> /\ Len(y) = 1 /\ y[1] = Item(s, n + 1)
  <2>1. n + 1 \in Nat
    OBVIOUS
  <2> QED
    BY <2>1, ItemIs, Zenon
<1>3. PICK z \in Seq(Items) : z = DataRun(s, n + 1) /\ Len(z) = n + 1 /\ \A j \in 1 .. n + 1 : z[j] = Item(s, j)
  <2>1. n + 1 \in Nat
    OBVIOUS
  <2> QED
    BY <2>1, RunIs, Zenon
<1>4. PICK w \in Seq(Items) : /\ w = x \o y /\ Len(w) = n + 1
                              /\ \A j \in 1 .. n : w[j] = x[j]
                              /\ w[n + 1] = y[1]
  <2>1. Len(x) = n /\ Len(y) = 1
    BY <1>1, <1>2, Zenon
  <2>2. /\ x \o y \in Seq(Items) /\ Len(x \o y) = n + 1
        /\ \A j \in 1 .. n : (x \o y)[j] = x[j]
        /\ (x \o y)[n + 1] = y[1]
    BY <2>1, OneItemMore, Zenon
  <2>3. PICK w \in Seq(Items) : w = x \o y
    BY <2>2, Zenon
  <2> QED
    BY <2>2, <2>3, Zenon
<1>5. \A j \in 1 .. n + 1 : w[j] = z[j]
  <2> TAKE j \in 1 .. n + 1
  <2>1. CASE j \in 1 .. n
    BY <1>1, <1>3, <1>4, <2>1
  <2>2. CASE j = n + 1
    BY <1>2, <1>3, <1>4, <2>2
  <2> QED
    BY <2>1, <2>2
<1>6. n + 1 \in Nat
  OBVIOUS
<1>7. w = z
  BY <1>3, <1>4, <1>5, <1>6, SameItems, Zenon
<1> QED
  BY <1>1, <1>2, <1>3, <1>4, <1>7, Zenon

\* One more piece of data after the address, or the address with the first one.
LEMMA AddrGrows ==
  ASSUME NEW s \in Streams, NEW n \in Nat
  PROVE  AddrRun(s, n) \o Body(s, n + 1) = AddrRun(s, n + 1)
<1>0. n + 1 \in Nat \ {0} /\ n + 1 \in Nat /\ n + 2 \in Nat /\ n + 1 # 0 /\ (n + 1) + 1 = n + 2
  OBVIOUS
<1>1. PICK x \in Seq(Items) : x = AddrRun(s, n)
  BY RunIs
<1>2. PICK y \in Seq(Items) : y = Body(s, n + 1)
  BY <1>0, BodyIs, Zenon
<1>3. PICK z \in Seq(Items) : z = AddrRun(s, n + 1) /\ Len(z) = n + 2 /\ \A j \in 1 .. n + 2 : z[j] = Item(s, j - 1)
  <2>1. PICK m \in Nat : m = n + 1 /\ m # 0 /\ m + 1 = n + 2
    BY <1>0
  <2>2. /\ AddrRun(s, m) \in Seq(Items) /\ Len(AddrRun(s, m)) = m + 1
        /\ \A j \in 1 .. m + 1 : AddrRun(s, m)[j] = Item(s, j - 1)
    BY <2>1, RunIs, Zenon
  <2> QED
    BY <2>1, <2>2, Zenon
<1>4. CASE n = 0
  <2>1. x = <<>>
    BY <1>1, <1>4 DEF AddrRun
  <2>2. Len(y) = 2 /\ y[1] = Item(s, 0) /\ y[2] = Item(s, 1)
    <3>1. n + 1 = 1 /\ 1 \in Nat \ {0}
      BY <1>4
    <3> QED
      BY <1>2, <3>1, BodyIs, Zenon
  <2>3. Len(z) = 2 /\ z[1] = Item(s, 0) /\ z[2] = Item(s, 1)
    <3>1. n + 2 = 2 /\ 1 \in 1 .. n + 2 /\ 2 \in 1 .. n + 2 /\ 1 - 1 = 0 /\ 2 - 1 = 1
      BY <1>4
    <3> QED
      BY <1>3, <3>1, Zenon
  <2>4. \A j \in 1 .. 2 : y[j] = z[j]
    <3>1. \A j \in 1 .. 2 : j = 1 \/ j = 2
      OBVIOUS
    <3> QED
      BY <2>2, <2>3, <3>1, Zenon
  <2>5. y = z
    <3>1. 2 \in Nat
      OBVIOUS
    <3> QED
      BY <2>2, <2>3, <2>4, <3>1, SameItems, Zenon
  <2>6. x \o y = y
    BY <2>1
  <2> QED
    BY <1>1, <1>2, <1>3, <2>5, <2>6, Zenon
<1>5. CASE n # 0
  <2>1. Len(x) = n + 1 /\ \A j \in 1 .. n + 1 : x[j] = Item(s, j - 1)
    BY <1>1, <1>5, RunIs
  <2>2. y = <<Item(s, n + 1)>>
    <3>1. n + 1 # 1
      BY <1>5
    <3> QED
      BY <1>0, <1>2, <3>1, BodyIs, Zenon
  <2>3. Len(y) = 1 /\ y[1] = Item(s, n + 1)
    BY <1>0, <2>2, ItemIs, Zenon
  <2>4. PICK w \in Seq(Items) : /\ w = x \o y /\ Len(w) = n + 2
                                /\ \A j \in 1 .. n + 1 : w[j] = x[j]
                                /\ w[n + 2] = y[1]
    <3>1. PICK m \in Nat : m = n + 1
      BY <1>0
    <3>2. Len(x) = m /\ m + 1 = n + 2
      BY <1>0, <2>1, <3>1, Zenon
    <3>3. /\ x \o y \in Seq(Items) /\ Len(x \o y) = m + 1
          /\ \A j \in 1 .. m : (x \o y)[j] = x[j]
          /\ (x \o y)[m + 1] = y[1]
      BY <2>3, <3>2, OneItemMore, Zenon
    <3> QED
      BY <3>1, <3>2, <3>3, Zenon
  <2>5. \A j \in 1 .. n + 2 : w[j] = z[j]
    <3> TAKE j \in 1 .. n + 2
    <3>1. CASE j \in 1 .. n + 1
      BY <1>3, <2>1, <2>4, <3>1
    <3>2. CASE j = n + 2
      <4>1. (n + 2) - 1 = n + 1
        OBVIOUS
      <4>2. z[n + 2] = Item(s, (n + 2) - 1)
        BY <1>3
      <4> QED
        BY <2>3, <2>4, <3>2, <4>1, <4>2, Zenon
    <3> QED
      BY <3>1, <3>2
  <2>6. w = z
    BY <1>0, <1>3, <2>4, <2>5, SameItems, Zenon
  <2> QED
    BY <1>1, <1>2, <1>3, <2>4, <2>6, Zenon
<1> QED
  BY <1>4, <1>5

\* The address and the data after it.
LEMMA AddrParts ==
  ASSUME NEW s \in Streams, NEW n \in Nat \ {0}
  PROVE  ParseMuxAddress(AddrRun(s, n)) = s /\ Tail(AddrRun(s, n)) = DataRun(s, n)
<1>1. PICK x \in Seq(Items) : x = AddrRun(s, n) /\ Len(x) = n + 1 /\ \A j \in 1 .. n + 1 : x[j] = Item(s, j - 1)
  BY RunIs
<1>2. PICK z \in Seq(Items) : z = DataRun(s, n) /\ Len(z) = n /\ \A j \in 1 .. n : z[j] = Item(s, j)
  BY RunIs
<1>3. PICK w \in Seq(Items) : w = Tail(x) /\ Len(w) = n /\ \A j \in 1 .. n : w[j] = x[j + 1]
  <2>1. n + 1 # 0 /\ (n + 1) - 1 = n
    OBVIOUS
  <2>2. x # <<>>
    <3>1. Len(<<>>) = 0
      OBVIOUS
    <3> QED
      BY <1>1, <2>1, <3>1, Zenon
  <2>3. /\ Tail(x) \in Seq(Items) /\ Len(Tail(x)) = Len(x) - 1
        /\ \A j \in 1 .. Len(Tail(x)) : Tail(x)[j] = x[j + 1]
    BY <2>2, HeadTailProperties, Zenon
  <2>4. Len(Tail(x)) = n
    BY <1>1, <2>1, <2>3, Zenon
  <2> QED
    BY <2>3, <2>4, Zenon
<1>4. \A j \in 1 .. n : w[j] = z[j]
  <2> TAKE j \in 1 .. n
  <2>1. j + 1 \in 1 .. n + 1 /\ (j + 1) - 1 = j
    OBVIOUS
  <2>2. x[j + 1] = Item(s, (j + 1) - 1)
    BY <1>1, <2>1
  <2> QED
    BY <1>2, <1>3, <2>1, <2>2, Zenon
<1>5. w = z
  BY <1>2, <1>3, <1>4, SameItems
<1>6. Head(x) = Item(s, 0)
  <2>1. 1 \in 1 .. n + 1 /\ 1 - 1 = 0 /\ Head(x) = x[1]
    OBVIOUS
  <2> QED
    BY <1>1, <2>1, Zenon
<1>7. Item(s, 0)[1] = s /\ Item(s, 0)[2] = 0
  BY ItemIs
<1>8. ParseMuxAddress(x) = s
  BY <1>6, <1>7, Zenon DEF ParseMuxAddress
<1> QED
  BY <1>1, <1>2, <1>3, <1>5, <1>8, Zenon

-----------------------------------------------------------------------------
\* A piece of data of s.
IsPiece(f, s) == f.cmd = "PSH" /\ f.id = s

\* The queue holds the pieces of a stream in order, after its SYN.
Pieces ==
  /\ \A j \in 1 .. Len(inq) : inq[j].cmd = "PSH" =>
       Num(inq[j]) \in 1 .. sent[inq[j].id] /\ inq[j].body = Body(inq[j].id, Num(inq[j]))
  /\ \A j \in 1 .. Len(inq) : inq[j].cmd # "PSH" => inq[j].body = <<>>
  /\ \A j, k \in 1 .. Len(inq) :
       inq[j].cmd = "PSH" /\ IsPiece(inq[k], inq[j].id) /\ j < k => Num(inq[j]) < Num(inq[k])
  /\ \A j, k \in 1 .. Len(inq) : inq[j].cmd = "SYN" /\ IsPiece(inq[k], inq[j].id) => j < k

\* The pieces of s that the queue holds are those after the n-th.
Pend(s, n) ==
  /\ n \in Nat /\ n <= sent[s]
  /\ \A j \in 1 .. Len(inq) : IsPiece(inq[j], s) => Num(inq[j]) > n
  /\ \A k \in n + 1 .. sent[s] : \E j \in 1 .. Len(inq) : IsPiece(inq[j], s) /\ Num(inq[j]) = k

\* Before the client has begun there is nothing.
LEMMA NoPieces == ASSUME inq = <<>> PROVE Pieces
  BY DEF Pieces

\* A client never writes less.
LEMMA AppendsSent ==
  ASSUME MuxTypes, NEW f \in Frames(Streams), Appends(f), NEW s \in Streams
  PROVE  sent[s] \in Int /\ sent'[s] \in Int /\ sent'[s] >= sent[s]
<1>1. f.id \in Streams /\ sent \in [Streams -> Int]
  BY DEF Frames, MuxTypes
<1> QED
  BY <1>1 DEF Appends

\* One more frame of the client.
LEMMA AppendsPieces ==
  ASSUME MuxTypes, Pieces, NEW f \in Frames(Streams), Appends(f)
  PROVE  /\ Pieces'
         /\ \A s \in Streams : \A n \in Nat : Pend(s, n) => Pend(s, n)'
         /\ \A s \in Streams : f.cmd = "SYN" /\ s = f.id => Pend(s, 0)'
<1>2. inq' = Append(inq, f) /\ f.cmd \in {"SYN", "PSH", "FIN", "NOP"}
  BY DEF Appends
<1>3. f.id \in Streams /\ inq \in Seq(Frames(Streams)) /\ sent \in [Streams -> Int] /\ \A t \in Streams : sent[t] >= -1
  BY DEF Frames, MuxTypes
<1>4. /\ inq' \in Seq(Frames(Streams)) /\ Len(inq') = Len(inq) + 1 /\ Len(inq) \in Nat
      /\ inq'[Len(inq) + 1] = f /\ \A j \in 1 .. Len(inq) : inq'[j] = inq[j] /\ inq[j].id \in Streams
  <2>1. \A j \in 1 .. Len(inq) : inq[j] \in Frames(Streams)
    BY <1>3
  <2>2. \A j \in 1 .. Len(inq) : inq[j].id \in Streams
    BY <2>1 DEF Frames
  <2> QED
    BY <1>2, <1>3, <2>2
<1>5. PICK m \in Nat : m = Len(inq)
  BY <1>4
<1>6. /\ \A j \in 1 .. Len(inq') : j \in 1 .. m \/ j = m + 1
      /\ \A j \in 1 .. m : j \in 1 .. Len(inq') /\ j \in 1 .. Len(inq) /\ inq'[j] = inq[j] /\ inq[j].id \in Streams /\ j < m + 1
      /\ m + 1 \in 1 .. Len(inq') /\ inq'[m + 1] = f
  BY <1>4, <1>5
<1>7. /\ f.cmd = "SYN" => sent[f.id] = -1 /\ sent'[f.id] = 0
      /\ f.cmd = "PSH" => sent[f.id] \in Nat /\ sent'[f.id] = sent[f.id] + 1 /\ Num(f) = sent[f.id] + 1
                          /\ f.body = Body(f.id, Num(f))
      /\ f.cmd # "PSH" => f.body = <<>>
  <2>1. f.cmd = "SYN" => sent[f.id] = -1 /\ sent'[f.id] = 0
    BY <1>3 DEF Appends
  <2>2. f.cmd # "PSH" => f.body = <<>>
    BY DEF Appends
  <2>3. ASSUME f.cmd = "PSH"
        PROVE  sent[f.id] \in Nat /\ sent'[f.id] = sent[f.id] + 1 /\ f.body = Body(f.id, sent[f.id] + 1)
    BY <1>3, <2>3 DEF Appends
  <2>4. ASSUME f.cmd = "PSH"
        PROVE  Num(f) = sent[f.id] + 1
    <3>1. PICK k \in Nat \ {0} : k = sent[f.id] + 1
      BY <2>3, <2>4
    <3>2. f.body = Body(f.id, k)
      BY <2>3, <2>4, <3>1
    <3> QED
      BY <1>3, <3>1, <3>2, NumIs, Zenon
  <2> QED
    BY <2>1, <2>2, <2>3, <2>4
<1>8. \A t \in Streams : sent'[t] \in Int /\ sent'[t] >= sent[t] /\ (t = f.id \/ sent'[t] = sent[t])
  BY <1>3 DEF Appends
<1>9. /\ \A j \in 1 .. m : inq[j].cmd = "PSH" =>
           Num(inq[j]) \in 1 .. sent[inq[j].id] /\ inq[j].body = Body(inq[j].id, Num(inq[j]))
      /\ \A j \in 1 .. m : inq[j].cmd # "PSH" => inq[j].body = <<>>
      /\ \A j, k \in 1 .. m :
           inq[j].cmd = "PSH" /\ IsPiece(inq[k], inq[j].id) /\ j < k => Num(inq[j]) < Num(inq[k])
      /\ \A j, k \in 1 .. m : inq[j].cmd = "SYN" /\ IsPiece(inq[k], inq[j].id) => j < k
  BY <1>5, Zenon DEF Pieces
<1>10. ASSUME NEW j \in 1 .. Len(inq'), inq'[j].cmd = "PSH"
       PROVE  Num(inq'[j]) \in 1 .. sent'[inq'[j].id] /\ inq'[j].body = Body(inq'[j].id, Num(inq'[j]))
  <2>1. CASE j \in 1 .. m
    <3>1. Num(inq[j]) \in 1 .. sent[inq[j].id] /\ inq[j].body = Body(inq[j].id, Num(inq[j]))
      BY <1>6, <1>9, <1>10, <2>1
    <3>2. sent[inq[j].id] \in Int /\ sent'[inq[j].id] \in Int /\ sent'[inq[j].id] >= sent[inq[j].id]
      BY <1>3, <1>6, <1>8, <2>1
    <3> QED
      BY <1>6, <2>1, <3>1, <3>2
  <2>2. CASE j = m + 1
    BY <1>6, <1>7, <1>10, <2>2
  <2> QED
    BY <1>6, <2>1, <2>2
<1>11. ASSUME NEW j \in 1 .. Len(inq'), inq'[j].cmd # "PSH" PROVE inq'[j].body = <<>>
  BY <1>6, <1>7, <1>9, <1>11
<1>12. ASSUME NEW j \in 1 .. Len(inq'), NEW k \in 1 .. Len(inq'),
              inq'[j].cmd = "PSH", IsPiece(inq'[k], inq'[j].id), j < k
       PROVE  Num(inq'[j]) < Num(inq'[k])
  <2>1. j \in 1 .. m
    BY <1>4, <1>5, <1>12
  <2>2. CASE k \in 1 .. m
    BY <1>6, <1>9, <1>12, <2>1, <2>2
  <2>3. CASE k = m + 1
    <3>1. f.cmd = "PSH" /\ f.id = inq[j].id /\ inq[j].cmd = "PSH"
      BY <1>6, <1>12, <2>1, <2>3 DEF IsPiece
    <3>2. Num(inq[j]) \in 1 .. sent[f.id] /\ Num(f) = sent[f.id] + 1 /\ sent[f.id] \in Nat
      BY <1>7, <1>9, <2>1, <3>1
    <3>3. Num(inq[j]) < Num(f)
      BY <3>2
    <3> QED
      BY <1>6, <2>1, <2>3, <3>3
  <2> QED
    BY <1>6, <2>2, <2>3
<1>13. ASSUME NEW s \in Streams, sent[s] < 0, NEW k \in 1 .. m PROVE ~IsPiece(inq[k], s)
  <2> SUFFICES ASSUME IsPiece(inq[k], s) PROVE FALSE
    OBVIOUS
  <2>1. Num(inq[k]) \in 1 .. sent[s]
    BY <1>9 DEF IsPiece
  <2> QED
    BY <1>3, <1>13, <2>1
<1>14. ASSUME NEW j \in 1 .. Len(inq'), NEW k \in 1 .. Len(inq'),
              inq'[j].cmd = "SYN", IsPiece(inq'[k], inq'[j].id)
       PROVE  j < k
  <2>1. CASE j \in 1 .. m /\ k \in 1 .. m
    BY <1>6, <1>9, <1>14, <2>1
  <2>2. CASE k = m + 1 /\ j \in 1 .. m
    BY <1>6, <2>2
  <2>3. CASE j = m + 1 /\ k \in 1 .. m
    BY <1>3, <1>6, <1>7, <1>13, <1>14, <2>3
  <2>4. CASE j = m + 1 /\ k = m + 1
    BY <1>6, <1>14, <2>4 DEF IsPiece
  <2> QED
    BY <1>6, <2>1, <2>2, <2>3, <2>4
<1>15. Pieces'
  BY <1>10, <1>11, <1>12, <1>14 DEF Pieces
<1>16. ASSUME NEW s \in Streams, NEW n \in Nat, Pend(s, n) PROVE Pend(s, n)'
  <2>1. /\ n <= sent[s] /\ sent[s] \in Int
        /\ \A j \in 1 .. m : IsPiece(inq[j], s) => Num(inq[j]) > n
        /\ \A k \in n + 1 .. sent[s] : \E j \in 1 .. m : IsPiece(inq[j], s) /\ Num(inq[j]) = k
    BY <1>3, <1>5, <1>16 DEF Pend
  <2>2. n <= sent'[s]
    BY <1>8, <2>1
  <2>3. ASSUME NEW j \in 1 .. Len(inq'), IsPiece(inq'[j], s) PROVE Num(inq'[j]) > n
    <3>1. CASE j \in 1 .. m
      BY <1>6, <2>1, <2>3, <3>1
    <3>2. CASE j = m + 1
      <4>1. f.cmd = "PSH" /\ f.id = s
        BY <1>6, <2>3, <3>2 DEF IsPiece
      <4>2. Num(f) > n
        BY <1>7, <2>1, <4>1
      <4> QED
        BY <1>6, <3>2, <4>2
    <3> QED
      BY <1>6, <3>1, <3>2
  <2>4. ASSUME NEW k \in n + 1 .. sent'[s] PROVE \E j \in 1 .. Len(inq') : IsPiece(inq'[j], s) /\ Num(inq'[j]) = k
    <3>1. CASE k \in n + 1 .. sent[s]
      <4>1. PICK j \in 1 .. m : IsPiece(inq[j], s) /\ Num(inq[j]) = k
        BY <2>1, <3>1
      <4> QED
        BY <1>6, <4>1, Zenon
    <3>2. CASE k > sent[s]
      <4>1. sent'[s] > sent[s]
        BY <1>8, <2>1, <3>2
      <4>2. f.id = s /\ f.cmd # "SYN"
        BY <1>7, <1>8, <2>1, <4>1
      <4>3. f.cmd = "PSH"
        BY <1>2, <1>3, <4>1, <4>2 DEF Appends
      <4>4. k = Num(f)
        BY <1>7, <2>1, <3>2, <4>2, <4>3
      <4> QED
        BY <1>6, <4>2, <4>3, <4>4, Zenon DEF IsPiece
    <3> QED
      BY <2>1, <3>1, <3>2
  <2> QED
    BY <2>2, <2>3, <2>4 DEF Pend
<1>17. ASSUME NEW s \in Streams, f.cmd = "SYN", s = f.id PROVE Pend(s, 0)'
  <2>1. sent[s] = -1 /\ sent'[s] = 0
    BY <1>7, <1>17
  <2>2. \A j \in 1 .. Len(inq') : ~IsPiece(inq'[j], s)
    <3> TAKE j \in 1 .. Len(inq')
    <3>1. CASE j \in 1 .. m
      <4>1. ~IsPiece(inq[j], s)
        BY <1>13, <2>1, <3>1
      <4> QED
        BY <1>6, <3>1, <4>1
    <3>2. CASE j = m + 1
      BY <1>6, <1>17, <3>2 DEF IsPiece
    <3> QED
      BY <1>6, <3>1, <3>2
  <2> QED
    BY <2>1, <2>2 DEF Pend
<1> QED
  BY <1>15, <1>16, <1>17

\* The message handler takes a frame; when it is a piece of s it is the next one.
LEMMA TailPieces ==
  ASSUME MuxTypes, Pieces, Moves
  PROVE  /\ Pieces'
         /\ \A s \in Streams : \A n \in Nat :
              Pend(s, n) => IF IsPiece(inq[1], s)
                            THEN Num(inq[1]) = n + 1 /\ Pend(s, n + 1)'
                            ELSE Pend(s, n)'
<1>1. inq \in Seq(Frames(Streams)) /\ inq # <<>> /\ inq' = Tail(inq) /\ sent' = sent /\ sent \in [Streams -> Int]
  BY DEF Moves, MuxTypes
<1>2. /\ inq' \in Seq(Frames(Streams)) /\ 1 \in 1 .. Len(inq) /\ Len(inq) \in Nat
      /\ \A j \in 1 .. Len(inq') : j + 1 \in 1 .. Len(inq) /\ 1 < j + 1 /\ j \in Nat /\ inq'[j] = inq[j + 1]
      /\ \A j \in 1 .. Len(inq) : j # 1 => j - 1 \in 1 .. Len(inq') /\ inq'[j - 1] = inq[j] /\ 1 < j
  BY <1>1
<1>3. Pieces'
  <2>1. ASSUME NEW j \in 1 .. Len(inq'), inq'[j].cmd = "PSH"
        PROVE  Num(inq'[j]) \in 1 .. sent'[inq'[j].id] /\ inq'[j].body = Body(inq'[j].id, Num(inq'[j]))
    <3>1. PICK m \in 1 .. Len(inq) : inq'[j] = inq[m]
      BY <1>2
    <3> QED
      BY <1>1, <2>1, <3>1 DEF Pieces
  <2>2. ASSUME NEW j \in 1 .. Len(inq'), inq'[j].cmd # "PSH" PROVE inq'[j].body = <<>>
    <3>1. PICK m \in 1 .. Len(inq) : inq'[j] = inq[m]
      BY <1>2
    <3> QED
      BY <2>2, <3>1 DEF Pieces
  <2>3. ASSUME NEW j \in 1 .. Len(inq'), NEW k \in 1 .. Len(inq'), IsPiece(inq'[k], inq'[j].id)
        PROVE  /\ inq'[j].cmd = "PSH" /\ j < k => Num(inq'[j]) < Num(inq'[k])
               /\ inq'[j].cmd = "SYN" => j < k
    <3>1. PICK m \in 1 .. Len(inq) : m = j + 1 /\ inq'[j] = inq[m]
      BY <1>2
    <3>2. PICK n \in 1 .. Len(inq) : n = k + 1 /\ inq'[k] = inq[n]
      BY <1>2
    <3>3. j < k <=> m < n
      BY <1>2, <3>1, <3>2
    <3> QED
      BY <2>3, <3>1, <3>2, <3>3 DEF Pieces
  <2> QED
    BY <2>1, <2>2, <2>3 DEF Pieces
<1>4. ASSUME NEW s \in Streams, NEW n \in Nat, Pend(s, n)
      PROVE  IF IsPiece(inq[1], s) THEN Num(inq[1]) = n + 1 /\ Pend(s, n + 1)' ELSE Pend(s, n)'
  <2>1. /\ n <= sent[s] /\ sent[s] \in Int /\ sent'[s] = sent[s]
        /\ \A j \in 1 .. Len(inq) : IsPiece(inq[j], s) => Num(inq[j]) > n
        /\ \A k \in n + 1 .. sent[s] : \E j \in 1 .. Len(inq) : IsPiece(inq[j], s) /\ Num(inq[j]) = k
    BY <1>1, <1>4 DEF Pend
  <2>2. CASE ~IsPiece(inq[1], s)
    <3>1. ASSUME NEW j \in 1 .. Len(inq'), IsPiece(inq'[j], s) PROVE Num(inq'[j]) > n
      <4>1. PICK m \in 1 .. Len(inq) : inq'[j] = inq[m]
        BY <1>2
      <4> QED
        BY <2>1, <3>1, <4>1
    <3>2. ASSUME NEW k \in n + 1 .. sent'[s] PROVE \E j \in 1 .. Len(inq') : IsPiece(inq'[j], s) /\ Num(inq'[j]) = k
      <4>1. PICK j \in 1 .. Len(inq) : IsPiece(inq[j], s) /\ Num(inq[j]) = k
        BY <2>1
      <4>2. j # 1
        BY <2>2, <4>1
      <4>3. PICK m \in 1 .. Len(inq') : inq'[m] = inq[j]
        BY <1>2, <4>2
      <4> QED
        BY <4>1, <4>3
    <3> QED
      BY <2>1, <2>2, <3>1, <3>2 DEF Pend
  <2>3. CASE IsPiece(inq[1], s)
    <3>1. Num(inq[1]) > n /\ Num(inq[1]) \in 1 .. sent[s]
      BY <1>2, <2>1, <2>3 DEF Pieces, IsPiece
    <3>2. n + 1 \in n + 1 .. sent[s] /\ n + 1 \in Nat
      BY <2>1, <3>1
    <3>3. PICK j \in 1 .. Len(inq) : IsPiece(inq[j], s) /\ Num(inq[j]) = n + 1
      BY <2>1, <3>2
    <3>4. ASSUME NEW k \in 1 .. Len(inq), k # 1, IsPiece(inq[k], s) PROVE Num(inq[1]) < Num(inq[k])
      <4>1. 1 < k /\ inq[1].cmd = "PSH" /\ inq[1].id = s
        BY <1>2, <2>3, <3>4 DEF IsPiece
      <4> QED
        BY <1>2, <3>4, <4>1 DEF Pieces
    <3>5. Num(inq[1]) = n + 1
      <4>1. CASE j = 1
        BY <3>3, <4>1
      <4>2. CASE j # 1
        <5>1. Num(inq[1]) < n + 1
          BY <3>3, <3>4, <4>2
        <5> QED
          BY <3>1, <5>1
      <4> QED
        BY <4>1, <4>2
    <3>6. ASSUME NEW i \in 1 .. Len(inq'), IsPiece(inq'[i], s) PROVE Num(inq'[i]) > n + 1
      <4>1. PICK m \in 1 .. Len(inq) : m # 1 /\ inq'[i] = inq[m]
        BY <1>2
      <4>2. n + 1 < Num(inq[m]) /\ Num(inq[m]) \in 1 .. sent[s]
        BY <3>4, <3>5, <3>6, <4>1 DEF Pieces, IsPiece
      <4> QED
        BY <4>1, <4>2
    <3>7. ASSUME NEW k \in (n + 1) + 1 .. sent'[s] PROVE \E i \in 1 .. Len(inq') : IsPiece(inq'[i], s) /\ Num(inq'[i]) = k
      <4>1. k \in n + 1 .. sent[s] /\ k # n + 1
        BY <2>1
      <4>2. PICK i \in 1 .. Len(inq) : IsPiece(inq[i], s) /\ Num(inq[i]) = k
        BY <2>1, <4>1
      <4>3. i # 1
        BY <3>5, <4>1, <4>2
      <4>4. PICK m \in 1 .. Len(inq') : inq'[m] = inq[i]
        BY <1>2, <4>3
      <4> QED
        BY <4>2, <4>4
    <3>8. n + 1 <= sent'[s]
      BY <2>1, <3>2
    <3>9. Pend(s, n + 1)'
      BY <3>2, <3>6, <3>7, <3>8 DEF Pend
    <3> QED
      BY <2>3, <3>5, <3>9
  <2> QED
    BY <2>2, <2>3
<1> QED
  BY <1>3, <1>4

-----------------------------------------------------------------------------
\* Whose a frame is, and whose the SYN that waits.
\* A frame on its way is of the stream it names, and a stream has one SYN;
FramesAreOwn ==
  /\ \A j \in 1 .. Len(inq) : inq[j].of = inq[j].id
  /\ \A j, k \in 1 .. Len(inq) :
       inq[j].cmd = "SYN" /\ inq[k].cmd = "SYN" /\ inq[j].id = inq[k].id => j = k
\* until the first SYN comes in the server does nothing;
NothingBefore ==
  \A j \in 1 .. Len(inq) : Odd(inq[j]) => remain = None /\ \A i \in Ids : ~Started(i) /\ ~Dialling(i)
\* and the stream whose SYN was read early is dialled under no id.
Missed(s) == sent[s] # -1 /\ ~Announced(s) /\ ~Dialling(s) /\ ~Started(s)
WaitsForOwn ==
  remain # None => \E s \in Streams : /\ remain.of = s /\ (remain.id = 0 \/ remain.id = s)
                                      /\ remain.id = 0 => Missed(s)
Origin == FramesAreOwn /\ NothingBefore /\ WaitsForOwn

\* The client's first two frames.
LEMMA OriginFirst ==
  ASSUME MuxCtl, NEW t \in Streams, FirstFrames(t)
  PROVE  Origin'
<1>1. ClientFixed /\ \A s \in Streams : sent[s] = -1
  BY DEF FirstFrames
<1>2. PICK h, f \in Frames(Streams) :
       /\ inq' = <<h, f>> /\ h.cmd = "HDR" /\ ~Odd(h) /\ h.of = h.id
       /\ f.cmd = "SYN" /\ Odd(f) /\ f.id = t /\ f.of = t
  BY DEF FirstFrames
<1>3. /\ Len(inq') = 2 /\ inq'[1] = h /\ inq'[2] = f
      /\ \A j \in 1 .. Len(inq') : j = 1 \/ j = 2
  BY <1>2
<1>4. FramesAreOwn'
  BY <1>2, <1>3 DEF FramesAreOwn
<1>5. \A i \in Ids : ~Waiting(i) /\ ~Dialling(i) /\ ~Started(i)
  BY <1>1 DEF MuxCtl, OneStage, Opened
<1>6. remain = None
  <2>1. remain # None => remain.id \in Ids
    BY DEF MuxCtl, MuxTypes, Frames
  <2> QED
    BY <1>5, <2>1 DEF Waiting
<1>7. UNCHANGED <<remain, busy, reader>>
  BY <1>1 DEF ClientFixed, connVars
<1>8. NothingBefore' /\ WaitsForOwn'
  BY <1>5, <1>6, <1>7 DEF NothingBefore, WaitsForOwn, Dialling, Started
<1> QED
  BY <1>4, <1>8 DEF Origin

\* One more frame of the client.
LEMMA OriginAppends ==
  ASSUME MuxCtl, Origin, NEW f \in Frames(Streams), Appends(f)
  PROVE  Origin'
<1>1. /\ inq' = Append(inq, f) /\ ~Odd(f) /\ f.of = f.id /\ f.id \in Streams
      /\ UNCHANGED <<plat, remain, busy, reader>>
  BY DEF Appends, ClientFixed, connVars, Frames
<1>2. /\ inq \in Seq(Frames(Streams)) /\ sent \in [Streams -> Int] /\ SynOnce
  BY DEF MuxCtl, MuxTypes
<1>3. /\ Len(inq') = Len(inq) + 1 /\ Len(inq) \in Nat /\ inq'[Len(inq) + 1] = f
      /\ \A j \in 1 .. Len(inq) : inq'[j] = inq[j] /\ inq[j].id \in Streams
  <2>1. \A j \in 1 .. Len(inq) : inq[j] \in Frames(Streams)
    BY <1>2
  <2>2. \A j \in 1 .. Len(inq) : inq[j].id \in Streams
    BY <2>1 DEF Frames
  <2> QED
    BY <1>1, <1>2, <2>2
<1>4. \A j \in 1 .. Len(inq') : j \in 1 .. Len(inq) \/ (j = Len(inq) + 1 /\ inq'[j] = f)
  BY <1>3
<1>5. /\ f.cmd = "SYN" => sent[f.id] = -1
      /\ \A s \in Streams : sent[s] # -1 => sent'[s] # -1
  <2>1. sent[f.id] \in Int
    BY <1>1, <1>2
  <2> QED
    BY <1>1, <1>2, <2>1 DEF Appends
<1>6. FramesAreOwn'
  <2>1. \A j \in 1 .. Len(inq') : inq'[j].of = inq'[j].id
    BY <1>1, <1>3, <1>4 DEF Origin, FramesAreOwn
  <2>2. ASSUME NEW j \in 1 .. Len(inq), inq[j].cmd = "SYN", f.cmd = "SYN" PROVE inq[j].id # f.id
    BY <1>2, <1>5, <2>2 DEF SynOnce
  <2>3. \A j, k \in 1 .. Len(inq') :
          inq'[j].cmd = "SYN" /\ inq'[k].cmd = "SYN" /\ inq'[j].id = inq'[k].id => j = k
    BY <1>3, <1>4, <2>2 DEF Origin, FramesAreOwn
  <2> QED
    BY <2>1, <2>3 DEF FramesAreOwn
<1>7. \A i : (Dialling(i)' <=> Dialling(i)) /\ (Started(i)' <=> Started(i))
  BY <1>1 DEF Dialling, Started
<1>8. NothingBefore'
  BY <1>1, <1>3, <1>4, <1>7 DEF Origin, NothingBefore
<1>9. WaitsForOwn'
  <2>1. ASSUME NEW s \in Streams, Missed(s) PROVE Missed(s)'
    <3>1. s # 0
      BY WorkerMuxAssumption
    <3>2. HandledAs(f)' = f.id /\ \A g : HandledAs(g)' = HandledAs(g)
      BY <1>1 DEF HandledAs
    <3>3. sent[s] # -1 /\ ~Announced(s)
      BY <2>1 DEF Missed
    <3>4. ~(f.cmd = "SYN" /\ f.id = s)
      BY <1>5, <3>3
    <3>5. ~Announced(s)'
      BY <1>3, <1>4, <3>2, <3>3, <3>4 DEF Announced
    <3> QED
      BY <1>5, <1>7, <2>1, <3>5 DEF Missed
  <2> QED
    BY <1>1, <2>1, Zenon DEF Origin, WaitsForOwn
<1> QED
  BY <1>6, <1>8, <1>9 DEF Origin

\* Beside the queue nothing is started that was not dialled.
LEMMA OriginBeside ==
  ASSUME Origin, Beside, \A i \in Ids : Dialling(i)' => Dialling(i),
         \A i \in Ids : Started(i)' => Started(i) \/ Dialling(i)
  PROVE  Origin'
<1>1. FramesAreOwn'
  BY DEF Origin, FramesAreOwn, Beside
<1>2. NothingBefore'
  BY DEF Origin, NothingBefore, Beside
<1>3. \A s \in Streams : Missed(s) => Missed(s)'
  <2> TAKE s \in Streams
  <2>1. s \in Ids
    BY DEF Ids
  <2> QED
    BY <2>1 DEF Missed, Announced, HandledAs, Beside
<1>4. WaitsForOwn'
  <2>1. remain' = remain
    BY DEF Beside
  <2> QED
    BY <1>3, <2>1, Zenon DEF Origin, WaitsForOwn
<1> QED
  BY <1>1, <1>2, <1>4 DEF Origin

\* The queue without its first message.
LEMMA OriginTail ==
  ASSUME MuxTypes, QueueHead, SynOnce, Origin, Moves
  PROVE  /\ FramesAreOwn'
         /\ \A j \in 1 .. Len(inq') : Odd(inq'[j]) => inq[1].cmd = "HDR" /\ \E k \in 1 .. Len(inq) : Odd(inq[k])
         /\ \A s \in Streams : inq[1].cmd = "SYN" /\ inq[1].id = s => ~Announced(s)'
<1>1. /\ inq \in Seq(Frames(Streams)) /\ inq # <<>> /\ inq' = Tail(inq) /\ UNCHANGED <<plat, sent>>
  BY DEF Moves
<1>2. /\ 1 \in 1 .. Len(inq) /\ Len(inq) \in Nat
      /\ \A j \in 1 .. Len(inq') : j + 1 \in 1 .. Len(inq) /\ j + 1 # 1 /\ j \in Nat /\ inq'[j] = inq[j + 1]
  BY <1>1
<1>3. FramesAreOwn'
  <2>1. \A j \in 1 .. Len(inq') : inq'[j].of = inq'[j].id
    <3> TAKE j \in 1 .. Len(inq')
    <3>1. PICK m \in 1 .. Len(inq) : inq'[j] = inq[m]
      BY <1>2
    <3> QED
      BY <3>1 DEF Origin, FramesAreOwn
  <2>2. ASSUME NEW j \in 1 .. Len(inq'), NEW k \in 1 .. Len(inq'), inq'[j].cmd = "SYN", inq'[k].cmd = "SYN",
               inq'[j].id = inq'[k].id
        PROVE  j = k
    <3>1. PICK m \in 1 .. Len(inq) : m = j + 1 /\ inq'[j] = inq[m]
      BY <1>2
    <3>2. PICK n \in 1 .. Len(inq) : n = k + 1 /\ inq'[k] = inq[n]
      BY <1>2
    <3>3. m = n
      BY <2>2, <3>1, <3>2 DEF Origin, FramesAreOwn
    <3> QED
      BY <1>2, <3>1, <3>2, <3>3
  <2> QED
    BY <2>1, <2>2 DEF FramesAreOwn
<1>4. ASSUME NEW j \in 1 .. Len(inq'), Odd(inq'[j])
      PROVE  inq[1].cmd = "HDR" /\ \E k \in 1 .. Len(inq) : Odd(inq[k])
  <2>1. PICK k \in 1 .. Len(inq) : k # 1 /\ inq'[j] = inq[k]
    BY <1>2
  <2> QED
    BY <1>4, <2>1 DEF QueueHead
<1>5. ASSUME NEW s \in Streams, inq[1].cmd = "SYN", inq[1].id = s, Announced(s)' PROVE FALSE
  <2>1. s # 0 /\ \A g : HandledAs(g)' = HandledAs(g)
    BY <1>1, WorkerMuxAssumption DEF HandledAs
  <2>2. PICK j \in 1 .. Len(inq') : inq'[j].cmd = "SYN" /\ HandledAs(inq'[j]) = s
    BY <1>5, <2>1 DEF Announced
  <2>3. PICK k \in 1 .. Len(inq) : k # 1 /\ inq'[j] = inq[k]
    BY <1>2
  <2>4. inq[k].id = s
    BY <2>1, <2>2, <2>3 DEF HandledAs
  <2> QED
    BY <1>2, <1>5, <2>2, <2>3, <2>4 DEF Origin, FramesAreOwn
<1> QED
  BY <1>3, <1>4, <1>5

\* The message handler.
LEMMA OriginHandle ==
  ASSUME MuxCtl, Origin, HandleFirst \/ HandleMessage
  PROVE  Origin'
<1>1. MuxTypes /\ QueueHead /\ SynOnce
  BY DEF MuxCtl
<1>2. Moves /\ (Dropped \/ \E c \in Frames(Ids) : Took(c))
  BY <1>1, HandlerSteps
<1>3. /\ inq \in Seq(Frames(Streams)) /\ inq # <<>> /\ busy = None /\ UNCHANGED <<plat, sent, reader>>
  BY <1>2 DEF Moves
<1>4. /\ FramesAreOwn'
      /\ \A j \in 1 .. Len(inq') : Odd(inq'[j]) => inq[1].cmd = "HDR" /\ \E k \in 1 .. Len(inq) : Odd(inq[k])
      /\ \A s \in Streams : inq[1].cmd = "SYN" /\ inq[1].id = s => ~Announced(s)'
      /\ \A i : Announced(i)' => Announced(i)
  BY <1>1, <1>2, OriginTail, TailCtl
<1>5. \A i : Started(i)' <=> Started(i)
  BY <1>3 DEF Started
<1>6. CASE Dropped
  <2>1. UNCHANGED <<remain, busy>>
    BY <1>6 DEF Dropped
  <2>2. \A i : Dialling(i)' <=> Dialling(i)
    BY <2>1 DEF Dialling
  <2>3. NothingBefore'
    BY <1>4, <1>5, <2>1, <2>2 DEF Origin, NothingBefore
  <2>4. \A s \in Streams : Missed(s) => Missed(s)'
    BY <1>3, <1>4, <1>5, <2>2 DEF Missed
  <2>5. WaitsForOwn'
    BY <2>1, <2>4, Zenon DEF Origin, WaitsForOwn
  <2> QED
    BY <1>4, <2>3, <2>5 DEF Origin
<1>7. CASE \E c \in Frames(Ids) : Took(c)
  <2>1. PICK c \in Frames(Ids) : Took(c)
    BY <1>7
  <2>2. HandleFrame(c) /\ c.cmd = inq[1].cmd /\ c.id = HandledAs(inq[1]) /\ c.of = inq[1].of
    BY <2>1 DEF Took
  <2>3. PICK d \in Frames(Ids) : d = Merge(c)
    BY <1>1, MergeIs
  <2>4. \/ d.cmd = "SYN" /\ (Waits(d) \/ Dials(d))
        \/ d.cmd \in {"PSH", "NOP", "FIN"} /\ (Writes(d) \/ Passes)
    BY <1>1, <1>3, <2>2, <2>3, HandleIs
  <2>5. inq[1] \in Frames(Streams) /\ 1 \in 1 .. Len(inq)
    BY <1>3
  <2>6. inq[1].of = inq[1].id /\ inq[1].id \in Streams
    BY <2>5 DEF Origin, FramesAreOwn, Frames
  <2>7. \A j \in 1 .. Len(inq') : ~Odd(inq'[j])
    <3> SUFFICES ASSUME NEW j \in 1 .. Len(inq'), Odd(inq'[j]) PROVE FALSE
      OBVIOUS
    <3>1. inq[1].cmd = "HDR" /\ remain = None
      BY <1>4 DEF Origin, NothingBefore
    <3>2. d.cmd = "HDR"
      BY <1>1, <2>2, <2>3, <3>1, MergeIs
    <3> QED
      BY <2>4, <3>2
  <2>8. NothingBefore'
    BY <2>7 DEF NothingBefore
  <2>9. ASSUME d.cmd = "SYN", Waits(d) PROVE WaitsForOwn'
    <3>1. remain' = d /\ \A i : ~Dialling(i)'
      BY <2>9 DEF Waits, Dialling
    <3>2. CASE remain = None
      <4>1. d = c /\ inq[1].cmd = "SYN"
        BY <1>1, <2>2, <2>3, <2>9, <3>2, MergeIs
      <4>2. PICK s \in Streams : s = inq[1].id /\ d.of = s /\ (d.id = 0 \/ d.id = s)
        BY <2>2, <2>6, <4>1 DEF HandledAs
      <4>3. d.id = 0 => Missed(s)'
        <5> SUFFICES ASSUME d.id = 0 PROVE Missed(s)'
          OBVIOUS
        <5>1. Odd(inq[1])
          BY <2>2, <2>6, <4>1, WorkerMuxAssumption DEF HandledAs
        <5>2. \A i \in Ids : ~Started(i)
          BY <2>5, <5>1 DEF Origin, NothingBefore
        <5>3. s \in Ids /\ sent[s] # -1 /\ ~Announced(s)'
          BY <1>1, <1>4, <2>5, <4>1, <4>2 DEF SynOnce, Ids
        <5> QED
          BY <1>3, <1>5, <3>1, <5>2, <5>3 DEF Missed
      <4> QED
        BY <3>1, <4>2, <4>3, Zenon DEF WaitsForOwn
    <3>3. CASE remain # None
      <4>1. d.id = remain.id /\ d.of = remain.of
        BY <1>1, <2>3, <3>3, MergeIs
      <4>2. \A s \in Streams : Missed(s) => Missed(s)'
        BY <1>3, <1>4, <1>5, <3>1 DEF Missed
      <4> QED
        <5>1. PICK s \in Streams : remain.of = s /\ (remain.id = 0 \/ remain.id = s) /\ (remain.id = 0 => Missed(s))
          BY <3>3 DEF Origin, WaitsForOwn
        <5>2. d.of = s /\ (d.id = 0 \/ d.id = s) /\ (d.id = 0 => Missed(s)')
          BY <4>1, <4>2, <5>1
        <5> QED
          BY <3>1, <5>2, Zenon DEF WaitsForOwn
    <3> QED
      BY <3>2, <3>3
  <2>10. ASSUME Dials(d) PROVE WaitsForOwn'
    <3>1. remain' = None
      BY <2>10 DEF Dials
    <3> QED
      BY <3>1, Zenon DEF WaitsForOwn
  <2>11. ASSUME Writes(d) PROVE WaitsForOwn'
    <3>1. remain' = None
      BY <2>11 DEF Writes
    <3> QED
      BY <3>1, Zenon DEF WaitsForOwn
  <2>12. ASSUME Passes PROVE WaitsForOwn'
    <3>1. UNCHANGED <<remain, busy>>
      BY <2>12 DEF Passes
    <3>2. \A s \in Streams : Missed(s) => Missed(s)'
      BY <1>3, <1>4, <1>5, <3>1 DEF Missed, Dialling
    <3> QED
      BY <3>1, <3>2, Zenon DEF Origin, WaitsForOwn
  <2>13. WaitsForOwn'
    BY <2>4, <2>9, <2>10, <2>11, <2>12
  <2> QED
    BY <1>4, <2>8, <2>13 DEF Origin
<1> QED
  BY <1>2, <1>6, <1>7

-----------------------------------------------------------------------------
\* The message handler writes data of s to its connection.
Writing(s) == busy # None /\ busy.op = "write" /\ busy.id = s

\* At each stage of a stream the server holds its address and its data up to some point,
\* and the queue the rest.
Apart(s) ==
  /\ Announced(s) => Pend(s, 0)
  /\ Waiting(s) => \E n \in Nat : Pend(s, n) /\ remain.body = AddrRun(s, n)
  /\ Dialling(s) => \E n \in Nat \ {0} : Pend(s, n) /\ busy.to = s /\ busy.data = DataRun(s, n)
  /\ Writing(s) => Started(s) /\ Pend(s, Len(got[s]) + 1) /\ busy.data = <<Item(s, Len(got[s]) + 1)>>
  /\ s \in sessions => Len(got[s]) # 0 /\ (pipe = "dead" \/ Pend(s, Len(got[s])) \/ Writing(s))
  /\ got[s] = DataRun(s, Len(got[s])) /\ (Len(got[s]) # 0 => Len(got[s]) <= sent[s])
  /\ ~Started(s) => got[s] = <<>>
  /\ target[s] \in {None, s}

\* A step that does nothing for s.
LEMMA ApartKept ==
  ASSUME NEW s \in Streams, Apart(s), Len(got[s]) \in Nat,
         \A n \in Nat : Pend(s, n) => Pend(s, n)',
         Announced(s)' => Announced(s) \/ Pend(s, 0)',
         Waiting(s)' => Waiting(s) /\ remain' = remain,
         Dialling(s)' => Dialling(s) /\ busy'.to = busy.to /\ busy'.data = busy.data,
         Writing(s)' => Writing(s) /\ busy' = busy,
         got'[s] = got[s], Started(s)' <=> Started(s), s \in sessions' => s \in sessions,
         pipe = "dead" \/ Writing(s) => pipe' = "dead" \/ Writing(s)',
         Len(got[s]) # 0 /\ Len(got[s]) <= sent[s] => Len(got[s]) <= sent'[s],
         target'[s] \in {None, s}
  PROVE  Apart(s)'
<1>1. PICK m \in Nat : m = Len(got[s])
  OBVIOUS
<1>2. Announced(s)' => Pend(s, 0)'
  BY DEF Apart
<1>3. Waiting(s)' => \E n \in Nat : Pend(s, n)' /\ remain'.body = AddrRun(s, n)
  BY Zenon DEF Apart
<1>4. Dialling(s)' => \E n \in Nat \ {0} : Pend(s, n)' /\ busy'.to = s /\ busy'.data = DataRun(s, n)
  <2> SUFFICES ASSUME Dialling(s)'
               PROVE  \E n \in Nat \ {0} : Pend(s, n)' /\ busy'.to = s /\ busy'.data = DataRun(s, n)
    OBVIOUS
  <2>1. PICK n \in Nat \ {0} : Pend(s, n) /\ busy.to = s /\ busy.data = DataRun(s, n)
    BY DEF Apart
  <2>2. n \in Nat
    OBVIOUS
  <2> QED
    BY <2>1, <2>2
<1>5. Writing(s)' => Started(s)' /\ Pend(s, m + 1)' /\ busy'.data = <<Item(s, m + 1)>>
  <2>1. m + 1 \in Nat
    OBVIOUS
  <2> QED
    BY <1>1, <2>1, Zenon DEF Apart
<1>6. s \in sessions' => m # 0 /\ (pipe' = "dead" \/ Pend(s, m)' \/ Writing(s)')
  BY <1>1, Zenon DEF Apart
<1>7. got[s] = DataRun(s, m) /\ (m # 0 => m <= sent'[s]) /\ (~Started(s)' => got[s] = <<>>)
  BY <1>1, Zenon DEF Apart
<1>8. got'[s] = got[s] /\ Len(got[s]) = m /\ target'[s] \in {None, s}
  BY <1>1
<1> QED
  BY <1>2, <1>3, <1>4, <1>5, <1>6, <1>7, <1>8, Zenon DEF Apart

\* Beside the queue nothing becomes or ceases to be pending.
LEMMA BesidePend ==
  ASSUME Beside
  PROVE  /\ \A s, n : Pend(s, n)' <=> Pend(s, n)
         /\ \A s : (Announced(s)' <=> Announced(s)) /\ (Waiting(s)' <=> Waiting(s))
         /\ Pieces' <=> Pieces
  BY DEF Beside, Pend, Announced, HandledAs, Waiting, Pieces

\* The length of what a connection has got.
LEMMA GotLen == ASSUME MuxTypes, NEW s \in Streams PROVE got[s] \in Seq(Items) /\ Len(got[s]) \in Nat /\ s \in Ids
<1>1. s \in Ids
  BY DEF Ids
<1>2. got[s] \in Seq(Items)
  BY <1>1 DEF MuxTypes
<1> QED
  BY <1>1, <1>2

\* The handler dials.
LEMMA DialApart ==
  ASSUME MuxTypes, NEW s \in Streams, Apart(s), DenoDial \/ CloudDial
  PROVE  Apart(s)'
<1>1. /\ Beside /\ busy # None /\ busy.op = "dial" /\ busy \in Jobs /\ busy.id \in Ids /\ (pipe' = pipe \/ pipe' = "dead")
      /\ UNCHANGED <<sessions, got, reader>>
      /\ \/ /\ busy.to # None /\ busy' = [busy EXCEPT !.op = "early"]
            /\ target' = [target EXCEPT ![busy.id] = busy.to]
         \/ busy' = None /\ target' = target
  BY DEF DenoDial, CloudDial, Beside, Throw, clientVars, MuxTypes, Jobs
<1>2. s \in Ids /\ Len(got[s]) \in Nat /\ target \in [Ids -> Nat \cup {None}]
  BY GotLen DEF MuxTypes
<1>3. busy' = None \/ (busy'.op = "early" /\ busy'.id = busy.id /\ busy'.to = busy.to /\ busy'.data = busy.data)
  BY <1>1 DEF Jobs
<1>4. ~Writing(s) /\ ~Writing(s)'
  BY <1>1, <1>3 DEF Writing
<1>5. Dialling(s)' => Dialling(s) /\ busy'.to = busy.to /\ busy'.data = busy.data
  BY <1>1, <1>3 DEF Dialling
<1>6. target'[s] \in {None, s}
  <2>1. CASE s # busy.id \/ target' = target
    BY <1>1, <1>2, <2>1 DEF Apart
  <2>2. CASE s = busy.id /\ target' = [target EXCEPT ![busy.id] = busy.to]
    <3>1. Dialling(s)
      BY <1>1, <2>2 DEF Dialling
    <3>2. busy.to = s
      BY <3>1 DEF Apart
    <3> QED
      BY <1>2, <2>2, <3>2
  <2> QED
    BY <1>1, <2>1, <2>2
<1>7. /\ \A n \in Nat : Pend(s, n) => Pend(s, n)'
      /\ Announced(s)' => Announced(s)
      /\ Waiting(s)' => Waiting(s)
  BY <1>1, BesidePend
<1>8. remain' = remain /\ sent' = sent /\ (Started(s)' <=> Started(s))
  BY <1>1 DEF Beside, Started
<1> QED
  BY <1>1, <1>2, <1>4, <1>5, <1>6, <1>7, <1>8, ApartKept

\* The reader of a connection, and its end.
LEMMA ReaderApart ==
  ASSUME MuxTypes, NEW s \in Streams, Apart(s), NEW i \in Ids, MuxReader(i) \/ RemoteEnds(i)
  PROVE  Apart(s)'
<1>1. /\ Beside /\ UNCHANGED <<busy, pipe, target, got>> /\ sessions' \subseteq sessions
  BY DEF MuxReader, DenoRead, DenoSendFails, CloudRead, CloudSendPiece, CloudSendFails, ReaderEnds,
         SendParkedFin, RemoteEnds, CloseSession, Beside, clientVars, connVars
<1>2. Started(s)' <=> Started(s)
  <2>1. reader' = reader \/ (reader[i] = "run" /\ reader' = [reader EXCEPT ![i] = "done"])
    BY DEF MuxReader, DenoRead, DenoSendFails, CloudRead, CloudSendPiece, CloudSendFails, ReaderEnds,
           SendParkedFin, RemoteEnds, connVars
  <2> QED
    BY <2>1, GotLen DEF Started, MuxTypes
<1>3. s \in Ids /\ Len(got[s]) \in Nat /\ target[s] \in {None, s}
  BY GotLen DEF Apart
<1>4. /\ \A n \in Nat : Pend(s, n) => Pend(s, n)'
      /\ Announced(s)' => Announced(s)
      /\ Waiting(s)' => Waiting(s)
  BY <1>1, BesidePend
<1>5. remain' = remain /\ sent' = sent /\ (Dialling(s)' <=> Dialling(s)) /\ (Writing(s)' <=> Writing(s))
  BY <1>1 DEF Beside, Dialling, Writing
<1> QED
  BY <1>1, <1>2, <1>3, <1>4, <1>5, ApartKept

\* The handler has written, or failed to.
LEMMA WriteApart ==
  ASSUME MuxTypes, NEW s \in Streams, Apart(s), OneStage(s), OutOf(s),
         EarlyWritten \/ EarlyFails \/ DataWritten \/ DataFails
  PROVE  Apart(s)'
<1>1. /\ Beside /\ busy # None /\ busy' = None /\ busy \in Jobs /\ busy.id \in Ids /\ target' = target
      /\ busy.data \in Seq(Items)
  BY DEF EarlyWritten, EarlyFails, DataWritten, DataFails, Beside, Throw, clientVars, connVars, MuxTypes, Jobs
<1>2. /\ s \in Ids /\ got[s] \in Seq(Items) /\ Len(got[s]) \in Nat /\ target[s] \in {None, s}
      /\ got \in [Ids -> Seq(Items)] /\ reader \in [Ids -> {"off", "run", "done"}]
  BY GotLen DEF MuxTypes, Apart
<1>3. /\ \A n \in Nat : Pend(s, n) <=> Pend(s, n)'
      /\ Announced(s)' <=> Announced(s)
      /\ Waiting(s)' <=> Waiting(s)
      /\ remain' = remain /\ sent' = sent
  BY <1>1, BesidePend DEF Beside
<1>4. ~Dialling(s)' /\ ~Writing(s)'
  BY <1>1 DEF Dialling, Writing
<1>5. CASE EarlyWritten /\ s = busy.id
  <2>1. /\ busy.op = "early" /\ got' = [got EXCEPT ![s] = @ \o busy.data]
        /\ sessions' = sessions \cup {s} /\ reader' = [reader EXCEPT ![s] = "run"] /\ pipe' = pipe
    BY <1>5 DEF EarlyWritten
  <2>2. Dialling(s) /\ ~Announced(s) /\ ~Waiting(s) /\ ~Started(s)
    BY <1>1, <1>5, <2>1 DEF Dialling, OneStage
  <2>3. PICK n \in Nat \ {0} : Pend(s, n) /\ busy.data = DataRun(s, n)
    BY <2>2 DEF Apart
  <2>4. n \in Nat /\ n # 0 /\ DataRun(s, n) \in Seq(Items) /\ Len(DataRun(s, n)) = n
    BY RunIs
  <2>5. got[s] = <<>>
    BY <2>2 DEF Apart
  <2>6. got'[s] = DataRun(s, n)
    <3>1. <<>> \o DataRun(s, n) = DataRun(s, n)
      BY <2>4
    <3>2. got'[s] = got[s] \o busy.data
      BY <1>2, <2>1
    <3> QED
      BY <2>3, <2>5, <3>1, <3>2, Zenon
  <2>7. n <= sent[s]
    BY <2>3 DEF Pend
  <2>8. Started(s)' /\ Pend(s, n)'
    BY <1>2, <1>3, <2>1, <2>3, <2>4 DEF Started
  <2>9. Len(got'[s]) = n
    BY <2>4, <2>6, Zenon
  <2> QED
    BY <1>1, <1>2, <1>3, <1>4, <2>2, <2>4, <2>6, <2>7, <2>8, <2>9, Zenon DEF Apart
<1>6. CASE DataWritten /\ s = busy.id
  <2>1. /\ busy.op = "write" /\ got' = [got EXCEPT ![s] = @ \o busy.data]
        /\ UNCHANGED <<sessions, reader, pipe>>
    BY <1>6 DEF DataWritten
  <2>2. Writing(s)
    BY <1>1, <1>6, <2>1 DEF Writing
  <2>3. PICK n \in Nat : n = Len(got[s])
    BY <1>2
  <2>4. /\ Started(s) /\ Pend(s, n + 1) /\ busy.data = <<Item(s, n + 1)>> /\ got[s] = DataRun(s, n)
        /\ s \in sessions => n # 0
    BY <2>2, <2>3, Zenon DEF Apart
  <2>5. ~Announced(s) /\ ~Waiting(s)
    BY <2>4 DEF OneStage
  <2>6. PICK m \in Nat : m = n + 1 /\ m # 0
    BY <2>3
  <2>7. got'[s] = DataRun(s, m)
    <3>1. got'[s] = got[s] \o busy.data
      BY <1>2, <2>1
    <3>2. DataRun(s, n) \o <<Item(s, n + 1)>> = DataRun(s, n + 1)
      BY DataGrows
    <3> QED
      BY <2>4, <2>6, <3>1, <3>2, Zenon
  <2>8. Len(got'[s]) = m
    BY <2>7, RunIs, Zenon
  <2>9. m <= sent[s] /\ Pend(s, m)' /\ Started(s)'
    <3>1. Pend(s, m)
      BY <2>4, <2>6, Zenon
    <3>2. m <= sent[s]
      BY <3>1 DEF Pend
    <3>3. Started(s)'
      BY <2>1, <2>4 DEF Started
    <3> QED
      BY <1>3, <3>1, <3>2, <3>3
  <2> QED
    BY <1>1, <1>2, <1>3, <1>4, <2>5, <2>6, <2>7, <2>8, <2>9, Zenon DEF Apart
<1>7. CASE /\ got'[s] = got[s] /\ (Started(s)' <=> Started(s)) /\ (s \in sessions' => s \in sessions)
           /\ pipe = "dead" \/ Writing(s) => pipe' = "dead"
  BY <1>1, <1>2, <1>3, <1>4, <1>7, ApartKept
<1>8. EarlyWritten /\ s # busy.id => /\ got'[s] = got[s] /\ (Started(s)' <=> Started(s)) /\ (s \in sessions' => s \in sessions)
                                     /\ pipe' = pipe /\ ~Writing(s)
  BY <1>1, <1>2 DEF EarlyWritten, Started, Writing
<1>9. DataWritten /\ s # busy.id => /\ got'[s] = got[s] /\ (Started(s)' <=> Started(s)) /\ (s \in sessions' => s \in sessions)
                                    /\ pipe' = pipe /\ ~Writing(s)
  BY <1>1, <1>2 DEF DataWritten, Started, Writing
<1>10. EarlyFails => /\ got'[s] = got[s] /\ (Started(s)' <=> Started(s)) /\ (s \in sessions' => s \in sessions)
                     /\ (pipe' = pipe \/ pipe' = "dead") /\ ~Writing(s)
  BY <1>1, <1>2 DEF EarlyFails, Started, Writing, connVars, Throw
<1>11. DataFails => /\ got'[s] = got[s] /\ (Started(s)' <=> Started(s)) /\ (s \in sessions' => s \in sessions)
                    /\ pipe' = "dead"
  BY <1>1, <1>2 DEF DataFails, Started, connVars, Throw
<1> QED
  BY <1>5, <1>6, <1>7, <1>8, <1>9, <1>10, <1>11

\* The client's first two frames.
LEMMA FirstFramesApart ==
  ASSUME MuxCtl, NEW t \in Streams, FirstFrames(t)
  PROVE  /\ Pieces'
         /\ \A s \in Streams : Apart(s) => Apart(s)'
<1>1. /\ ClientFixed /\ sent' = [sent EXCEPT ![t] = 0] /\ \A s \in Streams : sent[s] = -1
  BY DEF FirstFrames
<1>2. PICK h, f \in Frames(Streams) :
       /\ inq' = <<h, f>> /\ h.cmd = "HDR" /\ ~Odd(h) /\ h.body = <<>>
       /\ f.cmd = "SYN" /\ Odd(f) /\ f.id = t /\ f.body = <<>>
  BY DEF FirstFrames
<1>3. /\ inq' \in Seq(Frames(Streams)) /\ Len(inq') = 2 /\ inq'[1] = h /\ inq'[2] = f
      /\ \A j \in 1 .. Len(inq') : j = 1 \/ j = 2
  BY <1>2
<1>4. Pieces'
  BY <1>2, <1>3 DEF Pieces, IsPiece
<1>5. MuxTypes
  BY DEF MuxCtl
<1>6. ASSUME NEW s \in Streams, Apart(s) PROVE Apart(s)'
  <2>1. s \in Ids /\ Len(got[s]) \in Nat /\ target[s] \in {None, s} /\ sent[s] = -1 /\ sent \in [Streams -> Int]
    BY <1>1, <1>5, <1>6, GotLen DEF Apart, MuxTypes
  <2>2. \A n \in Nat : ~Pend(s, n)
    BY <2>1 DEF Pend
  <2>3. Announced(s)' => Pend(s, 0)'
    <3> SUFFICES ASSUME Announced(s)' PROVE Pend(s, 0)'
      OBVIOUS
    <3>1. s # 0
      BY WorkerMuxAssumption
    <3>2. s = t
      BY <1>2, <1>3, <3>1 DEF Announced, HandledAs
    <3>3. sent'[s] = 0
      BY <1>1, <2>1, <3>2
    <3>4. \A j \in 1 .. Len(inq') : ~IsPiece(inq'[j], s)
      BY <1>2, <1>3 DEF IsPiece
    <3> QED
      BY <3>3, <3>4 DEF Pend
  <2>4. (Waiting(s)' <=> Waiting(s)) /\ (Dialling(s)' <=> Dialling(s)) /\ (Writing(s)' <=> Writing(s)) /\ (Started(s)' <=> Started(s))
    BY <1>1 DEF ClientFixed, connVars, Waiting, Dialling, Writing, Started
  <2>5. UNCHANGED <<remain, busy, got, sessions, pipe, target>>
    BY <1>1 DEF ClientFixed, connVars
  <2>6. ~(Len(got[s]) <= sent[s])
    BY <2>1
  <2> QED
    BY <1>6, <2>1, <2>2, <2>3, <2>4, <2>5, <2>6, ApartKept
<1> QED
  BY <1>4, <1>6

\* One more frame of the client.
LEMMA AppendsApart ==
  ASSUME MuxTypes, Pieces, NEW f \in Frames(Streams), Appends(f), NEW s \in Streams, Apart(s)
  PROVE  Apart(s)'
<1>1. ClientFixed /\ inq' = Append(inq, f) /\ ~Odd(f) /\ inq \in Seq(Frames(Streams)) /\ sent \in [Streams -> Int]
  BY DEF Appends, MuxTypes
<1>2. /\ \A n \in Nat : Pend(s, n) => Pend(s, n)'
      /\ f.cmd = "SYN" /\ s = f.id => Pend(s, 0)'
  BY AppendsPieces
<1>3. Len(inq') = Len(inq) + 1 /\ inq'[Len(inq) + 1] = f /\ \A j \in 1 .. Len(inq) : inq'[j] = inq[j]
  BY <1>1
<1>4. Announced(s)' => Announced(s) \/ (f.cmd = "SYN" /\ s = f.id)
  BY <1>1, <1>3 DEF Announced, HandledAs, ClientFixed
<1>5. s \in Ids /\ Len(got[s]) \in Nat /\ target[s] \in {None, s}
  BY GotLen DEF Apart
<1>6. sent'[s] \in Int /\ sent[s] \in Int /\ sent'[s] >= sent[s]
  BY <1>1, AppendsSent
<1>7. (Waiting(s)' <=> Waiting(s)) /\ (Dialling(s)' <=> Dialling(s)) /\ (Writing(s)' <=> Writing(s)) /\ (Started(s)' <=> Started(s))
  BY <1>1 DEF ClientFixed, connVars, Waiting, Dialling, Writing, Started
<1>8. UNCHANGED <<remain, busy, got, sessions, pipe, target>>
  BY <1>1 DEF ClientFixed, connVars
<1>9. Len(got[s]) # 0 /\ Len(got[s]) <= sent[s] => Len(got[s]) <= sent'[s]
  BY <1>5, <1>6
<1> QED
  BY <1>2, <1>4, <1>5, <1>7, <1>8, <1>9, ApartKept

-----------------------------------------------------------------------------
\* A job is awaited, None is not.
LEMMA JobIsNotNone == None \notin Jobs
<1>1. Ids \subseteq Nat
  BY WorkerMuxAssumption DEF Ids
<1>2. \A j \in Jobs : j \in [op : {"dial", "early", "write"}, id : Nat,
                            to : Nat \cup {None}, data : Seq(Nat \X Nat)]
  BY <1>1 DEF Jobs, Items
<1> QED
  BY <1>2, WorkerMuxAssumption

\* The message handler does nothing for s.
LEMMA HandleKept ==
  ASSUME MuxTypes, QueueHead, SynOnce, Pieces, Moves, NEW s \in Streams, Apart(s), ~IsPiece(inq[1], s),
         sessions' \subseteq sessions, Waiting(s)' => Waiting(s) /\ remain' = remain, ~Dialling(s)', ~Writing(s)'
  PROVE  Apart(s)'
<1>1. UNCHANGED <<sent, pipe, target, got, reader>> /\ pipe = "run" /\ busy = None
  BY DEF Moves
<1>2. \A n \in Nat : Pend(s, n) => Pend(s, n)'
  BY TailPieces
<1>3. Announced(s)' => Announced(s)
  BY TailCtl
<1>4. Len(got[s]) \in Nat /\ target[s] \in {None, s}
  BY GotLen DEF Apart
<1>5. (Started(s)' <=> Started(s)) /\ ~Writing(s)
  BY <1>1 DEF Started, Writing
<1> QED
  BY <1>1, <1>2, <1>3, <1>4, <1>5, ApartKept

\* The frame that the handler reads, and the message it reads it from.
LEMMA TookIs ==
  ASSUME MuxTypes, QueueHead, Pieces, Moves, NEW c \in Frames(Ids), Took(c)
  PROVE  /\ \A s \in Streams : IsPiece(inq[1], s) => /\ c.cmd = "PSH" /\ c.id = s
                                                     /\ Num(inq[1]) \in Nat /\ c.body = Body(s, Num(inq[1]))
         /\ c.cmd # "SYN" => c.id = inq[1].id /\ c.id \in Streams
         /\ c.cmd = "PSH" => IsPiece(inq[1], c.id)
         /\ c.cmd # "PSH" /\ c.id # 0 => c.body = <<>>
         /\ c.cmd = "NOP" => c.body = <<>>
<1>1. inq \in Seq(Frames(Streams)) /\ inq # <<>>
  BY DEF Moves
<1>2. 1 \in 1 .. Len(inq) /\ inq[1] \in Frames(Streams) /\ Len(inq) \in Nat
  BY <1>1
<1>3. inq[1].id \in Streams /\ inq[1].id # 0
  BY <1>2, WorkerMuxAssumption DEF Frames
<1>4. /\ c.cmd = inq[1].cmd /\ c.id = HandledAs(inq[1])
      /\ HandledAs(inq[1]) # 0 => c.body = inq[1].body
  BY DEF Took
<1>5. inq[1].cmd # "SYN" => HandledAs(inq[1]) = inq[1].id
  BY <1>2 DEF QueueHead, HandledAs
<1>6. c.cmd # "SYN" => c.id = inq[1].id /\ c.id \in Streams /\ c.body = inq[1].body
  BY <1>3, <1>4, <1>5
<1>7. /\ inq[1].cmd = "PSH" => Num(inq[1]) \in 1 .. sent[inq[1].id] /\ inq[1].body = Body(inq[1].id, Num(inq[1]))
      /\ inq[1].cmd # "PSH" => inq[1].body = <<>>
  BY <1>2 DEF Pieces
<1>8. ASSUME NEW s \in Streams, IsPiece(inq[1], s)
      PROVE  c.cmd = "PSH" /\ c.id = s /\ Num(inq[1]) \in Nat /\ c.body = Body(s, Num(inq[1]))
  <2>1. inq[1].cmd = "PSH" /\ inq[1].id = s
    BY <1>8 DEF IsPiece
  <2>2. Num(inq[1]) \in Nat
    BY <1>7, <2>1
  <2> QED
    BY <1>4, <1>6, <1>7, <2>1, <2>2
<1>9. c.cmd = "PSH" => IsPiece(inq[1], c.id)
  BY <1>4, <1>6 DEF IsPiece
<1>10. c.cmd # "PSH" /\ c.id # 0 => c.body = <<>>
  BY <1>4, <1>7
<1>11. c.cmd = "NOP" => c.body = <<>>
  BY <1>3, <1>6, <1>10
<1> QED
  BY <1>6, <1>8, <1>9, <1>10, <1>11

\* A frame that joins no waiting SYN.
LEMMA FreshApart ==
  ASSUME MuxCtl, Pieces, Moves, NEW c \in Frames(Ids), Took(c), remain = None, NEW s \in Streams, Apart(s)
  PROVE  Apart(s)'
<1>1. MuxTypes /\ QueueHead /\ SynOnce /\ OneStage(s) /\ OutOf(s) /\ s \in Ids
  BY GotLen DEF MuxCtl
<1>2. UNCHANGED <<sent, pipe, target, got, reader>> /\ pipe = "run" /\ busy = None
  BY DEF Moves
<1>3. HandleFrame(c) /\ c.cmd = inq[1].cmd /\ c.id = HandledAs(inq[1])
  BY DEF Took
<1>4. Merge(c) = c
  BY <1>1, MergeIs
<1>5. \/ c.cmd = "SYN" /\ (Waits(c) \/ Dials(c)) /\ UNCHANGED <<sessions, out, parked, remote>>
      \/ c.cmd = "PSH" /\ c.id \in sessions /\ Writes(c) /\ UNCHANGED <<sessions, out, parked, remote>>
      \/ c.cmd = "PSH" /\ c.id \notin sessions /\ Passes /\ UNCHANGED <<sessions, out, parked, remote>>
      \/ c.cmd = "NOP" /\ Passes /\ UNCHANGED <<sessions, out, parked, remote>>
      \/ c.cmd = "FIN" /\ Passes /\ CloseSession(c.id)
  BY <1>1, <1>2, <1>3, <1>4, HandleIs
<1>6. sessions' \subseteq sessions
  BY <1>5 DEF CloseSession
<1>7. Passes => (Waiting(s)' => Waiting(s) /\ remain' = remain) /\ ~Dialling(s)' /\ ~Writing(s)'
  BY <1>2 DEF Passes, Waiting, Dialling, Writing
<1>8. CASE c.id # s
  <2>1. ~IsPiece(inq[1], s)
    BY <1>1, <1>8, TookIs
  <2>2. (Waiting(s)' => Waiting(s) /\ remain' = remain) /\ ~Dialling(s)' /\ ~Writing(s)'
    <3>1. CASE Waits(c)
      BY <1>8, <3>1 DEF Waits, Waiting, Dialling, Writing
    <3>2. CASE Dials(c)
      <4>1. remain' = None /\ busy'.id = c.id
        BY <3>2 DEF Dials
      <4> QED
        BY <1>8, <4>1 DEF Waiting, Dialling, Writing
    <3>3. CASE Writes(c)
      <4>1. remain' = None /\ busy'.id = c.id
        BY <3>3 DEF Writes
      <4> QED
        BY <1>8, <4>1 DEF Waiting, Dialling, Writing
    <3> QED
      BY <1>5, <1>7, <3>1, <3>2, <3>3
  <2> QED
    BY <1>1, <1>6, <2>1, <2>2, HandleKept
<1>9. CASE c.id = s /\ c.cmd = "SYN"
  <2>1. s # 0
    BY WorkerMuxAssumption
  <2>2. c.body = <<>> /\ ~IsPiece(inq[1], s)
    <3>1. "SYN" # "PSH"
      OBVIOUS
    <3> QED
      BY <1>1, <1>9, <2>1, <3>1, TookIs, Zenon
  <2>3. Announced(s) /\ ~Announced(s)'
    BY <1>1, <1>3, <1>9, TailCtl
  <2>4. Pend(s, 0)' /\ ~Started(s) /\ s \notin sessions
    BY <1>1, <2>2, <2>3, TailPieces DEF Apart, OneStage, OutOf
  <2>5. remain' = c /\ busy' = None
    BY <1>5, <1>9, <2>2 DEF Waits, Dials
  <2>6. AddrRun(s, 0) = <<>> /\ 0 \in Nat
    BY DEF AddrRun
  <2>7. ~Dialling(s)' /\ ~Writing(s)' /\ ~Started(s)' /\ s \notin sessions'
    BY <1>2, <1>6, <2>4, <2>5 DEF Dialling, Writing, Started
  <2>8. Waiting(s)' => \E n \in Nat : Pend(s, n)' /\ remain'.body = AddrRun(s, n)
    BY <2>2, <2>4, <2>5, <2>6, Zenon
  <2> QED
    BY <1>2, <2>3, <2>4, <2>7, <2>8, Zenon DEF Apart
<1>10. CASE c.id = s /\ c.cmd = "PSH" /\ c.id \in sessions /\ Writes(c)
  <2>1. IsPiece(inq[1], s) /\ c.body = Body(s, Num(inq[1]))
    BY <1>1, <1>10, TookIs
  <2>2. PICK n \in Nat : n = Len(got[s]) /\ n # 0 /\ Pend(s, n)
    <3>1. Len(got[s]) \in Nat /\ ~Writing(s) /\ pipe # "dead"
      BY <1>1, <1>2, GotLen DEF Writing
    <3> QED
      BY <1>10, <3>1, Zenon DEF Apart
  <2>3. Num(inq[1]) = n + 1 /\ Pend(s, n + 1)'
    BY <1>1, <2>1, <2>2, TailPieces
  <2>4. c.body = <<Item(s, n + 1)>>
    <3>1. n + 1 \in Nat \ {0} /\ n + 1 # 1
      BY <2>2
    <3> QED
      BY <2>1, <2>3, <3>1, BodyIs, Zenon
  <2>5. remain' = None /\ busy'.op = "write" /\ busy'.id = s /\ busy'.data = c.body
    BY <1>10 DEF Writes
  <2>6. Started(s) /\ Started(s)'
    BY <1>1, <1>2, <1>10 DEF OutOf, Started
  <2>7. ~Waiting(s)' /\ ~Dialling(s)' /\ ~Announced(s)'
    <3>1. ~Announced(s)
      BY <1>1, <2>6 DEF OneStage
    <3>2. ~Announced(s)'
      BY <1>1, <3>1, TailCtl
    <3> QED
      BY <2>5, <3>2 DEF Waiting, Dialling
  <2>8. busy' # None => Writing(s)'
    BY <2>5 DEF Writing
  <2>9. busy' # None
    <3>1. busy' \in Jobs
      <4>1. busy' = [op |-> "write", id |-> c.id, to |-> None, data |-> c.body]
        BY <1>10 DEF Writes
      <4>2. c.id \in Ids /\ c.body \in Seq(Items)
        BY DEF Frames
      <4> QED
        BY <4>1, <4>2 DEF Jobs
    <3> QED
      BY <3>1, JobIsNotNone
  <2> QED
    BY <1>2, <2>2, <2>3, <2>4, <2>5, <2>6, <2>7, <2>8, <2>9, Zenon DEF Apart
<1>11. CASE c.id = s /\ c.cmd = "PSH" /\ c.id \notin sessions /\ Passes
  <2>1. IsPiece(inq[1], s)
    BY <1>1, <1>11, TookIs
  <2>2. ~Announced(s)
    <3>1. inq \in Seq(Frames(Streams)) /\ inq # <<>>
      BY DEF Moves
    <3>2. 1 \in 1 .. Len(inq) /\ \A j \in 1 .. Len(inq) : ~(j < 1)
      BY <3>1
    <3>3. s # 0
      BY WorkerMuxAssumption
    <3>4. \A j \in 1 .. Len(inq) : HandledAs(inq[j]) = s => inq[j].id = s
      BY <3>3 DEF HandledAs
    <3> QED
      BY <2>1, <3>2, <3>4 DEF Announced, Pieces
  <2>3. ~Announced(s)'
    BY <1>1, <2>2, TailCtl
  <2>4. ~Waiting(s)' /\ ~Dialling(s)' /\ ~Writing(s)' /\ s \notin sessions' /\ (Started(s)' <=> Started(s))
    BY <1>2, <1>6, <1>7, <1>11 DEF Waiting, Started
  <2> QED
    BY <1>2, <2>3, <2>4, Zenon DEF Apart
<1>12. CASE c.cmd \in {"NOP", "FIN"} /\ Passes
  <2>1. ~IsPiece(inq[1], s)
    BY <1>1, <1>12, TookIs
  <2> QED
    BY <1>1, <1>6, <1>7, <1>12, <2>1, HandleKept
<1> QED
  BY <1>5, <1>8, <1>9, <1>10, <1>11, <1>12

\* A frame that joins a waiting SYN, which is its own.
LEMMA MergedApart ==
  ASSUME MuxCtl, Pieces, Origin, Moves, NEW c \in Frames(Ids), Took(c), remain # None, ~Swallows(c),
         NEW s \in Streams, Apart(s)
  PROVE  Apart(s)'
<1>1. MuxTypes /\ QueueHead /\ SynOnce /\ OneStage(s) /\ OutOf(s) /\ s \in Ids
  BY GotLen DEF MuxCtl
<1>2. UNCHANGED <<sent, pipe, target, got, reader>> /\ pipe = "run" /\ busy = None
  BY DEF Moves
<1>3. HandleFrame(c) /\ c.cmd = inq[1].cmd /\ c.id = HandledAs(inq[1])
  BY DEF Took
<1>4. PICK d \in Frames(Ids) : d = Merge(c)
  BY <1>1, MergeIs
<1>5. d.cmd = "SYN" /\ d.id = remain.id /\ d.body = remain.body \o c.body /\ d.body \in Seq(Items)
  <2>1. d.body \in Seq(Items)
    BY DEF Frames
  <2> QED
    BY <1>1, <1>4, <2>1, MergeIs, Zenon
<1>6. (Waits(d) \/ Dials(d)) /\ UNCHANGED <<sessions, out, parked, remote>>
  BY <1>1, <1>2, <1>3, <1>4, <1>5, HandleIs
<1>7. /\ inq[1].id = remain.of \/ c.cmd = "NOP"
      /\ (remain.id = 0 \/ remain.id = remain.of) /\ (remain.id = 0 /\ remain.of = s => Missed(s))
      /\ \A j \in 1 .. Len(inq) : ~Odd(inq[j])
  <2>1. inq[1].of = c.of /\ 1 \in 1 .. Len(inq)
    BY DEF Took, Moves
  <2> QED
    BY <2>1 DEF Swallows, Origin, FramesAreOwn, NothingBefore, WaitsForOwn
<1>8. CASE remain.id # s
  <2>2. ~Waiting(s)' /\ ~Dialling(s)' /\ ~Writing(s)'
    <3>1. CASE Waits(d)
      BY <1>5, <1>8, <3>1 DEF Waits, Waiting, Dialling, Writing
    <3>2. CASE Dials(d)
      <4>1. remain' = None /\ busy'.id = d.id
        BY <3>2 DEF Dials
      <4> QED
        BY <1>5, <1>8, <4>1 DEF Waiting, Dialling, Writing
    <3> QED
      BY <1>6, <3>1, <3>2
  <2>3. CASE ~IsPiece(inq[1], s)
    BY <1>1, <1>6, <2>2, <2>3, HandleKept
  <2>4. CASE IsPiece(inq[1], s)
    <3>1. c.cmd = "PSH" /\ inq[1].id = s
      BY <1>3, <2>4 DEF IsPiece
    <3>2. Missed(s)
      BY <1>7, <1>8, <3>1
    <3>3. ~Announced(s)' /\ ~Started(s) /\ s \notin sessions'
      BY <1>1, <1>6, <3>2, TailCtl DEF Missed, OutOf
    <3> QED
      BY <1>2, <2>2, <3>3, Zenon DEF Apart, Started
  <2> QED
    BY <2>3, <2>4
<1>9. CASE remain.id = s
  <2>1. Waiting(s) /\ ~Announced(s) /\ ~Started(s) /\ s \notin sessions
    BY <1>1, <1>9 DEF Waiting, OneStage, OutOf
  <2>2. PICK n \in Nat : Pend(s, n) /\ remain.body = AddrRun(s, n)
    BY <2>1 DEF Apart
  <2>3. \E m \in Nat : Pend(s, m)' /\ d.body = AddrRun(s, m)
    <3>1. CASE IsPiece(inq[1], s)
      <4>1. Num(inq[1]) = n + 1 /\ Pend(s, n + 1)' /\ c.body = Body(s, Num(inq[1]))
        BY <1>1, <2>2, <3>1, TailPieces, TookIs
      <4>2. d.body = AddrRun(s, n + 1)
        BY <1>5, <2>2, <4>1, AddrGrows, Zenon
      <4>3. n + 1 \in Nat
        OBVIOUS
      <4> QED
        BY <4>1, <4>2, <4>3
    <3>2. CASE ~IsPiece(inq[1], s)
      <4>1. Pend(s, n)'
        BY <1>1, <2>2, <3>2, TailPieces
      <4>2. c.body = <<>>
        <5>1. 1 \in 1 .. Len(inq)
          BY DEF Moves
        <5>2. s # 0 /\ remain.of = s
          BY <1>7, <1>9, WorkerMuxAssumption
        <5>3. c.cmd = "NOP" \/ (c.cmd # "PSH" /\ c.id = s)
          BY <1>3, <1>7, <3>2, <5>1, <5>2 DEF IsPiece, HandledAs
        <5> QED
          BY <1>1, <5>2, <5>3, TookIs
      <4>3. AddrRun(s, n) \o <<>> = AddrRun(s, n)
        <5>1. AddrRun(s, n) \in Seq(Items)
          BY RunIs
        <5> QED
          BY <5>1, ConcatEmptySeq, Zenon
      <4>4. d.body = AddrRun(s, n)
        BY <1>5, <2>2, <4>2, <4>3, Zenon
      <4> QED
        BY <4>1, <4>4
    <3> QED
      BY <3>1, <3>2
  <2>4. PICK m \in Nat : Pend(s, m)' /\ d.body = AddrRun(s, m)
    BY <2>3
  <2>5. ~Announced(s)' /\ ~Started(s)' /\ s \notin sessions'
    BY <1>1, <1>2, <1>6, <2>1, TailCtl DEF Started
  <2>6. CASE Waits(d)
    <3>1. remain' = d /\ ~Dialling(s)' /\ ~Writing(s)'
      BY <2>6 DEF Waits, Dialling, Writing
    <3>2. Waiting(s)' => \E k \in Nat : Pend(s, k)' /\ remain'.body = AddrRun(s, k)
      BY <2>4, <3>1, Zenon
    <3> QED
      BY <1>2, <2>1, <2>5, <3>1, <3>2, Zenon DEF Apart
  <2>7. CASE Dials(d)
    <3>1. m # 0
      BY <2>4, <2>7 DEF Dials, AddrRun
    <3>2. ParseMuxAddress(d.body) = s /\ Tail(d.body) = DataRun(s, m)
      <4>1. m \in Nat \ {0}
        BY <3>1
      <4> QED
        BY <2>4, <4>1, AddrParts, Zenon
    <3>3. remain' = None /\ busy'.op = "dial" /\ busy'.to = ParseMuxAddress(d.body) /\ busy'.data = Tail(d.body)
      BY <2>7 DEF Dials
    <3>4. ~Waiting(s)' /\ ~Writing(s)'
      BY <3>3 DEF Waiting, Writing
    <3>5. Dialling(s)' => \E k \in Nat \ {0} : Pend(s, k)' /\ busy'.to = s /\ busy'.data = DataRun(s, k)
      <4>1. m \in Nat \ {0}
        BY <3>1
      <4> QED
        BY <2>4, <3>2, <3>3, <4>1, Zenon
    <3> QED
      BY <1>2, <2>1, <2>5, <3>4, <3>5, Zenon DEF Apart
  <2> QED
    BY <1>6, <2>6, <2>7
<1> QED
  BY <1>8, <1>9

\* The message handler, as long as no waiting SYN eats a frame that is not its own.
LEMMA HandleApart ==
  ASSUME MuxCtl, Pieces, Origin, HandleFirst \/ HandleMessage
  PROVE  /\ Pieces' /\ (swallowed => swallowed')
         /\ ~swallowed' => \A s \in Streams : Apart(s) => Apart(s)'
<1>1. MuxTypes /\ QueueHead /\ SynOnce
  BY DEF MuxCtl
<1>2. Moves /\ (Dropped \/ \E c \in Frames(Ids) : Took(c))
  BY <1>1, HandlerSteps
<1>3. Pieces'
  BY <1>1, <1>2, TailPieces
<1>4. CASE Dropped
  <2>1. busy = None
    BY <1>2 DEF Moves
  <2>2. UNCHANGED <<remain, busy, sessions, swallowed>> /\ inq[1].cmd # "PSH"
    BY <1>4 DEF Dropped
  <2>3. \A s \in Streams : /\ ~IsPiece(inq[1], s) /\ (Waiting(s)' => Waiting(s) /\ remain' = remain)
                           /\ ~Dialling(s)' /\ ~Writing(s)'
    BY <2>1, <2>2 DEF IsPiece, Waiting, Dialling, Writing
  <2> QED
    BY <1>1, <1>2, <1>3, <2>2, <2>3, HandleKept
<1>5. CASE \E c \in Frames(Ids) : Took(c)
  <2>1. PICK c \in Frames(Ids) : Took(c)
    BY <1>5
  <2>2. swallowed' = (swallowed \/ Swallows(c))
    BY <2>1 DEF Took, HandleFrame
  <2>3. ASSUME ~Swallows(c), NEW s \in Streams, Apart(s) PROVE Apart(s)'
    BY <1>2, <2>1, <2>3, FreshApart, MergedApart
  <2> QED
    BY <1>3, <2>2, <2>3
<1> QED
  BY <1>2, <1>4, <1>5

\* What is dialled was dialled before, and what is started was dialled.
LEMMA DialStages ==
  ASSUME MuxTypes, DenoDial \/ CloudDial, NEW i \in Ids
  PROVE  (Dialling(i)' => Dialling(i)) /\ (Started(i)' => Started(i) \/ Dialling(i))
<1>1. /\ busy \in Jobs /\ busy # None /\ busy.op = "dial" /\ reader' = reader
      /\ busy' = [busy EXCEPT !.op = "early"] \/ busy' = None
  BY DEF MuxTypes, DenoDial, CloudDial, Throw
<1>2. busy' = None \/ busy'.id = busy.id
  BY <1>1 DEF Jobs
<1> QED
  BY <1>1, <1>2 DEF Dialling, Started

\* The same of a write,
LEMMA WriteStages ==
  ASSUME MuxTypes, EarlyWritten \/ EarlyFails \/ DataWritten \/ DataFails, NEW i \in Ids
  PROVE  (Dialling(i)' => Dialling(i)) /\ (Started(i)' => Started(i) \/ Dialling(i))
<1>1. /\ busy # None /\ busy' = None /\ reader \in [Ids -> {"off", "run", "done"}]
      /\ reader' = reader \/ (busy.op = "early" /\ reader' = [reader EXCEPT ![busy.id] = "run"])
  BY DEF MuxTypes, EarlyWritten, EarlyFails, DataWritten, DataFails, Throw, connVars
<1> QED
  BY <1>1 DEF Dialling, Started

\* and of a reader.
LEMMA ReaderStages ==
  ASSUME MuxTypes, NEW k \in Ids, MuxReader(k) \/ RemoteEnds(k), NEW i \in Ids
  PROVE  (Dialling(i)' => Dialling(i)) /\ (Started(i)' => Started(i) \/ Dialling(i))
<1>1. /\ busy' = busy /\ reader \in [Ids -> {"off", "run", "done"}]
      /\ reader' = reader \/ (reader[k] = "run" /\ reader' = [reader EXCEPT ![k] = "done"])
  BY DEF MuxTypes, MuxReader, DenoRead, DenoSendFails, CloudRead, CloudSendPiece, CloudSendFails, ReaderEnds,
         SendParkedFin, RemoteEnds, connVars
<1> QED
  BY <1>1 DEF Dialling, Started

\* The inductive invariant of StreamsStayApart.
MuxIInv == MuxCtl /\ Pieces /\ Origin /\ (~swallowed => \A s \in Streams : Apart(s))

\* It holds at first;
LEMMA MuxInitIInv == ASSUME NEW p \in {"cloud", "deno"}, MuxInit(p) PROVE MuxIInv
<1>1. MuxCtl
  BY MuxInitCtl
<1>2. Pieces
  BY NoPieces DEF MuxInit
<1>4. Origin
  BY DEF MuxInit, Origin, FramesAreOwn, NothingBefore, WaitsForOwn
<1>3. ASSUME NEW s \in Streams PROVE Apart(s)
  <2>1. s \in Ids
    BY DEF Ids
  <2>2. /\ inq = <<>> /\ remain = None /\ busy = None /\ sessions = {}
        /\ target[s] = None /\ got[s] = <<>> /\ reader[s] = "off"
    BY <2>1 DEF MuxInit
  <2>3. Len(got[s]) = 0 /\ DataRun(s, 0) = <<>>
    BY <2>2 DEF DataRun
  <2>4. ~Announced(s) /\ ~Waiting(s) /\ ~Dialling(s) /\ ~Writing(s)
    BY <2>2 DEF Announced, Waiting, Dialling, Writing
  <2> QED
    BY <2>2, <2>3, <2>4, Zenon DEF Apart
<1> QED
  BY <1>1, <1>2, <1>3, <1>4 DEF MuxIInv

\* and every step keeps it.
LEMMA MuxNextIInv == ASSUME MuxIInv, [MuxNext]_muxVars PROVE MuxIInv'
<1>1. MuxCtl /\ MuxTypes /\ Pieces /\ Origin /\ \A s \in Streams : OneStage(s) /\ OutOf(s)
  BY DEF MuxIInv, MuxCtl, Ids
<1>2. MuxCtl'
  BY <1>1, MuxNextCtl
<1>3. SUFFICES /\ Pieces' /\ Origin' /\ (swallowed => swallowed')
               /\ ~swallowed' => \A s \in Streams : Apart(s) => Apart(s)'
  BY <1>1, <1>2 DEF MuxIInv
<1>4. CASE \E s \in Streams : MuxClient(s)
  <2>1. PICK s \in Streams : MuxClient(s)
    BY <1>4
  <2>2. swallowed' = swallowed
    BY <2>1 DEF MuxClient, ClientOpen, ClientWrite, ClientFin, ClientPing
  <2>3. CASE FirstFrames(s)
    BY <1>1, <2>2, <2>3, FirstFramesApart, OriginFirst
  <2>4. CASE \E f \in Frames(Streams) : Appends(f)
    BY <1>1, <2>2, <2>4, AppendsPieces, AppendsApart, OriginAppends
  <2> QED
    BY <1>1, <2>1, <2>3, <2>4, ClientSteps
<1>5. CASE HandleFirst \/ HandleMessage
  BY <1>1, <1>5, HandleApart, OriginHandle
<1>6. CASE DenoDial \/ CloudDial
  <2>1. Beside
    BY <1>6 DEF DenoDial, CloudDial, Beside, clientVars
  <2>2. Origin'
    BY <1>1, <1>6, <2>1, DialStages, OriginBeside
  <2> QED
    BY <1>1, <1>6, <2>1, <2>2, BesidePend, DialApart DEF Beside
<1>7. CASE EarlyWritten \/ EarlyFails \/ DataWritten \/ DataFails
  <2>1. Beside
    BY <1>7 DEF EarlyWritten, EarlyFails, DataWritten, DataFails, Beside, clientVars
  <2>2. Origin'
    BY <1>1, <1>7, <2>1, WriteStages, OriginBeside
  <2> QED
    BY <1>1, <1>7, <2>1, <2>2, BesidePend, WriteApart DEF Beside
<1>8. CASE \E i \in Ids : MuxReader(i) \/ RemoteEnds(i)
  <2>1. PICK i \in Ids : MuxReader(i) \/ RemoteEnds(i)
    BY <1>8
  <2>2. Beside
    BY <2>1 DEF MuxReader, DenoRead, DenoSendFails, CloudRead, CloudSendPiece, CloudSendFails, ReaderEnds,
                SendParkedFin, RemoteEnds, Beside, clientVars
  <2>3. Origin'
    BY <1>1, <2>1, <2>2, ReaderStages, OriginBeside
  <2> QED
    BY <1>1, <2>1, <2>2, <2>3, BesidePend, ReaderApart DEF Beside
<1>9. CASE UNCHANGED muxVars
  <2>1. Beside /\ UNCHANGED <<swallowed, busy, pipe, target, got, reader, sessions, remain, sent>>
    BY <1>9 DEF Beside, muxVars
  <2>2. ASSUME NEW s \in Streams, Apart(s) PROVE Apart(s)'
    <3>1. s \in Ids /\ Len(got[s]) \in Nat /\ target[s] \in {None, s}
      BY <1>1, <2>2, GotLen DEF Apart
    <3>2. (Dialling(s)' <=> Dialling(s)) /\ (Writing(s)' <=> Writing(s)) /\ (Started(s)' <=> Started(s))
      BY <2>1 DEF Dialling, Writing, Started
    <3>3. (\A n \in Nat : Pend(s, n) => Pend(s, n)') /\ (Announced(s)' => Announced(s)) /\ (Waiting(s)' => Waiting(s))
      BY <2>1, BesidePend
    <3> QED
      BY <2>1, <2>2, <3>1, <3>2, <3>3, ApartKept
  <2>3. Origin'
    <3>1. Beside /\ \A i : (Dialling(i)' <=> Dialling(i)) /\ (Started(i)' <=> Started(i))
      BY <2>1 DEF Dialling, Started
    <3> QED
      BY <1>1, <3>1, OriginBeside
  <2> QED
    BY <1>1, <2>1, <2>2, <2>3, BesidePend
<1> QED
  BY <1>4, <1>5, <1>6, <1>7, <1>8, <1>9 DEF MuxNext, MuxServer

\* The first pieces of data are a prefix of more of them.
LEMMA RunPrefix ==
  ASSUME NEW s \in Streams, NEW n \in Nat, NEW m \in Nat, n <= m
  PROVE  IsPrefix(DataRun(s, n), DataRun(s, m))
<1>1. PICK x \in Seq(Items) : x = DataRun(s, n) /\ Len(x) = n /\ \A j \in 1 .. n : x[j] = Item(s, j)
  BY RunIs
<1>2. PICK y \in Seq(Items) : y = DataRun(s, m) /\ Len(y) = m /\ \A j \in 1 .. m : y[j] = Item(s, j)
  BY RunIs
<1>3. PICK a \in Nat \ {0} : a = 1 /\ a <= n + 1
  OBVIOUS
<1>4. PICK u \in Seq(Items) : PartOf(u, x, a, n)
  <2>1. n <= Len(x)
    BY <1>1
  <2> QED
    BY <1>3, <2>1, Part, Zenon
<1>5. PICK v \in Seq(Items) : PartOf(v, y, a, n)
  <2>1. n <= Len(y)
    BY <1>2
  <2> QED
    BY <1>3, <2>1, Part, Zenon
<1>6. u = SubSeq(x, a, n) /\ Len(u) = n - a + 1 /\ \A j \in 1 .. n - a + 1 : u[j] = x[a + j - 1]
  BY <1>4, Zenon DEF PartOf
<1>7. v = SubSeq(y, a, n) /\ Len(v) = n - a + 1 /\ \A j \in 1 .. n - a + 1 : v[j] = y[a + j - 1]
  BY <1>5, Zenon DEF PartOf
<1>8. n - a + 1 = n /\ \A j \in 1 .. n : a + j - 1 = j /\ j \in 1 .. m
  BY <1>3
<1>9. Len(u) = n /\ Len(v) = n
  BY <1>6, <1>7, <1>8, Zenon
<1>10. \A j \in 1 .. n : u[j] = v[j]
  BY <1>1, <1>2, <1>6, <1>7, <1>8
<1>11. u = v
  BY <1>9, <1>10, SameItems, Zenon
<1>12. SubSeq(x, 1, n) = SubSeq(y, 1, n)
  BY <1>3, <1>6, <1>7, <1>11, Zenon
<1>13. Len(x) <= Len(y) /\ SubSeq(x, 1, Len(x)) = SubSeq(y, 1, Len(x))
  BY <1>1, <1>2, <1>12, Zenon
<1> QED
  BY <1>1, <1>2, <1>13, Zenon DEF IsPrefix

\* The connection of a stream is dialled with that stream's own address and receives a
\* prefix of that stream's own data, unless a waiting SYN has eaten a frame of another
\* stream.  The frames of the first stream of cloud.js, which is never dialled, do not
\* count as another's (Origin): the premise holds while later streams are dialled.
THEOREM StreamsAreApart ==
  (\E p \in {"cloud", "deno"} : MuxInit(p)) /\ [][MuxNext]_muxVars => []StreamsStayApart
<1>1. (\E p \in {"cloud", "deno"} : MuxInit(p)) => MuxIInv
  BY MuxInitIInv
<1>2. MuxIInv /\ [MuxNext]_muxVars => MuxIInv'
  BY MuxNextIInv
<1>3. MuxIInv => StreamsStayApart
  <2> SUFFICES ASSUME MuxIInv, ~swallowed, NEW s \in Streams, target[s] # None
               PROVE  target[s] = s /\ IsPrefix(got[s], Written(s))
    BY DEF StreamsStayApart
  <2>1. Apart(s) /\ MuxTypes
    BY DEF MuxIInv, MuxCtl
  <2>2. target[s] = s
    BY <2>1 DEF Apart
  <2>3. PICK n \in Nat : n = Len(got[s])
    BY <2>1, GotLen
  <2>4. got[s] = DataRun(s, n) /\ (n # 0 => n <= sent[s]) /\ sent[s] \in Int /\ sent[s] >= -1
    BY <2>1, <2>3 DEF Apart, MuxTypes
  <2>5. IsPrefix(DataRun(s, n), Written(s))
    <3>1. PICK m \in Nat : n <= m /\ 1 .. m = 1 .. sent[s]
      <4>1. CASE sent[s] = -1
        <5>1. n <= 0 /\ 0 \in Nat /\ 1 .. 0 = 1 .. sent[s]
          BY <2>4, <4>1
        <5> QED
          BY <5>1
      <4>2. CASE sent[s] # -1
        <5>1. n <= sent[s] /\ sent[s] \in Nat
          BY <2>4, <4>2
        <5> QED
          BY <5>1
      <4> QED
        BY <4>1, <4>2
    <3>2. Written(s) = DataRun(s, m)
      BY <3>1, Zenon DEF Written, DataRun, Item
    <3> QED
      BY <3>1, <3>2, RunPrefix, Zenon
  <2> QED
    BY <2>2, <2>4, <2>5
<1> QED
  BY <1>1, <1>2, <1>3, PTL
=============================================================================
