----------------------------- MODULE LinkProofs -----------------------------
(* Proofs about what carries connections, each part for any number of      *)
(* clients, sessions, streams and bytes: the listeners (a connection has   *)
(* one owner), the relay (a link is closed after its last write), the      *)
(* streams of a mux session (only payloads leave it, in order), the pool   *)
(* of mux sessions (how far the limit on a session's streams is overshot). *)
EXTENDS Listeners, Relay, MuxPool, MuxStream, FiniteSetTheorems, TLAPS

-----------------------------------------------------------------------------
(* The listeners.                                                          *)

\* The places of a goroutine that serves a connection.
Places == {"none", "peek", "socks", "request", "established", "send", "handed", "drain", "dial",
           "do", "respond", "upgrade", "end", "done"}

\* What the proof needs of the types.
ListenersTypeOK ==
  /\ place \in [Clients -> Places]
  /\ open \in [Clients -> BOOLEAN]
  /\ queue \in Seq(Clients \X Ways)
  /\ job \in [Clients -> [Ways -> {"none", "dial", "relay", "over"}]]

\* A connection is handed over once.
HandedOverOnce ==
  \A i, j \in 1..Len(queue) : queue[i][2] = "conn" /\ queue[i] = queue[j] => i = j

\* The dispatcher's side of OneOwner: who is in the queue or has a job.
Handed(c) ==
  /\ Queued(c, "conn") => open[c] /\ place[c] = "handed" /\ job[c]["conn"] = "none"
  /\ job[c]["conn"] # "none" => place[c] = "handed"
  /\ job[c]["conn"] \in {"dial", "relay"} => open[c]
  /\ open[c] /\ place[c] = "handed" => Busy(c, "conn")

\* A goroutine that still serves its connection has not closed it.
ServedIsOpen == \A c \in Clients : place[c] \notin {"none", "handed", "done"} => open[c]

\* The inductive invariant.
ListenersIInv ==
  ListenersTypeOK /\ HandedOverOnce /\ ServedIsOpen /\ \A c \in Clients : Handed(c)

\* To be queued is to have a place in the queue; Queued is kept closed below.
LEMMA QueuedIff ==
  ASSUME NEW c, NEW w
  PROVE  Queued(c, w) <=> \E i \in 1..Len(queue) : queue[i] = <<c, w>>
  BY DEF Queued

\* The same in the next state.
LEMMA QueuedIffPrime ==
  ASSUME NEW c, NEW w
  PROVE  Queued(c, w)' <=> \E i \in 1..Len(queue') : queue'[i] = <<c, w>>
  BY DEF Queued

\* What is sent to the channel is queued besides what was.
LEMMA QueuedAppend ==
  ASSUME NEW c \in Clients, NEW w \in Ways, NEW d \in Clients, NEW v \in Ways,
         queue \in Seq(Clients \X Ways), queue' = Append(queue, <<d, v>>)
  PROVE  Queued(c, w)' <=> Queued(c, w) \/ <<c, w>> = <<d, v>>
<1>1. Len(queue') = Len(queue) + 1 /\ Len(queue) \in Nat
  OBVIOUS
<1>2. \A i \in 1..Len(queue) : queue'[i] = queue[i]
  OBVIOUS
<1>3. queue'[Len(queue) + 1] = <<d, v>>
  OBVIOUS
<1>4. ASSUME Queued(c, w)' PROVE Queued(c, w) \/ <<c, w>> = <<d, v>>
  <2>1. PICK i \in 1..Len(queue') : queue'[i] = <<c, w>>
    BY <1>4, QueuedIffPrime
  <2>2. i = Len(queue) + 1 \/ i \in 1..Len(queue)
    BY <1>1, <2>1
  <2> QED
    BY <1>2, <1>3, <2>1, <2>2, QueuedIff
<1>5. ASSUME Queued(c, w) PROVE Queued(c, w)'
  <2>1. PICK i \in 1..Len(queue) : queue[i] = <<c, w>>
    BY <1>5, QueuedIff
  <2>2. i \in 1..Len(queue') /\ queue'[i] = <<c, w>>
    BY <1>1, <1>2, <2>1
  <2> QED
    BY <2>2, QueuedIffPrime
<1>6. ASSUME <<c, w>> = <<d, v>> PROVE Queued(c, w)'
  <2>1. Len(queue) + 1 \in 1..Len(queue')
    BY <1>1
  <2> QED
    BY <1>3, <1>6, <2>1, QueuedIffPrime
<1> QED
  BY <1>4, <1>5, <1>6

\* Dispatch takes the head, which is in the queue once if it is a connection.
LEMMA QueuedTail ==
  ASSUME NEW c \in Clients, NEW w \in Ways, queue \in Seq(Clients \X Ways), queue # <<>>,
         queue' = Tail(queue), HandedOverOnce
  PROVE  /\ Queued(c, w)' => Queued(c, w)
         /\ Queued(c, w) => Queued(c, w)' \/ Head(queue) = <<c, w>>
         /\ w = "conn" /\ Head(queue) = <<c, w>> => ~Queued(c, w)'
         /\ Head(queue) = <<c, w>> => Queued(c, w)
<1>1. Len(queue') = Len(queue) - 1 /\ Len(queue) \in Nat \ {0}
  OBVIOUS
<1>2. \A i \in 1..Len(queue') : queue'[i] = queue[i + 1]
  OBVIOUS
<1>3. Head(queue) = queue[1]
  OBVIOUS
<1>4. Queued(c, w)' => Queued(c, w)
  BY <1>1, <1>2, QueuedIff, QueuedIffPrime
<1>5. ASSUME Queued(c, w) PROVE Queued(c, w)' \/ Head(queue) = <<c, w>>
  <2>1. PICK i \in 1..Len(queue) : queue[i] = <<c, w>>
    BY <1>5, QueuedIff
  <2>2. i # 1 => i - 1 \in 1..Len(queue') /\ queue'[i - 1] = <<c, w>>
    BY <1>1, <1>2, <2>1
  <2> QED
    BY <1>3, <2>1, <2>2, QueuedIffPrime
<1>6. ASSUME w = "conn", Head(queue) = <<c, w>>, Queued(c, w)' PROVE FALSE
  <2>1. PICK i \in 1..Len(queue') : queue'[i] = <<c, w>>
    BY <1>6, QueuedIffPrime
  <2>2. queue[i + 1] = queue[1] /\ queue[1][2] = "conn" /\ i + 1 \in 1..Len(queue) /\ 1 \in 1..Len(queue)
    BY <1>1, <1>2, <1>3, <1>6, <2>1
  <2>3. i + 1 = 1
    BY <2>2 DEF HandedOverOnce
  <2> QED
    BY <2>3, <1>1
<1>7. Head(queue) = <<c, w>> => Queued(c, w)
  BY <1>1, <1>3, QueuedIff
<1> QED
  BY <1>4, <1>5, <1>6, <1>7

-----------------------------------------------------------------------------
\* The steps of a goroutine that serves its connection and does not hand it over:
\* it has not handed it over before, and leaves it open or is done.
LEMMA ServingStep ==
  ASSUME ListenersIInv, NEW c \in Clients, NEW p \in Places \ {"handed"}, place[c] # "handed",
         place' = [place EXCEPT ![c] = p], UNCHANGED <<queue, job>>,
         open' \in [Clients -> BOOLEAN], \A d \in Clients \ {c} : open'[d] = open[d],
         open'[c] \/ p \in {"none", "done"}
  PROVE  ListenersIInv'
<1> USE DEF ListenersIInv, ListenersTypeOK
<1>1. ListenersTypeOK' /\ HandedOverOnce' /\ ServedIsOpen'
  BY DEF HandedOverOnce, ServedIsOpen
<1>2. ASSUME NEW d \in Clients PROVE Handed(d)'
  <2>1. Queued(d, "conn")' <=> Queued(d, "conn")
    BY DEF Queued
  <2> QED
    BY <1>1, <2>1 DEF Handed, Busy
<1> QED
  BY <1>1, <1>2

\* The other steps that leave the queue, the jobs and the goroutines alone.
LEMMA IdleStep ==
  ASSUME ListenersIInv, UNCHANGED <<place, open, queue, job>>
  PROVE  ListenersIInv'
  BY DEF ListenersIInv, ListenersTypeOK, HandedOverOnce, ServedIsOpen, Handed, Busy, Queued

\* A pipe is put into the queue: the connections in it are the same.
LEMMA SendPipeStep ==
  ASSUME ListenersIInv, NEW c \in Clients, SendPipe(c)
  PROVE  ListenersIInv'
<1> USE DEF ListenersIInv, ListenersTypeOK
<1>1. /\ queue' = Append(queue, <<c, "pipe">>) /\ queue' \in Seq(Clients \X Ways)
      /\ open' = open /\ place[c] = "dial" /\ place' = [place EXCEPT ![c] = "do"]
  BY DEF SendPipe, Goes, Ways
<1>2. job' \in [Clients -> [Ways -> {"none", "dial", "relay", "over"}]]
      /\ \A d \in Clients : job'[d]["conn"] = job[d]["conn"]
  BY DEF SendPipe, Ways
<1>3. ListenersTypeOK' /\ ServedIsOpen'
  BY <1>1, <1>2 DEF ServedIsOpen, Places
<1>4. HandedOverOnce'
  <2>1. \A i \in 1..Len(queue') : \/ i \in 1..Len(queue) /\ queue'[i] = queue[i]
                                  \/ i = Len(queue) + 1 /\ queue'[i] = <<c, "pipe">>
    <3>1. Len(queue') = Len(queue) + 1 /\ Len(queue) \in Nat
      BY <1>1
    <3>2. \A i \in 1..Len(queue) : queue'[i] = queue[i]
      BY <1>1
    <3>3. queue'[Len(queue) + 1] = <<c, "pipe">>
      BY <1>1
    <3> QED
      BY <3>1, <3>2, <3>3
  <2> QED
    BY <2>1 DEF HandedOverOnce
<1>5. ASSUME NEW d \in Clients PROVE Handed(d)'
  <2>1. Queued(d, "conn")' <=> Queued(d, "conn")
    BY <1>1, QueuedAppend DEF Ways
  <2> QED
    BY <1>1, <1>2, <2>1 DEF Handed, Busy, Places
<1> QED
  BY <1>3, <1>4, <1>5

\* A connection is put into the queue by the goroutine that has served it.
LEMMA SendConnStep ==
  ASSUME ListenersIInv, NEW c \in Clients, SendConn(c)
  PROVE  ListenersIInv'
<1> USE DEF ListenersIInv, ListenersTypeOK
<1>1. /\ queue' = Append(queue, <<c, "conn">>) /\ queue' \in Seq(Clients \X Ways)
      /\ open' = open /\ job' = job /\ place[c] = "send" /\ place' = [place EXCEPT ![c] = "handed"]
  BY DEF SendConn, Goes, Ways
<1>2. ~Queued(c, "conn") /\ job[c]["conn"] = "none" /\ open[c]
  BY <1>1 DEF Handed, ServedIsOpen
<1>3. ListenersTypeOK' /\ ServedIsOpen'
  BY <1>1 DEF ServedIsOpen, Places
<1>4. HandedOverOnce'
  <2>1. \A i \in 1..Len(queue') : \/ i \in 1..Len(queue) /\ queue'[i] = queue[i]
                                  \/ i = Len(queue) + 1 /\ queue'[i] = <<c, "conn">>
    <3>1. Len(queue') = Len(queue) + 1 /\ Len(queue) \in Nat
      BY <1>1
    <3>2. \A i \in 1..Len(queue) : queue'[i] = queue[i]
      BY <1>1
    <3>3. queue'[Len(queue) + 1] = <<c, "conn">>
      BY <1>1
    <3> QED
      BY <3>1, <3>2, <3>3
  <2>2. \A i \in 1..Len(queue) : queue[i] # <<c, "conn">>
    BY <1>2, QueuedIff
  <2> QED
    BY <2>1, <2>2 DEF HandedOverOnce
<1>5. ASSUME NEW d \in Clients PROVE Handed(d)'
  <2>1. Queued(d, "conn")' <=> Queued(d, "conn") \/ d = c
    BY <1>1, QueuedAppend DEF Ways
  <2> QED
    BY <1>1, <1>2, <2>1 DEF Handed, Busy, Places
<1> QED
  BY <1>3, <1>4, <1>5

\* The dispatcher takes the head of the queue and starts its job.
LEMMA DispatchStep ==
  ASSUME ListenersIInv, Dispatch
  PROVE  ListenersIInv'
<1> USE DEF ListenersIInv, ListenersTypeOK
<1>1. queue # <<>> /\ queue' = Tail(queue) /\ open' = open /\ place' = place
  BY DEF Dispatch
<1>2. PICK e \in Clients, v \in Ways : Head(queue) = <<e, v>>
  BY <1>1
<1>3. job' = [job EXCEPT ![e][v] = "dial"]
  <2>1. Head(queue)[1] = e /\ Head(queue)[2] = v
    BY <1>2
  <2> QED
    BY <2>1, Zenon DEF Dispatch, SetJob
<1>4. ListenersTypeOK' /\ ServedIsOpen'
  BY <1>1, <1>3 DEF ServedIsOpen, Ways
<1>5. HandedOverOnce'
  <2>1. Len(queue') = Len(queue) - 1 /\ \A i \in 1..Len(queue') : queue'[i] = queue[i + 1]
    BY <1>1
  <2>2. ASSUME NEW i \in 1..Len(queue'), NEW j \in 1..Len(queue'),
               queue'[i][2] = "conn", queue'[i] = queue'[j]
        PROVE  i = j
    <3>1. i + 1 \in 1..Len(queue) /\ j + 1 \in 1..Len(queue)
      BY <2>1
    <3>2. i + 1 = j + 1
      BY <2>1, <2>2, <3>1 DEF HandedOverOnce
    <3> QED
      BY <3>2
  <2> QED
    BY <2>2 DEF HandedOverOnce
<1>6. ASSUME NEW d \in Clients PROVE Handed(d)'
  <2>1. d # e \/ v # "conn" => /\ Queued(d, "conn")' <=> Queued(d, "conn")
                              /\ job'[d]["conn"] = job[d]["conn"]
    BY <1>1, <1>2, <1>3, QueuedTail DEF Ways
  <2>2. d = e /\ v = "conn" => ~Queued(d, "conn")' /\ Queued(d, "conn") /\ job'[d]["conn"] = "dial"
    BY <1>1, <1>2, <1>3, QueuedTail DEF Ways
  <2> QED
    BY <1>1, <2>1, <2>2 DEF Handed, Busy
<1> QED
  BY <1>4, <1>5, <1>6

\* A job dials, or ends and closes what it was for.
LEMMA JobStep ==
  ASSUME ListenersIInv, NEW c \in Clients, NEW w \in Ways, job[c][w] \in {"dial", "relay"},
         \/ Dials(c, w) \/ JobCloses(c, w)
  PROVE  ListenersIInv'
<1> USE DEF ListenersIInv, ListenersTypeOK
<1>1. queue' = queue /\ place' = place
  BY DEF Dials, JobCloses
<1>2. /\ job' \in [Clients -> [Ways -> {"none", "dial", "relay", "over"}]]
      /\ open' \in [Clients -> BOOLEAN]
  <2>1. job' = [job EXCEPT ![c][w] = "relay"] \/ job' = [job EXCEPT ![c][w] = "over"]
    BY Zenon DEF Dials, JobCloses, SetJob
  <2>2. open' = open \/ open' = [open EXCEPT ![c] = FALSE]
    BY Zenon DEF Dials, JobCloses
  <2>3. open' \in [Clients -> BOOLEAN]
    BY <2>2
  <2>4. \A s \in {"relay", "over"} :
           [job EXCEPT ![c][w] = s] \in [Clients -> [Ways -> {"none", "dial", "relay", "over"}]]
    OBVIOUS
  <2> QED
    BY <2>1, <2>3, <2>4
<1>3. \A d \in Clients : d # c \/ w # "conn" => job'[d]["conn"] = job[d]["conn"] /\ open'[d] = open[d]
  BY DEF Dials, JobCloses, SetJob, Ways
<1>4. w = "conn" => \/ job'[c]["conn"] = "relay" /\ open'[c] = open[c]
                    \/ job'[c]["conn"] = "over" /\ ~open'[c]
  BY DEF Dials, JobCloses, SetJob, Ways
<1>5. w = "conn" => place[c] = "handed"
  BY DEF Handed
<1>6. ListenersTypeOK' /\ HandedOverOnce' /\ ServedIsOpen'
  BY <1>1, <1>2, <1>3, <1>5 DEF HandedOverOnce, ServedIsOpen
<1>7. ASSUME NEW d \in Clients PROVE Handed(d)'
  <2>1. Queued(d, "conn")' <=> Queued(d, "conn")
    BY <1>1 DEF Queued
  <2> QED
    BY <1>1, <1>3, <1>4, <2>1 DEF Handed, Busy
<1> QED
  BY <1>6, <1>7

-----------------------------------------------------------------------------
\* Nothing is accepted, queued or at work.
LEMMA ListenersInitIInv ==
  ASSUME NEW arrivals PROVE ListenersInit(arrivals) => ListenersIInv
<1> SUFFICES ASSUME ListenersInit(arrivals) PROVE ListenersIInv
  OBVIOUS
<1>1. ListenersTypeOK
  BY DEF ListenersInit, ListenersTypeOK, Places
<1>2. HandedOverOnce /\ ServedIsOpen
  BY DEF ListenersInit, HandedOverOnce, ServedIsOpen
<1>3. \A c \in Clients : Handed(c)
  <2> SUFFICES ASSUME NEW c \in Clients PROVE Handed(c)
    OBVIOUS
  <2>1. ~Queued(c, "conn")
    BY QueuedIff DEF ListenersInit
  <2>2. job[c]["conn"] = "none" /\ place[c] = "none"
    BY DEF ListenersInit, Ways
  <2> QED
    BY <2>1, <2>2 DEF Handed
<1> QED
  BY <1>1, <1>2, <1>3 DEF ListenersIInv

\* Every step of a listener, a client, a goroutine and the dispatcher.
LEMMA ListenersNextIInv == ListenersIInv /\ [ListenersNext]_lstVars => ListenersIInv'
<1> SUFFICES ASSUME ListenersIInv, [ListenersNext]_lstVars PROVE ListenersIInv'
  OBVIOUS
<1> USE ServingStep DEF ListenersIInv, ListenersTypeOK, Places, Goes, CloseConn
<1>1. ASSUME NEW c \in Clients, AcceptConn(c) PROVE ListenersIInv'
  BY <1>1 DEF AcceptConn
<1>2. ASSUME NEW c \in Clients, NEW b \in BOOLEAN, Peek(c, b) PROVE ListenersIInv'
  BY <1>2 DEF Peek, ServedIsOpen
<1>3. ASSUME NEW c \in Clients, PeekFails(c) \/ UDPAssociateEnds(c) PROVE ListenersIInv'
  BY <1>3 DEF PeekFails, UDPAssociateEnds
<1>4. ASSUME NEW c \in Clients, NEW o \in {"connect", "udp", "error"}, HandleSocks5(c, o)
      PROVE ListenersIInv'
  BY <1>4 DEF HandleSocks5, ServedIsOpen
<1>5. ASSUME NEW c \in Clients, NEW what \in {"connect", "upgrade", "refused", "plain"},
             NEW k \in BOOLEAN, ReadRequest(c, what, k)
      PROVE ListenersIInv'
  BY <1>5 DEF ReadRequest, ServedIsOpen
<1>6. ASSUME NEW c \in Clients, ReadRequestFails(c) \/ ConnectionEstablished(c) PROVE ListenersIInv'
  BY <1>6 DEF ReadRequestFails, ConnectionEstablished, ServedIsOpen
<1>7. ASSUME NEW c \in Clients, DoReturns(c) PROVE ListenersIInv'
  BY <1>7 DEF DoReturns, ServedIsOpen
<1>8. ASSUME NEW c \in Clients, Respond(c) PROVE ListenersIInv'
  BY <1>8 DEF Respond, ServedIsOpen
<1>9. ASSUME NEW c \in Clients, EndConn(c) PROVE ListenersIInv'
  BY <1>9 DEF EndConn
<1>10. ASSUME NEW c \in Clients, Upgrade(c) PROVE ListenersIInv'
  BY <1>10, IdleStep DEF Upgrade
<1>11. ASSUME NEW c \in Clients, NEW w \in Ways,
              Dials(c, w) \/ JobDialFails(c, w) \/ RemoteEnds(c, w) \/ LocalEnds(c, w)
       PROVE ListenersIInv'
  <2>1. job[c][w] \in {"dial", "relay"} /\ (Dials(c, w) \/ JobCloses(c, w))
    BY <1>11 DEF Dials, JobDialFails, RemoteEnds, LocalEnds
  <2> QED
    BY <2>1, JobStep
<1>12. CASE ListenerClose
  BY <1>12, IdleStep DEF ListenerClose
<1>13. ASSUME NEW c \in Clients, ClientLeavesConn(c) PROVE ListenersIInv'
  BY <1>13, IdleStep DEF ClientLeavesConn
<1>14. CASE UNCHANGED lstVars
  BY <1>14, IdleStep DEF lstVars
<1> HIDE DEF ListenersIInv
<1> QED
  BY <1>1, <1>2, <1>3, <1>4, <1>5, <1>6, <1>7, <1>8, <1>9, <1>10, <1>11, <1>12, <1>13, <1>14,
     SendConnStep, SendPipeStep, DispatchStep DEF ListenersNext, Serves

\* A connection has one owner at any time, whatever its listener, however many
\* connections there are and however small the channel is.
THEOREM ConnectionHasOneOwner ==
  ASSUME NEW arrivals
  PROVE  ListenersInit(arrivals) /\ [][ListenersNext]_lstVars => []OneOwner
<1>1. ListenersIInv => OneOwner
  BY DEF ListenersIInv, Handed, OneOwner, Busy
<1> QED
  BY ListenersInitIInv, ListenersNextIInv, <1>1, PTL

-----------------------------------------------------------------------------
(* The relay.                                                              *)

\* The relay by itself.
RelaySpec == RelayInit /\ [][RelayNext]_bothVars

\* Where a copy is says how much of what it has read it has still to write; one
\* that gave up without writing its buffer did so because the destination was reset.
CopyAccounts ==
  \A c \in Conns :
     /\ copy[c] = "read" => copied[c] = put[c]
     /\ copy[c] = "write" => copied[c] = put[c] + 1
     /\ copy[c] \in {"expire", "join", "over"} => copied[c] = put[c] \/ Other(c) \in broken

\* A peer has not read more than was written to it, a copy not more than was sent.
Flow ==
  \A c \in Conns : copied[c] <= peerSent[c] /\ put[c] <= copied[c] /\ drained[Other(c)] <= put[c]

\* The inductive invariant.
RelayIInv == RelayTypeOK /\ CopyAccounts /\ Flow

USE DEF Conns, Other

\* The relay starts with nothing read and nothing written.
LEMMA RelayInitIInv == RelayInit => RelayIInv
<1> SUFFICES ASSUME RelayInit PROVE RelayIInv
  OBVIOUS
<1>1. bothClosed \in BOOLEAN /\ called \in BOOLEAN
  BY Zenon DEF RelayInit
<1>2. RelayTypeOK
  BY <1>1, RelayAssumption DEF RelayInit, RelayTypeOK
<1>3. CopyAccounts /\ Flow
  BY DEF RelayInit, CopyAccounts, Flow
<1> QED
  BY <1>2, <1>3 DEF RelayIInv

\* Every step of a peer, of a copy and of the caller keeps the accounts.
LEMMA RelayNextIInv == RelayIInv /\ [RelayNext]_bothVars => RelayIInv'
<1> SUFFICES ASSUME RelayIInv, [RelayNext]_bothVars PROVE RelayIInv'
  OBVIOUS
<1> USE RelayAssumption DEF RelayIInv, RelayTypeOK, CopyAccounts, Flow, peerVars
<1>1. ASSUME NEW c \in Conns, PeerSends(c) PROVE RelayIInv'
  BY <1>1 DEF PeerSends
<1>2. ASSUME NEW c \in Conns, PeerEnds(c) \/ PeerBreaks(c) PROVE RelayIInv'
  BY <1>2 DEF PeerEnds, PeerBreaks
<1>3. ASSUME NEW c \in Conns, PeerDrains(c) PROVE RelayIInv'
  BY <1>3 DEF PeerDrains
<1>4. ASSUME NEW c \in Conns, CopyRead(c) PROVE RelayIInv'
  BY <1>4 DEF CopyRead
<1>5. ASSUME NEW c \in Conns, CopyReadEnds(c) PROVE RelayIInv'
  BY <1>5 DEF CopyReadEnds
<1>6. ASSUME NEW c \in Conns, CopyWrite(c) PROVE RelayIInv'
  BY <1>6 DEF CopyWrite, AfterWrite
<1>7. ASSUME NEW c \in Conns, CopyExpires(c) PROVE RelayIInv'
  BY <1>7 DEF CopyExpires, Expired
<1>8. CASE Join
  BY <1>8 DEF Join, BothJoined
<1>9. CASE DeferCall
  BY <1>9 DEF DeferCall
<1>10. CASE UNCHANGED bothVars
  BY <1>10 DEF bothVars
<1> QED
  BY <1>1, <1>2, <1>3, <1>4, <1>5, <1>6, <1>7, <1>8, <1>9, <1>10 DEF RelayNext, CopyStep

\* The types of the relay's state.
THEOREM RelayTypeCorrect == RelaySpec => []RelayTypeOK
<1>1. RelayIInv => RelayTypeOK
  BY DEF RelayIInv
<1> QED
  BY RelayInitIInv, RelayNextIInv, <1>1, PTL DEF RelaySpec

\* Relay closes the two connections when both copies are over, and all that a copy
\* had read it had also written unless its destination was reset, however much the
\* peers send and however little a connection takes.
THEOREM RelayClosesLast == RelaySpec => ClosedAfterTheLastWrite
<1> DEFINE Closing == bothClosed' /\ ~bothClosed =>
             \A c \in Conns : copy'[c] = "over" /\ (copied[c] = put[c] \/ Other(c) \in broken)
<1>1. RelayIInv /\ [RelayNext]_bothVars => [Closing]_bothVars
  <2> SUFFICES ASSUME RelayIInv, RelayNext, bothClosed', ~bothClosed
               PROVE  \A c \in Conns : copy'[c] = "over" /\ (copied[c] = put[c] \/ Other(c) \in broken)
    OBVIOUS
  <2>1. Join
    BY DEF RelayNext, CopyStep, PeerSends, PeerEnds, PeerBreaks, PeerDrains, CopyRead, CopyReadEnds,
           CopyWrite, CopyExpires, DeferCall
  <2> QED
    BY <2>1 DEF Join, BothJoined, RelayIInv, RelayTypeOK, CopyAccounts
<1> QED
  BY RelayInitIInv, RelayNextIInv, <1>1, PTL DEF RelaySpec, ClosedAfterTheLastWrite

HIDE DEF Conns, Other

-----------------------------------------------------------------------------
(* The streams of a mux session.                                           *)

\* The functions among the variables, and what MuxTypeOK leaves open.
MuxFunctions ==
  /\ wrote \in [Streams -> Nat] /\ sent \in [Streams -> Nat]
  /\ up \in [Streams -> Seq(Nat)] /\ down \in [Streams -> Seq(Nat)]
  /\ got \in [Streams -> Seq(Nat)] /\ seen \in [Streams -> Seq(Nat)]
  /\ opened \in 0..StreamBound /\ taken \in 0..StreamBound
  /\ loop \in {"accept", "request", "dial", "over"}
  /\ loop \in {"request", "dial"} => taken # 0
  /\ relaying \subseteq Streams

\* The server has not taken the request off the stream s, nor given up on it.
Unread(s) == s > taken \/ (s = taken /\ loop = "request")

\* q holds from + 1, from + 2, ... and ends with last.
Run(q, from, last) == from + Len(q) = last /\ \A i \in 1..Len(q) : q[i] = from + i

\* q holds the request or the status, then the payloads 1 to last.
Headed(q, last) == Len(q) = last + 1 /\ \A i \in 1..Len(q) : q[i] = i - 1

\* q holds the payloads from the first on, and nothing else.
Counted(q) == \A k \in 1..Len(q) : q[k] = k

\* What is under way to the target: the request and all payloads, or the payloads
\* that the target has not received.
UpStream(s) ==
  /\ s \notin requestWritten => wrote[s] = 0 /\ up[s] = <<>> /\ got[s] = <<>>
  /\ s \in requestWritten /\ Unread(s) => got[s] = <<>> /\ Headed(up[s], wrote[s])
  /\ s \in requestWritten /\ ~Unread(s) => Run(up[s], Len(got[s]), wrote[s])
  /\ Counted(got[s])
  /\ ~Unread(s) /\ s \notin requestWritten => s \in closed \/ muxDead
  /\ s \in relaying => ~Unread(s)

\* What is under way to the client: the status and all payloads, or the payloads
\* that the client has not read.
DownStream(s) ==
  /\ s \notin responseWritten => sent[s] = 0 /\ down[s] = <<>> /\ seen[s] = <<>> /\ s \notin responseRead
  /\ s \in responseWritten /\ s \notin responseRead => seen[s] = <<>> /\ Headed(down[s], sent[s])
  /\ s \in responseWritten /\ s \in responseRead => Run(down[s], Len(seen[s]), sent[s])
  /\ Counted(seen[s])

\* The inductive invariant.
MuxIInv == MuxFunctions /\ \A s \in Streams : UpStream(s) /\ DownStream(s)

USE DEF Streams

-----------------------------------------------------------------------------
(* Lemmas about queues of consecutive numbers.                             *)

\* Payloads says that the k-th item is k.
LEMMA PayloadsAre ==
  ASSUME NEW q \in Seq(Nat), NEW n \in Nat, Len(q) <= n, Counted(q)
  PROVE  Payloads(q, n)
<1> DEFINE t == [k \in 1..n |-> k]
<1>1. t \in Seq(Nat) /\ Len(t) = n
  OBVIOUS
<1>2. SubSeq(q, 1, Len(q)) = [k \in 1..Len(q) |-> q[k]]
  OBVIOUS
<1>3. SubSeq(t, 1, Len(q)) = [k \in 1..Len(q) |-> k]
  OBVIOUS
<1> QED
  BY <1>1, <1>2, <1>3 DEF Payloads, IsPrefix, Counted

\* The head of a run is the next number, and its tail the run after that.
LEMMA RunTail ==
  ASSUME NEW q \in Seq(Nat), q # <<>>, NEW from \in Nat, NEW last \in Nat, Run(q, from, last)
  PROVE  /\ Head(q) = from + 1 /\ Tail(q) \in Seq(Nat)
         /\ Run(Tail(q), from + 1, last)
<1>1. Len(q) \in Nat \ {0} /\ Tail(q) \in Seq(Nat) /\ Len(Tail(q)) = Len(q) - 1 /\ Head(q) = q[1]
  OBVIOUS
<1>2. \A i \in 1..Len(Tail(q)) : Tail(q)[i] = q[i + 1]
  OBVIOUS
<1>3. \A i \in 1..Len(Tail(q)) : i + 1 \in 1..Len(q)
  BY <1>1
<1> QED
  BY <1>1, <1>2, <1>3 DEF Run

\* What was received is no more than what was sent.
LEMMA RunBound ==
  ASSUME NEW q \in Seq(Nat), NEW r \in Seq(Nat), NEW n \in Nat, r = <<>> \/ Run(q, Len(r), n)
  PROVE  Len(r) <= n
<1>1. CASE r = <<>>
  BY <1>1
<1>2. CASE Run(q, Len(r), n)
  <2>1. Len(r) + Len(q) = n /\ Len(q) \in Nat /\ Len(r) \in Nat
    BY <1>2 DEF Run
  <2> QED
    BY <2>1
<1> QED
  BY <1>1, <1>2

\* A run goes on with the next number.
LEMMA RunAppend ==
  ASSUME NEW q \in Seq(Nat), NEW from \in Nat, NEW last \in Nat, Run(q, from, last)
  PROVE  q \o <<last + 1>> \in Seq(Nat) /\ Run(q \o <<last + 1>>, from, last + 1)
<1>1. q \o <<last + 1>> \in Seq(Nat) /\ Len(q \o <<last + 1>>) = Len(q) + 1 /\ Len(q) \in Nat
  OBVIOUS
<1>2. \A i \in 1..Len(q) : (q \o <<last + 1>>)[i] = q[i]
  OBVIOUS
<1>3. (q \o <<last + 1>>)[Len(q) + 1] = last + 1
  OBVIOUS
<1> QED
  BY <1>1, <1>2, <1>3 DEF Run

\* The same of a queue whose first item is a request or a status.
LEMMA HeadedTail ==
  ASSUME NEW q \in Seq(Nat), NEW last \in Nat, Headed(q, last)
  PROVE  Tail(q) \in Seq(Nat) /\ Run(Tail(q), 0, last)
<1>0. q # <<>>
  BY DEF Headed
<1>1. Tail(q) \in Seq(Nat) /\ Len(Tail(q)) = Len(q) - 1
  BY <1>0
<1>2. \A i \in 1..Len(Tail(q)) : Tail(q)[i] = q[i + 1] /\ i + 1 \in 1..Len(q)
  BY <1>0, <1>1
<1> QED
  BY <1>1, <1>2 DEF Run, Headed

\* A frame appended to a stream that begins with its request.
LEMMA HeadedAppend ==
  ASSUME NEW q \in Seq(Nat), NEW last \in Nat, Headed(q, last)
  PROVE  q \o <<last + 1>> \in Seq(Nat) /\ Headed(q \o <<last + 1>>, last + 1)
<1>1. q \o <<last + 1>> \in Seq(Nat) /\ Len(q \o <<last + 1>>) = Len(q) + 1
  OBVIOUS
<1>2. \A i \in 1..Len(q) : (q \o <<last + 1>>)[i] = q[i]
  OBVIOUS
<1>3. (q \o <<last + 1>>)[Len(q) + 1] = last + 1
  OBVIOUS
<1> QED
  BY <1>1, <1>2, <1>3 DEF Headed

\* Appending the next number to the numbers received so far.
LEMMA ReceivedAppend ==
  ASSUME NEW q \in Seq(Nat), Counted(q), NEW n, n = Len(q) + 1
  PROVE  /\ Append(q, n) \in Seq(Nat) /\ Len(Append(q, n)) = Len(q) + 1
         /\ Counted(Append(q, n))
<1>1. Append(q, n) \in Seq(Nat) /\ Len(Append(q, n)) = Len(q) + 1 /\ Len(q) \in Nat
  OBVIOUS
<1>2. \A i \in 1..Len(q) : Append(q, n)[i] = q[i]
  OBVIOUS
<1>3. Append(q, n)[Len(q) + 1] = n
  OBVIOUS
<1> QED
  BY <1>1, <1>2, <1>3 DEF Counted

-----------------------------------------------------------------------------
\* A step that leaves a direction of a stream alone keeps it.
LEMMA UpFrame ==
  ASSUME NEW s \in Streams, UpStream(s),
         up'[s] = up[s], got'[s] = got[s], wrote'[s] = wrote[s],
         s \in requestWritten' <=> s \in requestWritten, Unread(s)' <=> Unread(s),
         s \in closed => s \in closed', muxDead => muxDead', s \in relaying' => s \in relaying
  PROVE  UpStream(s)'
  BY DEF UpStream, Run

\* A stream whose downward part no step touches keeps its invariant.
LEMMA DownFrame ==
  ASSUME NEW s \in Streams, DownStream(s),
         down'[s] = down[s], seen'[s] = seen[s], sent'[s] = sent[s],
         s \in responseWritten' <=> s \in responseWritten, s \in responseRead' <=> s \in responseRead
  PROVE  DownStream(s)'
  BY DEF DownStream, Run

\* clientConn.Write: the request goes first, once.
LEMMA ClientWriteStep ==
  ASSUME MuxIInv, NEW s \in Streams, ClientWrite(s)
  PROVE  MuxIInv'
<1> USE StreamAssumption DEF MuxIInv, MuxFunctions
<1>1. /\ wrote[s] \in Nat /\ wrote' = [wrote EXCEPT ![s] = wrote[s] + 1]
      /\ up' = [up EXCEPT ![s] = up[s] \o WithRequest(s, wrote[s] + 1)]
      /\ requestWritten' = requestWritten \cup {s} /\ ~muxDead /\ s \notin closed
      /\ UNCHANGED <<opened, responseRead, closed, seen, loop, taken, relaying, relayed,
                     responseWritten, sent, got, left, down, muxDead>>
  BY DEF ClientWrite, loopVars, relayVars
<1>2. UpStream(s)' /\ up'[s] \in Seq(Nat)
  <2>1. CASE s \notin requestWritten
    <3>1. Unread(s) /\ s \notin relaying /\ wrote[s] = 0 /\ up[s] = <<>> /\ got[s] = <<>>
      BY <1>1, <2>1 DEF UpStream
    <3>2. up'[s] = <<0, 1>> /\ wrote'[s] = 1 /\ s \in requestWritten' /\ got'[s] = <<>> /\ Unread(s)'
      BY <1>1, <2>1, <3>1 DEF WithRequest, Unread
    <3>3. up'[s] \in Seq(Nat) /\ Headed(up'[s], 1) /\ Counted(got'[s])
      BY <3>2 DEF Headed, Counted
    <3> HIDE DEF MuxIInv, MuxFunctions
    <3> QED
      BY <1>1, <3>1, <3>2, <3>3 DEF UpStream
  <2>2. CASE s \in requestWritten /\ Unread(s)
    <3>1. up'[s] = up[s] \o <<wrote[s] + 1>>
      BY <1>1, <2>2 DEF WithRequest
    <3>2. Headed(up[s], wrote[s])
      BY <2>2 DEF UpStream
    <3>3. up'[s] \in Seq(Nat) /\ Headed(up'[s], wrote[s] + 1)
      BY <1>1, <3>1, <3>2, HeadedAppend
    <3>4. wrote'[s] = wrote[s] + 1 /\ s \in requestWritten' /\ got'[s] = got[s] /\ Unread(s)' /\ got[s] = <<>>
          /\ s \notin relaying' /\ Counted(got[s])
      BY <1>1, <2>2 DEF UpStream, Unread
    <3> HIDE DEF MuxIInv, MuxFunctions
    <3> QED
      BY <1>1, <3>3, <3>4 DEF UpStream
  <2>3. CASE s \in requestWritten /\ ~Unread(s)
    <3>1. up'[s] = up[s] \o <<wrote[s] + 1>>
      BY <1>1, <2>3 DEF WithRequest
    <3>2. Run(up[s], Len(got[s]), wrote[s]) /\ Len(got[s]) \in Nat
      BY <2>3 DEF UpStream
    <3>3. up'[s] \in Seq(Nat) /\ Run(up'[s], Len(got[s]), wrote[s] + 1)
      BY <1>1, <3>1, <3>2, RunAppend
    <3> QED
      BY <1>1, <2>3, <3>3 DEF UpStream, Unread
  <2> QED
    BY <2>1, <2>2, <2>3
<1>3. \A t \in Streams \ {s} : UpStream(t)'
  BY <1>1, UpFrame DEF Unread
<1>4. \A t \in Streams : DownStream(t)'
  BY <1>1, DownFrame
<1>5. MuxFunctions'
  <2>1. up' \in [Streams -> Seq(Nat)] /\ down' \in [Streams -> Seq(Nat)]
    BY <1>1, <1>2
  <2>2. wrote' \in [Streams -> Nat]
    <3>1. wrote[s] \in Nat /\ wrote \in [Streams -> Nat]
      BY <1>1, Zenon
    <3> HIDE DEF MuxIInv, MuxFunctions
    <3>2. wrote[s] + 1 \in Nat
      BY <3>1
    <3> QED
      BY <1>1, <3>1, <3>2, Zenon
  <2>3. sent' \in [Streams -> Nat]
    BY <1>1, Zenon
  <2> QED
    BY <1>1, <2>1, <2>2, <2>3
<1> QED
  BY <1>2, <1>3, <1>4, <1>5

\* serverConn.Write: the status goes first, once.
LEMMA RelayDownStep ==
  ASSUME MuxIInv, NEW s \in Streams, RelayDown(s)
  PROVE  MuxIInv'
<1> USE StreamAssumption DEF MuxIInv, MuxFunctions
<1>1. /\ sent[s] \in Nat /\ sent' = [sent EXCEPT ![s] = sent[s] + 1]
      /\ down' = [down EXCEPT ![s] = down[s] \o WithStatus(s, sent[s] + 1)]
      /\ responseWritten' = responseWritten \cup {s}
      /\ UNCHANGED <<opened, wrote, requestWritten, responseRead, closed, seen, loop, taken,
                     relaying, relayed, got, left, up, muxDead>>
  BY DEF RelayDown, clientVars, loopVars
<1>2. DownStream(s)' /\ down'[s] \in Seq(Nat)
  <2>1. CASE s \notin responseWritten
    <3>1. s \notin responseRead /\ sent[s] = 0 /\ down[s] = <<>> /\ seen[s] = <<>>
      BY <1>1, <2>1 DEF DownStream
    <3>2. down'[s] = <<0, 1>> /\ sent'[s] = 1 /\ s \in responseWritten' /\ seen'[s] = <<>> /\ s \notin responseRead'
      BY <1>1, <2>1, <3>1 DEF WithStatus
    <3>3. down'[s] \in Seq(Nat) /\ Headed(down'[s], 1) /\ Counted(seen'[s])
      BY <3>2 DEF Headed, Counted
    <3> HIDE DEF MuxIInv, MuxFunctions
    <3> QED
      BY <1>1, <3>1, <3>2, <3>3 DEF DownStream
  <2>2. CASE s \in responseWritten /\ s \notin responseRead
    <3>1. down'[s] = down[s] \o <<sent[s] + 1>>
      BY <1>1, <2>2 DEF WithStatus
    <3>2. Headed(down[s], sent[s])
      BY <2>2 DEF DownStream
    <3>3. down'[s] \in Seq(Nat) /\ Headed(down'[s], sent[s] + 1)
      BY <1>1, <3>1, <3>2, HeadedAppend
    <3>4. sent'[s] = sent[s] + 1 /\ s \in responseWritten' /\ seen'[s] = seen[s] /\ s \notin responseRead' /\ seen[s] = <<>>
          /\ Counted(seen[s])
      BY <1>1, <2>2 DEF DownStream
    <3> HIDE DEF MuxIInv, MuxFunctions
    <3> QED
      BY <1>1, <3>3, <3>4 DEF DownStream
  <2>3. CASE s \in responseWritten /\ s \in responseRead
    <3>1. down'[s] = down[s] \o <<sent[s] + 1>>
      BY <1>1, <2>3 DEF WithStatus
    <3>2. Run(down[s], Len(seen[s]), sent[s]) /\ Len(seen[s]) \in Nat
      BY <2>3 DEF DownStream
    <3>3. down'[s] \in Seq(Nat) /\ Run(down'[s], Len(seen[s]), sent[s] + 1)
      BY <1>1, <3>1, <3>2, RunAppend
    <3> QED
      BY <1>1, <2>3, <3>3 DEF DownStream
  <2> QED
    BY <2>1, <2>2, <2>3
<1>3. \A t \in Streams \ {s} : DownStream(t)'
  BY <1>1, DownFrame
<1>4. \A t \in Streams : UpStream(t)'
  BY <1>1, UpFrame DEF Unread
<1>5. MuxFunctions'
  <2>1. up' \in [Streams -> Seq(Nat)] /\ down' \in [Streams -> Seq(Nat)]
    BY <1>1, <1>2
  <2>2. sent' \in [Streams -> Nat]
    <3>1. sent[s] \in Nat /\ sent \in [Streams -> Nat]
      BY <1>1, Zenon
    <3> HIDE DEF MuxIInv, MuxFunctions
    <3>2. sent[s] + 1 \in Nat
      BY <3>1
    <3> QED
      BY <1>1, <3>1, <3>2, Zenon
  <2>3. wrote' \in [Streams -> Nat]
    BY <1>1
  <2> QED
    BY <1>1, <2>1, <2>2, <2>3
<1> QED
  BY <1>2, <1>3, <1>4, <1>5

\* clientConn.Read: the status is taken off, then payloads are returned.
LEMMA ClientReadStep ==
  ASSUME MuxIInv, NEW s \in Streams, ReadResponse(s) \/ ClientRead(s)
  PROVE  MuxIInv'
<1> USE StreamAssumption DEF MuxIInv, MuxFunctions
<1>1. /\ down[s] # <<>> /\ down' = [down EXCEPT ![s] = Tail(down[s])]
      /\ UNCHANGED <<opened, wrote, requestWritten, closed, loop, taken, relaying, relayed,
                     responseWritten, sent, got, left, up, muxDead>>
  BY DEF ReadResponse, ClientRead, loopVars, relayVars
<1>2. s \in responseWritten /\ down[s] \in Seq(Nat) /\ seen[s] \in Seq(Nat) /\ sent[s] \in Nat
      /\ Len(seen[s]) \in Nat
  BY <1>1 DEF DownStream
<1>3. DownStream(s)' /\ down'[s] \in Seq(Nat) /\ seen' \in [Streams -> Seq(Nat)]
  <2>1. CASE ReadResponse(s)
    <3>1. seen' = seen /\ responseRead' = responseRead \cup {s} /\ s \notin responseRead
      BY <2>1 DEF ReadResponse
    <3>2. seen[s] = <<>> /\ Headed(down[s], sent[s])
      BY <1>2, <3>1 DEF DownStream
    <3>3. down'[s] \in Seq(Nat) /\ Run(down'[s], 0, sent[s])
      BY <1>1, <1>2, <3>2, HeadedTail
    <3> QED
      BY <1>1, <1>2, <3>1, <3>2, <3>3 DEF DownStream
  <2>2. CASE ClientRead(s)
    <3>1. /\ responseRead' = responseRead /\ s \in responseRead
          /\ seen' = [seen EXCEPT ![s] = Append(seen[s], Head(down[s]))]
      BY <2>2 DEF ClientRead
    <3>2. Run(down[s], Len(seen[s]), sent[s]) /\ Counted(seen[s])
      BY <1>2, <3>1 DEF DownStream
    <3>3. /\ Head(down[s]) = Len(seen[s]) + 1 /\ down'[s] \in Seq(Nat)
          /\ Run(down'[s], Len(seen[s]) + 1, sent[s])
      BY <1>1, <1>2, <3>2, RunTail
    <3>4. /\ seen'[s] \in Seq(Nat) /\ Len(seen'[s]) = Len(seen[s]) + 1
          /\ Counted(seen'[s])
      BY <1>2, <3>1, <3>2, <3>3, ReceivedAppend
    <3> QED
      BY <1>1, <1>2, <3>1, <3>3, <3>4 DEF DownStream
  <2> QED
    BY <2>1, <2>2
<1>4. \A t \in Streams \ {s} : DownStream(t)'
  BY <1>1, DownFrame DEF ReadResponse, ClientRead
<1>5. \A t \in Streams : UpStream(t)'
  BY <1>1, UpFrame DEF Unread
<1>6. MuxFunctions'
  BY <1>1, <1>3
<1> QED
  BY <1>3, <1>4, <1>5, <1>6

\* ReadStreamRequest takes off the request and nothing else.
LEMMA ReadStreamRequestStep ==
  ASSUME MuxIInv, ReadStreamRequest
  PROVE  MuxIInv'
<1> USE StreamAssumption DEF MuxIInv, MuxFunctions
<1>1. /\ loop = "request" /\ loop' = "dial" /\ taken \in Streams /\ up[taken] # <<>>
      /\ up' = [up EXCEPT ![taken] = Tail(up[taken])]
      /\ UNCHANGED <<opened, wrote, requestWritten, responseRead, closed, seen, taken, relaying,
                     relayed, responseWritten, sent, got, left, down, muxDead>>
  BY DEF ReadStreamRequest, AfterRequest, clientVars, relayVars
<1>2. UpStream(taken)' /\ up'[taken] \in Seq(Nat)
  <2>1. /\ UpStream(taken) /\ Unread(taken) /\ taken \in requestWritten
        /\ up[taken] \in Seq(Nat) /\ wrote[taken] \in Nat
    BY <1>1 DEF UpStream, Unread
  <2>2. got[taken] = <<>> /\ Headed(up[taken], wrote[taken]) /\ Counted(got[taken])
    BY <2>1 DEF UpStream
  <2>3. up'[taken] \in Seq(Nat) /\ Run(up'[taken], 0, wrote[taken])
    BY <1>1, <2>1, <2>2, HeadedTail
  <2>4. ~Unread(taken)' /\ Len(got'[taken]) = 0
    BY <1>1, <2>2 DEF Unread
  <2> HIDE DEF MuxIInv, MuxFunctions
  <2> QED
    BY <1>1, <2>1, <2>2, <2>3, <2>4 DEF UpStream
<1>3. \A t \in Streams \ {taken} : UpStream(t)'
  BY <1>1, UpFrame DEF Unread
<1>4. \A t \in Streams : DownStream(t)'
  BY <1>1, DownFrame
<1>5. MuxFunctions'
  BY <1>1, <1>2
<1> QED
  BY <1>1, <1>2, <1>3, <1>4, <1>5

\* The relay gives the target the next payload.
LEMMA RelayUpStep ==
  ASSUME MuxIInv, NEW s \in Streams, RelayUp(s)
  PROVE  MuxIInv'
<1> USE StreamAssumption DEF MuxIInv, MuxFunctions
<1>1. /\ s \in relaying /\ up[s] # <<>> /\ up' = [up EXCEPT ![s] = Tail(up[s])]
      /\ got' = [got EXCEPT ![s] = Append(got[s], Head(up[s]))]
      /\ UNCHANGED <<opened, wrote, requestWritten, responseRead, closed, seen, loop, taken, relaying,
                     relayed, responseWritten, sent, left, down, muxDead>>
  BY DEF RelayUp, clientVars, loopVars
<1>2. UpStream(s)' /\ up'[s] \in Seq(Nat) /\ got'[s] \in Seq(Nat)
  <2>1. /\ UpStream(s) /\ ~Unread(s) /\ s \in requestWritten
        /\ up[s] \in Seq(Nat) /\ got[s] \in Seq(Nat) /\ wrote[s] \in Nat
    BY <1>1 DEF UpStream
  <2>2. Run(up[s], Len(got[s]), wrote[s]) /\ Counted(got[s]) /\ Len(got[s]) \in Nat
    BY <2>1 DEF UpStream
  <2>3. /\ Head(up[s]) = Len(got[s]) + 1 /\ up'[s] \in Seq(Nat)
        /\ Run(up'[s], Len(got[s]) + 1, wrote[s])
    BY <1>1, <2>1, <2>2, RunTail
  <2>4. got'[s] \in Seq(Nat) /\ Len(got'[s]) = Len(got[s]) + 1 /\ Counted(got'[s])
    BY <1>1, <2>1, <2>2, <2>3, ReceivedAppend
  <2>5. ~Unread(s)'
    BY <1>1, <2>1 DEF Unread
  <2> HIDE DEF MuxIInv, MuxFunctions
  <2> QED
    BY <1>1, <2>1, <2>3, <2>4, <2>5 DEF UpStream
<1>3. \A t \in Streams \ {s} : UpStream(t)'
  BY <1>1, UpFrame DEF Unread
<1>4. \A t \in Streams : DownStream(t)'
  BY <1>1, DownFrame
<1>5. MuxFunctions'
  BY <1>1, <1>2
<1> QED
  BY <1>2, <1>3, <1>4, <1>5

\* The accept loop moves to the next stream, gives up on one that has ended without
\* a request, and starts a relay once the request is read.
LEMMA LoopStepIInv ==
  ASSUME MuxIInv, Accept \/ AcceptFails \/ ReadStreamRequestFails \/ DialFails \/ DialTarget
  PROVE  MuxIInv'
<1> USE StreamAssumption DEF MuxIInv, MuxFunctions
<1>1. UNCHANGED <<opened, wrote, requestWritten, responseRead, closed, seen, relayed,
                  responseWritten, sent, got, left, up, down, muxDead>>
  BY DEF Accept, AcceptFails, ReadStreamRequestFails, DialFails, DialTarget, clientVars, relayVars
<1>2. \A t \in Streams : DownStream(t)'
  BY <1>1, DownFrame
<1>3. CASE Accept
  <2>1. loop = "accept" /\ loop' = "request" /\ taken' = taken + 1 /\ relaying' = relaying /\ taken < opened
    BY <1>3 DEF Accept, relayVars
  <2>2. \A t \in Streams : Unread(t)' <=> Unread(t)
    BY <2>1 DEF Unread
  <2>3. \A t \in Streams : UpStream(t)'
    BY <1>1, <2>1, <2>2, UpFrame
  <2>4. taken + 1 \in 0..StreamBound /\ taken + 1 # 0
    BY <2>1
  <2>5. MuxFunctions'
    BY <1>1, <2>1, <2>4
  <2> QED
    BY <1>2, <2>3, <2>5
<1>4. CASE AcceptFails \/ DialFails
  <2>1. loop \in {"accept", "dial"} /\ loop' \in {"accept", "over"} /\ taken' = taken /\ relaying' = relaying
    BY <1>4 DEF AcceptFails, DialFails, relayVars
  <2>2. \A t \in Streams : UpStream(t)'
    BY <1>1, <2>1, UpFrame DEF Unread
  <2> QED
    BY <1>1, <1>2, <2>1, <2>2
<1>5. CASE ReadStreamRequestFails
  <2>1. /\ loop = "request" /\ loop' = "accept" /\ taken' = taken /\ relaying' = relaying
        /\ up[taken] = <<>> /\ (taken \in closed \/ muxDead) /\ taken \in Streams
    BY <1>5 DEF ReadStreamRequestFails, ReadFails, relayVars
  <2>2. UpStream(taken)'
    <3>1. UpStream(taken) /\ Unread(taken) /\ ~Unread(taken)'
      BY <2>1 DEF Unread
    <3>2. taken \notin requestWritten /\ taken \notin relaying
      BY <2>1, <3>1 DEF UpStream, Headed
    <3> HIDE DEF MuxIInv, MuxFunctions
    <3> QED
      BY <1>1, <2>1, <3>1, <3>2 DEF UpStream
  <2>3. \A t \in Streams \ {taken} : UpStream(t)'
    BY <1>1, <2>1, UpFrame DEF Unread
  <2> QED
    BY <1>1, <1>2, <2>1, <2>2, <2>3
<1>6. CASE DialTarget
  <2>1. /\ loop = "dial" /\ loop' = "accept" /\ taken' = taken /\ relaying' = relaying \cup {taken}
        /\ taken \in Streams
    BY <1>6 DEF DialTarget
  <2>2. UpStream(taken)'
    <3>1. UpStream(taken) /\ ~Unread(taken) /\ ~Unread(taken)'
      BY <2>1 DEF Unread
    <3> HIDE DEF MuxIInv, MuxFunctions
    <3> QED
      BY <1>1, <2>1, <3>1 DEF UpStream
  <2>3. \A t \in Streams \ {taken} : UpStream(t)'
    BY <1>1, <2>1, UpFrame DEF Unread
  <2> QED
    BY <1>1, <1>2, <2>1, <2>2, <2>3
<1> QED
  BY <1>3, <1>4, <1>5, <1>6

-----------------------------------------------------------------------------
\* No stream is open.
LEMMA MuxInitIInv == MuxInit => MuxIInv
<1> SUFFICES ASSUME MuxInit PROVE MuxIInv
  OBVIOUS
<1>1. MuxFunctions
  BY StreamAssumption DEF MuxInit, MuxFunctions
<1>2. ASSUME NEW s \in Streams PROVE UpStream(s) /\ DownStream(s)
  <2>1. /\ up[s] = <<>> /\ down[s] = <<>> /\ got[s] = <<>> /\ seen[s] = <<>> /\ wrote[s] = 0 /\ sent[s] = 0
        /\ s \notin requestWritten /\ s \notin responseWritten /\ s \notin responseRead /\ s \notin relaying
    BY DEF MuxInit
  <2>2. Unread(s)
    BY StreamAssumption DEF MuxInit, Unread
  <2>3. Counted(<<>>)
    BY DEF Counted
  <2> QED
    BY <2>1, <2>2, <2>3 DEF UpStream, DownStream
<1> QED
  BY <1>1, <1>2 DEF MuxIInv

\* Every step of the client, the accept loop, a relay or a target.
LEMMA MuxNextIInv == MuxIInv /\ [MuxNext]_muxVars => MuxIInv'
<1> SUFFICES ASSUME MuxIInv, [MuxNext]_muxVars PROVE MuxIInv'
  OBVIOUS
<1>1. ASSUME UNCHANGED <<wrote, requestWritten, responseRead, seen, loop, taken, responseWritten, sent,
                         got, up, down>>,
             opened' \in 0..StreamBound, relaying' \subseteq relaying, closed \subseteq closed',
             muxDead => muxDead'
      PROVE  MuxIInv'
  <2>1. \A t \in Streams : DownStream(t)'
    BY <1>1, DownFrame DEF MuxIInv
  <2>2. \A t \in Streams : UpStream(t)'
    BY <1>1, UpFrame DEF Unread, MuxIInv
  <2> QED
    BY <1>1, <2>1, <2>2 DEF MuxIInv, MuxFunctions
<1>2. CASE DialContext
  <2>1. opened \in 0..StreamBound /\ opened < StreamBound
    BY <1>2 DEF DialContext, MuxIInv, MuxFunctions
  <2>2. opened + 1 \in 0..StreamBound
    BY <2>1, StreamAssumption
  <2> QED
    BY <1>1, <1>2, <2>2 DEF DialContext, loopVars, relayVars
<1>3. CASE MuxSessionDies
  BY <1>1, <1>3 DEF MuxSessionDies, clientVars, loopVars, relayVars, MuxIInv, MuxFunctions
<1>4. ASSUME NEW s \in Streams, ClientClose(s) PROVE MuxIInv'
  BY <1>1, <1>4 DEF ClientClose, loopVars, relayVars, MuxIInv, MuxFunctions
<1>5. ASSUME NEW s \in Streams, RelayEnds(s) \/ TargetCloses(s) PROVE MuxIInv'
  BY <1>1, <1>5 DEF RelayEnds, TargetCloses, clientVars, loopVars, MuxIInv, MuxFunctions
<1>6. CASE UNCHANGED muxVars
  BY <1>1, <1>6 DEF muxVars, clientVars, loopVars, relayVars, MuxIInv, MuxFunctions
<1> QED
  BY <1>2, <1>3, <1>4, <1>5, <1>6, ClientWriteStep, ClientReadStep, RelayDownStep, RelayUpStep,
     ReadStreamRequestStep, LoopStepIInv DEF MuxNext, LoopStep, RelayStep

\* Request and status are taken off exactly once, for any number of streams and of
\* payloads: target and client receive the payloads of the other side in order.
THEOREM PayloadsOnly == MuxInit /\ [][MuxNext]_muxVars => []OnlyPayloads
<1>1. MuxIInv => OnlyPayloads
  <2> SUFFICES ASSUME MuxIInv, NEW s \in Streams
               PROVE  Payloads(got[s], wrote[s]) /\ Payloads(seen[s], sent[s])
    BY DEF OnlyPayloads
  <2>1. /\ up[s] \in Seq(Nat) /\ got[s] \in Seq(Nat) /\ wrote[s] \in Nat
        /\ down[s] \in Seq(Nat) /\ seen[s] \in Seq(Nat) /\ sent[s] \in Nat
        /\ UpStream(s) /\ DownStream(s)
    BY DEF MuxIInv, MuxFunctions
  <2>2. Counted(got[s]) /\ Counted(seen[s])
    BY <2>1 DEF UpStream, DownStream
  <2>3. Len(got[s]) <= wrote[s]
    <3>1. got[s] = <<>> \/ Run(up[s], Len(got[s]), wrote[s])
      BY <2>1 DEF UpStream
    <3> QED
      BY <2>1, <3>1, RunBound
  <2>4. Len(seen[s]) <= sent[s]
    <3>1. seen[s] = <<>> \/ Run(down[s], Len(seen[s]), sent[s])
      BY <2>1 DEF DownStream
    <3> QED
      BY <2>1, <3>1, RunBound
  <2> QED
    BY <2>1, <2>2, <2>3, <2>4, PayloadsAre
<1> QED
  BY MuxInitIInv, MuxNextIInv, <1>1, PTL

HIDE DEF Streams

-----------------------------------------------------------------------------
(* The pool of mux sessions.                                               *)

USE DEF Sessions

\* The type invariant with the bound that goes with it.
PoolIInv == TypeOK /\ LimitOvershootIsBounded

\* The calls that have chosen a session are some of the calls: a finite number.
LEMMA PendingFinite ==
  ASSUME NEW s
  PROVE  /\ IsFiniteSet(Pending(s))
         /\ Cardinality(Pending(s)) \in Nat
         /\ Cardinality(Callers) \in Nat
         /\ Cardinality(Pending(s)) <= Cardinality(Callers)
<1>1. Pending(s) \in SUBSET Callers
  BY DEF Pending
<1>2. IsFiniteSet(Pending(s)) /\ Cardinality(Pending(s)) <= Cardinality(Callers)
  BY <1>1, CallersAssumption, FS_Subset
<1>3. Cardinality(Pending(s)) \in Nat /\ Cardinality(Callers) \in Nat
  BY <1>2, CallersAssumption, FS_CardinalityType
<1> QED
  BY <1>2, <1>3

\* The same in the next state.
LEMMA PendingFinitePrime ==
  ASSUME NEW s
  PROVE  /\ IsFiniteSet(Pending(s)')
         /\ Cardinality(Pending(s)') \in Nat
         /\ Cardinality(Pending(s)') <= Cardinality(Callers)
<1>1. Pending(s)' \in SUBSET Callers
  BY DEF Pending
<1>2. IsFiniteSet(Pending(s)') /\ Cardinality(Pending(s)') <= Cardinality(Callers)
  BY <1>1, CallersAssumption, FS_Subset
<1>3. Cardinality(Pending(s)') \in Nat
  BY <1>2, FS_CardinalityType
<1> QED
  BY <1>2, <1>3

\* The pool starts empty.
LEMMA PoolInitIInv == Init => PoolIInv
<1> SUFFICES ASSUME Init PROVE PoolIInv
  OBVIOUS
<1>1. TypeOK
  BY BoundAssumption DEF Init, TypeOK
<1>2. ASSUME NEW s \in Sessions
      PROVE  streams[s] + Cardinality(Pending(s)) <= Limit + Cardinality(Callers)
  <2>1. streams[s] = 0
    BY <1>2 DEF Init
  <2> QED
    BY <2>1, PendingFinite, BoundAssumption
<1> QED
  BY <1>1, <1>2 DEF PoolIInv, LimitOvershootIsBounded

\* Every step keeps the types.
LEMMA PoolNextTypeOK == TypeOK /\ [Next]_vars => TypeOK'
<1> SUFFICES ASSUME TypeOK, [Next]_vars PROVE TypeOK'
  OBVIOUS
<1> USE BoundAssumption DEF TypeOK
<1>1. ASSUME NEW c \in Callers, OpenStream(c) PROVE TypeOK'
  BY <1>1 DEF OpenStream, StartRange
<1>2. ASSUME NEW c \in Callers, NEW s \in Sessions, Visit(c, s) PROVE TypeOK'
  <2>1. s \in 1..made /\ s \in 0..MaxSession
    BY <1>2 DEF Visit
  <2>2. CASE Unusable(s)
    <3>1. todo' = [todo EXCEPT ![c] = @ \ {s}] /\ pc' = pc /\ pick' = pick
      BY <1>2, <2>2 DEF Visit
    <3> QED
      BY <1>2, <3>1 DEF Visit
  <2>3. CASE ~Unusable(s)
    <3>1. /\ todo' = [todo EXCEPT ![c] = {}]
          /\ pick' = [pick EXCEPT ![c] = s]
          /\ pc' = [pc EXCEPT ![c] = "open"]
          /\ UNCHANGED <<pool, made, dead, spent, streams>>
      BY <1>2, <2>3 DEF Visit
    <3>2. pick' \in [Callers -> 0..MaxSession] /\ todo' \in [Callers -> SUBSET (1..made)]
      BY <2>1, <3>1
    <3>3. \A d \in Callers : pc'[d] \in {"open", "store"} => pick'[d] \in 1..made
      BY <2>1, <3>1
    <3> QED
      BY <3>1, <3>2, <3>3
  <2> QED
    BY <2>2, <2>3
<1>3. ASSUME NEW c \in Callers, NoneFound(c) PROVE TypeOK'
  BY <1>3 DEF NoneFound
<1>4. ASSUME NEW c \in Callers, Open(c) PROVE TypeOK'
  <2>1. streams' \in [Sessions -> 0..MaxStream]
    <3>1. CASE /\ streams[pick[c]] < MaxStream
               /\ streams' = [streams EXCEPT ![pick[c]] = @ + 1]
      <4>1. pick[c] \in Sessions
        BY <1>4 DEF Open
      <4>2. streams[pick[c]] + 1 \in 0..MaxStream
        BY <3>1, <4>1
      <4> QED
        BY <3>1, <4>2
    <3>2. CASE streams' = streams
      BY <3>2
    <3> QED
      BY <1>4, <3>1, <3>2 DEF Open
  <2>2. /\ pc' \in [Callers -> {"idle", "range", "open", "dial", "store"}]
        /\ pc'[c] \in {"idle", "dial"} /\ \A d \in Callers \ {c} : pc'[d] = pc[d]
    BY <1>4 DEF Open
  <2>3. /\ pick' \in [Callers -> 0..MaxSession]
        /\ \A d \in Callers \ {c} : pick'[d] = pick[d]
    BY <1>4 DEF Open
  <2>4. UNCHANGED <<pool, made, dead, spent, todo>>
    BY <1>4 DEF Open
  <2> QED
    BY <2>1, <2>2, <2>3, <2>4
<1>5. ASSUME NEW c \in Callers, DialFail(c) PROVE TypeOK'
  BY <1>5 DEF DialFail
<1>6. ASSUME NEW c \in Callers, Dial(c) PROVE TypeOK'
  BY <1>6 DEF Dial
<1>7. ASSUME NEW c \in Callers, Store(c) PROVE TypeOK'
  <2>1. pick[c] \in 1..made /\ pool' = pool \cup {pick[c]} /\ made' = made
    BY <1>7 DEF Store, Stored
  <2>2. pool' \in SUBSET (1..made')
    BY <2>1
  <2>3. PICK seers \in SUBSET {d \in Callers \ {c} : pc[d] = "range"} :
           todo' = [d \in Callers |-> IF d = c THEN pool'
                                     ELSE IF d \in seers THEN todo[d] \cup {pick[c]}
                                     ELSE todo[d]]
    BY <1>7 DEF Store
  <2>4. todo' \in [Callers -> SUBSET (1..made')]
    BY <2>1, <2>2, <2>3
  <2>5. /\ pc' = [pc EXCEPT ![c] = "range"] /\ pick' = [pick EXCEPT ![c] = 0]
        /\ UNCHANGED <<made, dead, spent, streams>>
    BY <1>7 DEF Store, StartRange
  <2> QED
    BY <2>2, <2>4, <2>5
<1>8. ASSUME NEW s \in Sessions, StreamEnds(s) PROVE TypeOK'
  BY <1>8 DEF StreamEnds, callVars
<1>9. ASSUME NEW s \in Sessions, SessionDies(s) PROVE TypeOK'
  BY <1>9 DEF SessionDies, callVars
<1>10. ASSUME NEW s \in Sessions, GoAway(s) PROVE TypeOK'
  BY <1>10 DEF GoAway, callVars
<1>11. CASE UNCHANGED vars
  BY <1>11 DEF vars
<1> QED
  BY <1>1, <1>2, <1>3, <1>4, <1>5, <1>6, <1>7, <1>8, <1>9, <1>10, <1>11
  DEF Next, CallStep

\* A step that adds no stream to a session and no call to those that have chosen it
\* keeps its bound.
LEMMA FewerKeepsBound ==
  ASSUME PoolIInv, TypeOK', NEW s \in Sessions,
         streams'[s] <= streams[s], Pending(s)' \in SUBSET Pending(s)
  PROVE  streams'[s] + Cardinality(Pending(s)') <= Limit + Cardinality(Callers)
<1>1. Cardinality(Pending(s)') <= Cardinality(Pending(s))
  BY PendingFinite, FS_Subset
<1>2. streams[s] + Cardinality(Pending(s)) <= Limit + Cardinality(Callers)
  BY DEF PoolIInv, LimitOvershootIsBounded
<1>3. streams[s] \in Nat /\ streams'[s] \in Nat
  BY BoundAssumption DEF PoolIInv, TypeOK
<1> QED
  BY <1>1, <1>2, <1>3, PendingFinite, PendingFinitePrime, BoundAssumption

\* Every step keeps the bound.  Only two steps can raise the sum: choosing a session,
\* which has Limit streams at most at that moment, and opening the stream, which
\* takes the call out of those that have chosen.
LEMMA PoolNextBound == PoolIInv /\ [Next]_vars => LimitOvershootIsBounded'
<1> SUFFICES ASSUME PoolIInv, [Next]_vars, NEW s \in Sessions
             PROVE  streams'[s] + Cardinality(Pending(s)') <= Limit + Cardinality(Callers)
  BY DEF LimitOvershootIsBounded
<1>0. TypeOK /\ TypeOK'
  BY PoolNextTypeOK DEF PoolIInv
<1>a. streams[s] \in Nat /\ streams'[s] \in Nat /\ Limit \in Nat
  BY <1>0, BoundAssumption DEF TypeOK
<1> DEFINE Goal == streams'[s] + Cardinality(Pending(s)') <= Limit + Cardinality(Callers)
<1>1. ASSUME NEW c \in Callers, OpenStream(c) PROVE Goal
  <2>1. streams'[s] <= streams[s] /\ Pending(s)' \in SUBSET Pending(s)
    BY <1>0, <1>1, <1>a DEF OpenStream, StartRange, Pending, TypeOK
  <2> QED
    BY <1>0, <2>1, FewerKeepsBound
<1>2. ASSUME NEW c \in Callers, NEW t \in Sessions, Visit(c, t) PROVE Goal
  <2>1. CASE t = s /\ ~Unusable(t)
    <3>1. streams'[s] = streams[s] /\ streams[s] <= Limit
      BY <1>2, <1>a, <2>1 DEF Visit, Unusable
    <3>2. /\ Cardinality(Pending(s)') \in Nat /\ Cardinality(Callers) \in Nat
          /\ Cardinality(Pending(s)') <= Cardinality(Callers)
      BY PendingFinite, PendingFinitePrime
    <3>3. streams'[s] <= Limit
      BY <3>1
    <3> HIDE DEF Pending
    <3> QED
      BY <1>a, <3>2, <3>3
  <2>2. CASE ~(t = s /\ ~Unusable(t))
    <3>1. streams'[s] <= streams[s] /\ Pending(s)' \in SUBSET Pending(s)
      BY <1>0, <1>2, <1>a, <2>2 DEF Visit, Pending, TypeOK
    <3> QED
      BY <1>0, <3>1, FewerKeepsBound
  <2> QED
    BY <2>1, <2>2
<1>3. ASSUME NEW c \in Callers, NoneFound(c) PROVE Goal
  <2>1. streams'[s] <= streams[s] /\ Pending(s)' \in SUBSET Pending(s)
    BY <1>0, <1>3, <1>a DEF NoneFound, Pending, TypeOK
  <2> QED
    BY <1>0, <2>1, FewerKeepsBound
<1>4. ASSUME NEW c \in Callers, Open(c) PROVE Goal
  <2>1. CASE pick[c] = s /\ streams' = [streams EXCEPT ![s] = @ + 1]
    <3>1. c \in Pending(s)
      BY <1>4, <2>1 DEF Open, Pending
    <3>2. Pending(s)' = Pending(s) \ {c}
      BY <1>0, <1>4, <2>1 DEF Open, Pending, TypeOK
    <3>3. Cardinality(Pending(s)') = Cardinality(Pending(s)) - 1
      BY <3>1, <3>2, PendingFinite, FS_RemoveElement
    <3>4. streams'[s] = streams[s] + 1
      BY <1>0, <2>1 DEF TypeOK
    <3>5. streams[s] + Cardinality(Pending(s)) <= Limit + Cardinality(Callers)
      BY DEF PoolIInv, LimitOvershootIsBounded
    <3> QED
      BY <1>a, <3>3, <3>4, <3>5, PendingFinite
  <2>2. CASE ~(pick[c] = s /\ streams' = [streams EXCEPT ![s] = @ + 1])
    <3>1. streams'[s] <= streams[s]
      BY <1>0, <1>4, <1>a, <2>2 DEF Open, TypeOK
    <3>2. Pending(s)' \in SUBSET Pending(s)
      BY <1>0, <1>4 DEF Open, Pending, TypeOK
    <3> QED
      BY <1>0, <3>1, <3>2, FewerKeepsBound
  <2> QED
    BY <2>1, <2>2
<1>5. ASSUME NEW c \in Callers, DialFail(c) PROVE Goal
  <2>1. streams'[s] <= streams[s] /\ Pending(s)' \in SUBSET Pending(s)
    BY <1>0, <1>5, <1>a DEF DialFail, Pending, TypeOK
  <2> QED
    BY <1>0, <2>1, FewerKeepsBound
<1>6. ASSUME NEW c \in Callers, Dial(c) PROVE Goal
  <2>1. streams'[s] <= streams[s] /\ Pending(s)' \in SUBSET Pending(s)
    BY <1>0, <1>6, <1>a DEF Dial, Pending, TypeOK
  <2> QED
    BY <1>0, <2>1, FewerKeepsBound
<1>7. ASSUME NEW c \in Callers, Store(c) PROVE Goal
  <2>1. streams'[s] <= streams[s] /\ Pending(s)' \in SUBSET Pending(s)
    BY <1>0, <1>7, <1>a DEF Store, StartRange, Pending, TypeOK
  <2> QED
    BY <1>0, <2>1, FewerKeepsBound
<1>8. ASSUME NEW t \in Sessions, StreamEnds(t) \/ SessionDies(t) \/ GoAway(t) PROVE Goal
  <2>1. Pending(s)' \in SUBSET Pending(s)
    BY <1>8 DEF StreamEnds, SessionDies, GoAway, Pending, callVars
  <2>2. streams'[s] <= streams[s]
    BY <1>0, <1>8, <1>a DEF StreamEnds, SessionDies, GoAway, TypeOK
  <2> QED
    BY <1>0, <2>1, <2>2, FewerKeepsBound
<1>9. CASE UNCHANGED vars
  <2>1. streams'[s] <= streams[s] /\ Pending(s)' \in SUBSET Pending(s)
    BY <1>9, <1>a DEF vars, Pending
  <2> QED
    BY <1>0, <2>1, FewerKeepsBound
<1> QED
  BY <1>1, <1>2, <1>3, <1>4, <1>5, <1>6, <1>7, <1>8, <1>9 DEF Next, CallStep

\* The smux pool of mux/client.go: whatever the calls do between the check
\* NumStreams() > 8 and OpenStream, a session never has more streams, counting the
\* ones about to be opened, than the limit and one for each call.
THEOREM LimitHolds == Spec => [](TypeOK /\ LimitOvershootIsBounded)
<1>1. PoolIInv /\ [Next]_vars => PoolIInv'
  BY PoolNextTypeOK, PoolNextBound DEF PoolIInv
<1> QED
  BY <1>1, PoolInitIInv, PTL DEF Spec, PoolIInv
=============================================================================
