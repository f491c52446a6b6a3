-------------------------------- MODULE Obfs --------------------------------
(* ssr/obfs: the first exchange of a connection dressed up as something    *)
(* else.  tls1.2_ticket_auth and random_head keep what is written back     *)
(* until the server has answered; the goroutine that reads sends it then,  *)
(* while the goroutine that writes goes on writing, and no lock is taken.  *)
(* http_simple and http_post wrap the first Write only.                    *)
EXTENDS Integers, Sequences

CONSTANTS MaxTokens,    \* bound on Writes
          MaxPieces     \* bound on pieces of data from the server

ASSUME ObfsAssumption == MaxTokens \in Nat /\ MaxPieces \in Nat

Sides == {"writer", "reader"}

\* Data is a number; the rest of what travels is the client's head and finish and the
\* two halves of the server's head.
Hello == -1
Finish == -2
Head1 == -3
Head2 == -4

VARIABLES obfs,         \* the kind
          status,       \* handshakeStatus of tls12: 0, 1 and 8
          sentHead,     \* hasSentHeader
          recvHead,     \* hasRecvHeader, rawTransRecv
          rawSent,      \* rawTransSent
          parked,       \* sendBuf, buf: what was written and not sent
          held,         \* what the reader has taken from sendBuf and not yet sent
          opc,          \* where each goroutine is in Write
          oarg,         \* what it writes
          tokens,       \* Writes so far
          sent,         \* what the server gets
          raced,        \* two Writes were under way at once
          cut,          \* the connection has failed
          arriving,     \* pieces from the server on their way
          pieces,       \* pieces of data the server has sent
          half,         \* underDecoded
          rest,         \* decoded, and the buf of httpConn's Read
          got,          \* what Read has returned
          split,        \* the server's head arrived in two pieces, or with data
          fault         \* Read has returned an error

obfsVars == <<obfs, status, sentHead, recvHead, rawSent, parked, held, opc, oarg, tokens, sent, raced, cut,
              arriving, pieces, half, rest, got, split, fault>>
writeVars == <<status, sentHead, rawSent, parked, held, opc, oarg, tokens, sent, raced>>
readVars == <<arriving, half, rest, got, split, fault, recvHead>>

ObfsInit(K) ==
  /\ obfs \in K /\ status = 0 /\ sentHead = FALSE /\ recvHead = FALSE /\ rawSent = FALSE
  /\ parked = <<>> /\ held = <<>> /\ opc = [s \in Sides |-> "idle"] /\ oarg = [s \in Sides |-> <<>>] /\ tokens = 0
  /\ sent = <<>> /\ raced = FALSE /\ cut = FALSE /\ arriving = <<>> /\ pieces = 0 /\ half = <<>>
  /\ rest = <<>> /\ got = <<>> /\ split = FALSE /\ fault = FALSE

-----------------------------------------------------------------------------
(* Write, by either goroutine.                                             *)

\* Conn.Write: an error is the caller's to see, except that of httpConn's first Write.
Emit(x) == sent' = IF cut THEN sent ELSE sent \o x

Goto(s, place) == opc' = [opc EXCEPT ![s] = place]
Through == CASE obfs = "tls12" -> status = 8 [] obfs = "random_head" -> rawSent [] OTHER -> sentHead

\* The first lines of Write: straight to the connection, or not.
Enter(s, arg) ==
  /\ opc[s] = "idle"
  /\ Goto(s, IF Through THEN "send" ELSE IF obfs = "http" THEN "first" ELSE "park")
  /\ oarg' = [oarg EXCEPT ![s] = arg]
  /\ raced' = (raced \/ \E t \in Sides : opc[t] # "idle")

WriteBegin ==
  /\ tokens < MaxTokens /\ Enter("writer", <<tokens + 1>>) /\ tokens' = tokens + 1
  /\ UNCHANGED <<obfs, status, sentHead, rawSent, parked, held, sent, cut, pieces>> /\ UNCHANGED readVars

\* packData of each chunk, and Conn.Write.
WriteSend(s) ==
  /\ opc[s] = "send" /\ Emit(oarg[s]) /\ Goto(s, "idle")
  /\ UNCHANGED <<obfs, status, sentHead, rawSent, parked, held, oarg, tokens, raced, cut, pieces>> /\ UNCHANGED readVars

\* httpConn: head and data in one request; not sent is not written.
WriteFirst(s) ==
  /\ opc[s] = "first" /\ Emit(<<Hello>> \o oarg[s]) /\ sentHead' = ~cut /\ Goto(s, "idle")
  /\ UNCHANGED <<obfs, status, rawSent, parked, held, oarg, tokens, raced, cut, pieces>> /\ UNCHANGED readVars

WritePark(s) ==
  /\ opc[s] = "park" /\ parked' = parked \o oarg[s] /\ Goto(s, "after")
  /\ UNCHANGED <<obfs, status, sentHead, rawSent, held, oarg, tokens, sent, raced, cut, pieces>> /\ UNCHANGED readVars

\* The first Write sends the head.
WriteHead(s) ==
  /\ opc[s] = "after" /\ Emit(<<Hello>>) /\ Goto(s, "idle")
  /\ \/ obfs = "tls12" /\ status = 0 /\ status' = 1 /\ UNCHANGED sentHead
     \/ obfs = "random_head" /\ ~sentHead /\ sentHead' = TRUE /\ UNCHANGED status
  /\ UNCHANGED <<obfs, rawSent, parked, held, oarg, tokens, raced, cut, pieces>> /\ UNCHANGED readVars

\* A Write between the head and its answer stays parked.
WriteLater(s) ==
  /\ opc[s] = "after" /\ Goto(s, "idle")
  /\ \/ obfs = "tls12" /\ status # 0 /\ ~(status = 1 /\ oarg[s] = <<>>)
     \/ obfs = "random_head" /\ sentHead /\ ~recvHead
  /\ UNCHANGED <<obfs, status, sentHead, rawSent, parked, held, oarg, tokens, sent, raced, cut, pieces>>
  /\ UNCHANGED readVars

\* A mutant: tls12's finish does not take what was parked.
TakeParkedNothing(s) ==
  /\ opc[s] = "after" /\ obfs = "tls12" /\ status = 1 /\ oarg[s] = <<>>
  /\ held' = <<>> /\ UNCHANGED parked /\ status' = 8 /\ Goto(s, "finish")
  /\ UNCHANGED <<obfs, sentHead, rawSent, oarg, tokens, sent, raced, cut, pieces>> /\ UNCHANGED readVars

\* tls12's finish: sendBuf is taken and the status is 8 before anything is sent.
TakeParked(s) ==
  /\ opc[s] = "after" /\ obfs = "tls12" /\ status = 1 /\ oarg[s] = <<>>
  /\ held' = parked /\ parked' = <<>> /\ status' = 8 /\ Goto(s, "finish")
  /\ UNCHANGED <<obfs, sentHead, rawSent, oarg, tokens, sent, raced, cut, pieces>> /\ UNCHANGED readVars

WriteFinish(s) ==
  /\ opc[s] = "finish" /\ Emit(<<Finish>> \o held) /\ held' = <<>> /\ Goto(s, "idle")
  /\ UNCHANGED <<obfs, status, sentHead, rawSent, parked, oarg, tokens, raced, cut, pieces>> /\ UNCHANGED readVars

\* random_head: buf is sent, and only then emptied.
WriteFlush(s) ==
  /\ opc[s] = "after" /\ obfs = "random_head" /\ sentHead /\ recvHead
  /\ Emit(parked) /\ Goto(s, "clear")
  /\ UNCHANGED <<obfs, status, sentHead, rawSent, parked, held, oarg, tokens, raced, cut, pieces>>
  /\ UNCHANGED readVars

WriteClear(s) ==
  /\ opc[s] = "clear" /\ parked' = <<>> /\ rawSent' = TRUE /\ Goto(s, "idle")
  /\ UNCHANGED <<obfs, status, sentHead, held, oarg, tokens, sent, raced, cut, pieces>> /\ UNCHANGED readVars

-----------------------------------------------------------------------------
(* The server: it answers a head, and sends data once it has some.         *)

Heard(x) == \E i \in 1 .. Len(sent) : sent[i] = x

Answer ==
  /\ Heard(Hello) /\ arriving = <<>> /\ pieces = 0 /\ ~recvHead /\ status # 8
  /\ arriving' = <<Head1, Head2>> /\ pieces' = 1
  /\ UNCHANGED <<obfs, cut, half, rest, got, split, fault, recvHead>> /\ UNCHANGED writeVars

ServerSendsData ==
  /\ pieces \in 1 .. MaxPieces
  /\ obfs = "tls12" => Heard(Finish)
  /\ obfs = "random_head" => \E t \in 1 .. MaxTokens : Heard(t)
  /\ arriving' = Append(arriving, pieces) /\ pieces' = pieces + 1
  /\ UNCHANGED <<obfs, cut, half, rest, got, split, fault, recvHead>> /\ UNCHANGED writeVars

Fail == /\ ~cut /\ cut' = TRUE
        /\ UNCHANGED <<obfs, pieces>> /\ UNCHANGED writeVars /\ UNCHANGED readVars

-----------------------------------------------------------------------------
(* Read.                                                                   *)

\* The reader's turn, with the first k pieces that have arrived; what was left of
\* the last time comes first.
Receives(k) == opc["reader"] = "idle" /\ ~fault /\ rest = <<>> /\ arriving' = SubSeq(arriving, k + 1, Len(arriving))

ReadRest ==
  /\ opc["reader"] = "idle" /\ ~fault /\ rest # <<>>
  /\ got' = Append(got, Head(rest)) /\ rest' = Tail(rest)
  /\ UNCHANGED <<obfs, cut, pieces, arriving, half, split, fault, recvHead>> /\ UNCHANGED writeVars

\* The head is waited for in one Read; the rest of that Read is data, of which one
\* piece fits in b.
ReadHttpHead(k) ==
  /\ obfs = "http" /\ ~recvHead /\ Receives(k)
  /\ LET data == SubSeq(arriving, 3, k) IN
     /\ recvHead' = (k >= 2) /\ fault' = (k < 2) /\ split' = (split \/ k < 2)
     /\ got' = got \o SubSeq(data, 1, IF data = <<>> THEN 0 ELSE 1) /\ rest' = SubSeq(data, 2, Len(data))
  /\ UNCHANGED <<obfs, cut, pieces, half>> /\ UNCHANGED writeVars

\* tls12 before the finish: the answer must come alone and whole; Write(nil) then.
ReadTicket(k) ==
  /\ obfs = "tls12" /\ status # 8 /\ Receives(k)
  /\ split' = (split \/ k # 2) /\ fault' = (k # 2)
  /\ IF k # 2 THEN UNCHANGED <<opc, oarg, raced>> ELSE Enter("reader", <<>>)
  /\ UNCHANGED <<obfs, cut, pieces, half, rest, got, recvHead, status, sentHead, rawSent, parked, held, tokens, sent>>

\* random_head: whatever the first Read brings, be it an error, is taken for the head.
ReadRandomHead(k) ==
  /\ obfs = "random_head" /\ ~recvHead /\ Receives(k) /\ (k > 0 \/ cut)
  /\ recvHead' = TRUE /\ split' = (split \/ k # 2)
  /\ opc' = [opc EXCEPT !["reader"] = "enter"]
  /\ UNCHANGED <<obfs, cut, pieces, half, rest, got, fault>>
  /\ UNCHANGED <<status, sentHead, rawSent, parked, held, oarg, tokens, sent, raced>>

\* Its Write(nil), a moment after rawTransRecv has been set.
ReaderWrites ==
  /\ opc["reader"] = "enter"
  /\ opc' = [opc EXCEPT !["reader"] = IF rawSent THEN "send" ELSE "park"] /\ oarg' = [oarg EXCEPT !["reader"] = <<>>]
  /\ raced' = (raced \/ opc["writer"] # "idle")
  /\ UNCHANGED <<obfs, status, sentHead, rawSent, parked, held, tokens, sent, cut, pieces>> /\ UNCHANGED readVars

\* tls12: a record is two pieces here, and comes out when it is whole.
ReadRecords(k) ==
  /\ obfs = "tls12" /\ status = 8 /\ Receives(k)
  /\ LET all == half \o SubSeq(arriving, 1, k)
         whole == (Len(all) \div 2) * 2
     IN half' = SubSeq(all, whole + 1, Len(all)) /\ got' = got \o SubSeq(all, 1, 1) /\ whole > 0
        /\ rest' = SubSeq(all, 2, whole)
  /\ UNCHANGED <<obfs, cut, pieces, split, fault, recvHead>> /\ UNCHANGED writeVars

ReadHalf(k) ==
  /\ obfs = "tls12" /\ status = 8 /\ Receives(k) /\ Len(half) + k < 2
  /\ half' = half \o SubSeq(arriving, 1, k)
  /\ UNCHANGED <<obfs, cut, pieces, split, fault, recvHead, rest, got>> /\ UNCHANGED writeVars

ReadPlain(k) ==
  /\ obfs \in {"http", "random_head"} /\ recvHead /\ Receives(k)
  /\ got' = got \o SubSeq(arriving, 1, k)
  /\ UNCHANGED <<obfs, cut, pieces, half, rest, split, fault, recvHead>> /\ UNCHANGED writeVars

ObfsNext ==
  \/ WriteBegin \/ Answer \/ ServerSendsData \/ Fail \/ ReadRest \/ ReaderWrites \/ ReadRandomHead(0)
  \/ \E s \in Sides : WriteSend(s) \/ WriteFirst(s) \/ WritePark(s) \/ WriteHead(s) \/ WriteLater(s)
                      \/ TakeParked(s) \/ WriteFinish(s) \/ WriteFlush(s) \/ WriteClear(s)
  \/ \E k \in 1 .. Len(arriving) : ReadHttpHead(k) \/ ReadTicket(k) \/ ReadRandomHead(k) \/ ReadRecords(k)
                                   \/ ReadHalf(k) \/ ReadPlain(k)

ObfsSpec == ObfsInit({"tls12", "random_head", "http"}) /\ [][ObfsNext]_obfsVars

-----------------------------------------------------------------------------
(* Property.                                                               *)

Counted(q, n) == q = [i \in 1 .. n |-> i]

\* The data in q, between what else there is, is 1 to n, once and in order.
InOrder(q, n) ==
  /\ \A i \in 1 .. Len(q) : q[i] <= n
  /\ \A t \in 1 .. n : \E i \in 1 .. Len(q) : q[i] = t
  /\ \A j \in 1 .. Len(q) : q[j] > 0 => \A i \in 1 .. j - 1 : q[i] < q[j]

\* The head of the server, if it comes next.
HeadLength == IF arriving # <<>> /\ arriving[1] = Head1 THEN 2 ELSE 0

\* The disguise loses nothing: as long as no Write overlaps the one with which the
\* reader sends what is parked, what was written goes out, or waits, once and in order,
\* and nothing waits once the exchange is over; and unless the server's head arrives
\* in pieces, Read returns the server's data, once and in order, and no error.
ObfsInOrder ==
  /\ (~raced /\ ~cut /\ opc = [s \in Sides |-> "idle"]) => InOrder(sent \o parked, tokens) /\ (Through => parked = <<>>)
  /\ ~raced => \E n \in 0 .. tokens : InOrder(sent, n)
  /\ ~split => /\ ~fault
               /\ Counted(got \o rest \o half \o SubSeq(arriving, HeadLength + 1, Len(arriving)),
                          IF pieces = 0 THEN 0 ELSE pieces - 1)
=============================================================================
