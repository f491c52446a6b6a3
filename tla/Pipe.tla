-------------------------------- MODULE Pipe --------------------------------
(***************************************************************************)
(* anytls/pipe/io_pipe.go: the synchronous pipe between a session's        *)
(* receive loop (Write) and the reader of a stream (Read).                 *)
(*                                                                         *)
(* A Write offers the rest of its slice on wrCh and waits on rdCh for the  *)
(* number of bytes taken; a Read takes a slice from wrCh, copies and       *)
(* answers on rdCh.  Both channels are unbuffered, so each transfer is one *)
(* step of two goroutines; the answer is not guarded by done or by a       *)
(* deadline.  Data is abstracted to positions: a Write of len bytes has    *)
(* the positions 0..len-1.  The locals of a Read or Write that has         *)
(* returned are reset, except what it reported.                            *)
(***************************************************************************)
EXTENDS Naturals

CONSTANTS Readers,   \* goroutines that call Read
          Writers,   \* goroutines that call Write
          MaxLen,    \* bound on the length of a slice
          MaxChan,   \* bound on the cancel channels of each deadline
          None

ASSUME BoundAssumption == MaxLen \in Nat /\ MaxChan \in Nat
ASSUME NoneAssumption == None \notin Writers

Lens == 0..MaxLen
Errors == {"none", "EOF", "ErrClosedPipe", "ErrDeadlineExceeded"}

VARIABLES
  wrMu,        \* pipe.wrMu: the Write that holds it
  wpc,         \* each Write: "idle", "lock", "offer" (select), "ack" (<-rdCh)
  wlen,        \* len(b) at the call
  off,         \* how much of b has been acknowledged: b is now b[off:]
  wchan,       \* the cancel channel the select of a Write listens to
  wret,        \* the error of the last Write that returned, none once another begins
  rpc,         \* each Read: "idle", "recv" (select), "ack" (rdCh <- nr)
  rcap,        \* len(b) of a Read
  nr,          \* what a Read has copied and not yet acknowledged
  from,        \* the Write it copied from
  rchan,       \* the cancel channel the select of a Read listens to
  rret,        \* the error of the last Read that returned, none once another begins
  taken,       \* positions of each Write's slice handed to readers so far
  torn,        \* Writes of which a position was handed out twice, skipped, or inside
               \* another Write's slice
  done,        \* pipe.done is closed
  rerr, werr,  \* pipe.rerr and pipe.werr
  rgen, rclosed, rarmed,   \* pipe.readDeadline
  wgen, wclosed, warmed    \* pipe.writeDeadline

readDeadline == <<rgen, rclosed, rarmed>>
writeDeadline == <<wgen, wclosed, warmed>>
deadlines == <<rgen, rclosed, rarmed, wgen, wclosed, warmed>>
writeSide == <<wrMu, wpc, wlen, off, wchan, wret>>
readSide == <<rpc, rcap, nr, from, rchan, rret>>
closeState == <<done, rerr, werr>>
vars == <<wrMu, wpc, wlen, off, wchan, wret, rpc, rcap, nr, from, rchan, rret,
          taken, torn, done, rerr, werr,
          rgen, rclosed, rarmed, wgen, wclosed, warmed>>

RD == INSTANCE Deadline WITH gen <- rgen, closed <- rclosed, armed <- rarmed
WD == INSTANCE Deadline WITH gen <- wgen, closed <- wclosed, armed <- warmed

Flags ==
  /\ done \in BOOLEAN
  /\ rclosed \in BOOLEAN /\ rarmed \in BOOLEAN
  /\ wclosed \in BOOLEAN /\ warmed \in BOOLEAN

TypeOK ==
  /\ wrMu \in Writers \cup {None}
  /\ wpc \in [Writers -> {"idle", "lock", "offer", "ack"}]
  /\ wlen \in [Writers -> Lens]
  /\ off \in [Writers -> Lens]
  /\ wchan \in [Writers -> 0..MaxChan]
  /\ wret \in Errors
  /\ rpc \in [Readers -> {"idle", "recv", "ack"}]
  /\ rcap \in [Readers -> Lens]
  /\ nr \in [Readers -> Lens]
  /\ from \in [Readers -> Writers \cup {None}]
  /\ rchan \in [Readers -> 0..MaxChan]
  /\ rret \in Errors
  /\ taken \in [Writers -> Lens]
  /\ torn \in SUBSET Writers
  /\ rerr \in {"none", "ErrClosedPipe"}
  /\ werr \in {"none", "EOF"}
  /\ rgen \in 0..MaxChan /\ wgen \in 0..MaxChan
  /\ Flags

\* Pipe().
Init ==
  /\ wrMu = None
  /\ wpc = [w \in Writers |-> "idle"]
  /\ wlen = [w \in Writers |-> 0]
  /\ off = [w \in Writers |-> 0]
  /\ wchan = [w \in Writers |-> 0]
  /\ wret = "none"
  /\ rpc = [r \in Readers |-> "idle"]
  /\ rcap = [r \in Readers |-> 0]
  /\ nr = [r \in Readers |-> 0]
  /\ from = [r \in Readers |-> None]
  /\ rchan = [r \in Readers |-> 0]
  /\ rret = "none"
  /\ taken = [w \in Writers |-> 0]
  /\ torn = {}
  /\ done = FALSE /\ rerr = "none" /\ werr = "none"
  /\ RD!Init /\ WD!Init

-----------------------------------------------------------------------------
(* Errors.                                                                 *)

\* The reader learns why the writer closed, unless it closed its own end.
readCloseError == IF rerr = "none" /\ werr # "none" THEN werr ELSE "ErrClosedPipe"
writeCloseError == IF werr = "none" /\ rerr # "none" THEN rerr ELSE "ErrClosedPipe"

\* onceError.Store: the first error stays.
Store(old, err) == IF old # "none" THEN old ELSE err

-----------------------------------------------------------------------------
(* read.                                                                   *)

\* The first select finds nothing closed and the second one is entered; each
\* evaluates readDeadline.Wait() for itself.
ReadEnter(r, n) ==
  /\ rpc[r] = "idle"
  /\ ~done /\ ~rclosed
  /\ rpc' = [rpc EXCEPT ![r] = "recv"]
  /\ rcap' = [rcap EXCEPT ![r] = n]
  /\ rchan' = [rchan EXCEPT ![r] = rgen]
  /\ rret' = "none"
  /\ UNCHANGED <<writeSide, nr, from, taken, torn, closeState, deadlines>>

\* The first select finds the pipe closed or the deadline passed.
ReadRefused(r) ==
  /\ rpc[r] = "idle"
  /\ \/ done /\ rret' = readCloseError
     \/ rclosed /\ rret' = "ErrDeadlineExceeded"
  /\ UNCHANGED <<writeSide, rpc, rcap, nr, from, rchan, taken, torn, closeState,
                 deadlines>>

\* The cancel channel that Wait returned before the select.
ReadExpired(r) == RD!Expired(rchan[r])

\* The second select is woken by done or by its cancel channel.
ReadAbort(r) ==
  /\ rpc[r] = "recv"
  /\ \/ done /\ rret' = readCloseError
     \/ ReadExpired(r) /\ rret' = "ErrDeadlineExceeded"
  /\ rpc' = [rpc EXCEPT ![r] = "idle"]
  /\ rcap' = [rcap EXCEPT ![r] = 0]
  /\ rchan' = [rchan EXCEPT ![r] = 0]
  /\ UNCHANGED <<writeSide, nr, from, taken, torn, closeState, deadlines>>

-----------------------------------------------------------------------------
(* write.                                                                  *)

\* The first select finds nothing closed; wrMu.Lock is next.
WriteEnter(w, n) ==
  /\ wpc[w] = "idle"
  /\ ~done /\ ~wclosed
  /\ wpc' = [wpc EXCEPT ![w] = "lock"]
  /\ wlen' = [wlen EXCEPT ![w] = n]
  /\ off' = [off EXCEPT ![w] = 0]
  /\ taken' = [taken EXCEPT ![w] = 0]
  /\ wret' = "none"
  /\ UNCHANGED <<wrMu, wchan, readSide, torn, closeState, deadlines>>

WriteRefused(w) ==
  /\ wpc[w] = "idle"
  /\ \/ done /\ wret' = writeCloseError
     \/ wclosed /\ wret' = "ErrDeadlineExceeded"
  /\ wlen' = [wlen EXCEPT ![w] = 0]
  /\ off' = [off EXCEPT ![w] = 0]
  /\ taken' = [taken EXCEPT ![w] = 0]
  /\ UNCHANGED <<wrMu, wpc, wchan, readSide, torn, closeState, deadlines>>

\* wrMu.Lock()
LockFreeIgnored == TRUE  \* mutant: writes are not serialised
LockFree == wrMu = None

\* wrMu is taken and the loop's select is entered for the first time, for an
\* empty slice too.
WriteLock(w) ==
  /\ wpc[w] = "lock"
  /\ LockFree
  /\ wrMu' = w
  /\ wpc' = [wpc EXCEPT ![w] = "offer"]
  /\ wchan' = [wchan EXCEPT ![w] = wgen]
  /\ UNCHANGED <<wlen, off, wret, readSide, taken, torn, closeState, deadlines>>

\* Mutant of WriteAbort: the deferred Unlock is missing.
WriteAbortLocked(w) ==
  /\ wpc[w] = "offer"
  /\ \/ done /\ wret' = writeCloseError
     \/ WD!Expired(wchan[w]) /\ wret' = "ErrDeadlineExceeded"
  /\ wpc' = [wpc EXCEPT ![w] = "idle"]
  /\ UNCHANGED <<wrMu, wchan, wlen, off, readSide, taken, torn, closeState, deadlines>>

\* Mutant of WriteAbort: the wait for the answer listens to done as well.
WriteAbortWaiting(w) ==
  /\ wpc[w] \in {"offer", "ack"}
  /\ \/ done /\ wret' = writeCloseError
     \/ WD!Expired(wchan[w]) /\ wret' = "ErrDeadlineExceeded"
  /\ wpc' = [wpc EXCEPT ![w] = "idle"]
  /\ wrMu' = None
  /\ wchan' = [wchan EXCEPT ![w] = 0]
  /\ UNCHANGED <<wlen, off, readSide, taken, torn, closeState, deadlines>>

\* The loop's select is woken by done or by its cancel channel.
WriteAbort(w) ==
  /\ wpc[w] = "offer"
  /\ \/ done /\ wret' = writeCloseError
     \/ WD!Expired(wchan[w]) /\ wret' = "ErrDeadlineExceeded"
  /\ wpc' = [wpc EXCEPT ![w] = "idle"]
  /\ wrMu' = None
  /\ wchan' = [wchan EXCEPT ![w] = 0]
  /\ UNCHANGED <<wlen, off, readSide, taken, torn, closeState, deadlines>>

-----------------------------------------------------------------------------
(* The two rendezvous.                                                     *)

\* copy(b, bw)
copied(r, w) == IF rcap[r] < wlen[w] - off[w] THEN rcap[r] ELSE wlen[w] - off[w]

\* Another Write has handed over a part of its slice and offers the rest.
InsideAnother(w) ==
  \E v \in Writers \ {w} : wpc[v] \in {"offer", "ack"} /\ taken[v] > 0

\* wrCh: the reader takes the slice and copies its head.
Transfer(r, w) ==
  /\ rpc[r] = "recv" /\ wpc[w] = "offer"
  /\ nr' = [nr EXCEPT ![r] = copied(r, w)]
  /\ from' = [from EXCEPT ![r] = w]
  /\ torn' = IF off[w] = taken[w] /\ ~InsideAnother(w) THEN torn ELSE torn \cup {w}
  /\ taken' = [taken EXCEPT ![w] = off[w] + copied(r, w)]
  /\ rpc' = [rpc EXCEPT ![r] = "ack"]
  /\ wpc' = [wpc EXCEPT ![w] = "ack"]
  /\ UNCHANGED <<wrMu, wlen, off, wchan, wret, rcap, rchan, rret, closeState, deadlines>>

\* b = b[nw:]; n += nw
restKept(r, w) == off[w]  \* mutant: the slice is offered again from its start
rest(r, w) == off[w] + nr[r]

\* rdCh: the writer learns how much was taken, and goes on with the rest or
\* returns and unlocks; the reader returns.
Acknowledge(r, w) ==
  /\ rpc[r] = "ack" /\ wpc[w] = "ack"
  /\ off' = [off EXCEPT ![w] = rest(r, w)]
  /\ rpc' = [rpc EXCEPT ![r] = "idle"]
  /\ rret' = "none"
  /\ from' = [from EXCEPT ![r] = None]
  /\ nr' = [nr EXCEPT ![r] = 0]
  /\ rcap' = [rcap EXCEPT ![r] = 0]
  /\ rchan' = [rchan EXCEPT ![r] = 0]
  /\ IF rest(r, w) < wlen[w]
       THEN /\ wpc' = [wpc EXCEPT ![w] = "offer"]
            /\ wchan' = [wchan EXCEPT ![w] = wgen]
            /\ UNCHANGED <<wrMu, wret>>
       ELSE /\ wpc' = [wpc EXCEPT ![w] = "idle"]
            /\ wret' = "none"
            /\ wrMu' = None
            /\ wchan' = [wchan EXCEPT ![w] = 0]
  /\ UNCHANGED <<wlen, taken, torn, closeState, deadlines>>

-----------------------------------------------------------------------------
(* Close and deadlines.                                                    *)

closeRead ==
  /\ rerr' = Store(rerr, "ErrClosedPipe")
  /\ done' = TRUE
  /\ UNCHANGED <<werr, writeSide, readSide, taken, torn, deadlines>>

closeWrite ==
  /\ werr' = Store(werr, "EOF")
  /\ done' = TRUE
  /\ UNCHANGED <<rerr, writeSide, readSide, taken, torn, deadlines>>

\* SetReadDeadline and SetWriteDeadline do nothing on a closed pipe.
SetReadDeadline ==
  /\ ~done
  /\ RD!Set
  /\ UNCHANGED <<writeDeadline, writeSide, readSide, taken, torn, closeState>>

SetWriteDeadline ==
  /\ ~done
  /\ WD!Set
  /\ UNCHANGED <<readDeadline, writeSide, readSide, taken, torn, closeState>>

\* A deadline passes.
DeadlineFires ==
  /\ \/ RD!Fire /\ UNCHANGED writeDeadline
     \/ WD!Fire /\ UNCHANGED readDeadline
  /\ UNCHANGED <<writeSide, readSide, taken, torn, closeState>>

Next ==
  \/ \E r \in Readers : ReadRefused(r) \/ ReadAbort(r) \/ \E n \in Lens : ReadEnter(r, n)
  \/ \E w \in Writers : \/ WriteRefused(w) \/ WriteLock(w) \/ WriteAbort(w)
                        \/ \E n \in Lens : WriteEnter(w, n)
  \/ \E r \in Readers, w \in Writers : Transfer(r, w) \/ Acknowledge(r, w)
  \/ closeRead \/ closeWrite
  \/ SetReadDeadline \/ SetWriteDeadline \/ DeadlineFires

Spec == Init /\ [][Next]_vars

\* A goroutine that can proceed does.
Fairness ==
  /\ \A r \in Readers : WF_vars(ReadAbort(r))
  /\ \A w \in Writers : WF_vars(WriteAbort(w)) /\ WF_vars(WriteLock(w))
  /\ \A r \in Readers, w \in Writers : WF_vars(Acknowledge(r, w))

FairSpec == Spec /\ Fairness

-----------------------------------------------------------------------------
(* Properties.                                                             *)

\* Every position a Write hands over is the next one, and no other Write is halfway:
\* no byte is delivered twice, none is skipped, and slices are not mixed, whichever
\* readers take the pieces.
DeliveredInOrder == torn = {}

\* What an idle Write reported as written (its n) is what readers were given, also
\* when a close or a deadline cut it short.
ReportedIsDelivered ==
  \A w \in Writers : wpc[w] # "ack" => off[w] = taken[w]

\* A writer waits on rdCh exactly while one reader owes it an answer.  The waits
\* on rdCh listen neither to done nor to a deadline; this is why they need not.
AnswerIsOwed ==
  /\ \A w \in Writers : wpc[w] = "ack" => \E r \in Readers : rpc[r] = "ack" /\ from[r] = w
  /\ \A r \in Readers : rpc[r] = "ack" => from[r] \in Writers /\ wpc[from[r]] = "ack"
  /\ \A r, s \in Readers : rpc[r] = "ack" /\ rpc[s] = "ack" => r = s

\* One Write at a time is between wrMu.Lock and Unlock.
WritesAreSerial ==
  \A w \in Writers : wpc[w] \in {"offer", "ack"} <=> wrMu = w

\* Closing either end releases every blocked Read and Write, those queued on wrMu
\* included.
CloseReleasesEveryone ==
  /\ \A r \in Readers : (done /\ rpc[r] # "idle") ~> rpc[r] = "idle"
  /\ \A w \in Writers : (done /\ wpc[w] # "idle") ~> wpc[w] = "idle"

\* Inductive strengthening for the theorems of PipeProofs.
Progress ==
  \A r \in Readers : rpc[r] = "ack" => off[from[r]] + nr[r] = taken[from[r]]
WithinSlice ==
  \A w \in Writers : off[w] <= wlen[w] /\ taken[w] <= wlen[w]

IInv == /\ TypeOK /\ DeliveredInOrder /\ ReportedIsDelivered /\ AnswerIsOwed
        /\ WritesAreSerial /\ Progress /\ WithinSlice
=============================================================================
