----------------------------- MODULE Listeners ------------------------------
(* The local listeners (transport/listener.go, listener/mixed, http and    *)
(* socks): an accept loop, a goroutine for each connection, the channel    *)
(* `in' into which a connection is handed over, and the dispatcher with    *)
(* its goroutine handleTCPConn for each of them.                           *)
(*                                                                         *)
(* A plain http request goes out through net/http's client, whose Dial     *)
(* hands one end of a net.Pipe to the dispatcher: a job is for the         *)
(* connection itself or for that pipe.  The relay of a job (module Relay)  *)
(* is one state here.                                                      *)
EXTENDS Naturals, Sequences

CONSTANTS Clients,      \* connections that may arrive
          QueueCap,     \* capacity of `in', in the code 100
          MaxRequests   \* bound on the http requests of one connection

ASSUME ListenerAssumption == QueueCap \in Nat \ {0} /\ MaxRequests \in Nat

Kinds == {"mixed", "http", "socks"}
Ways == {"conn", "pipe"}
NoPipe == "none"

VARIABLES kind,         \* the listener a connection comes to
          shut,         \* the listeners are closed
          place,        \* where the goroutine of a connection is
          there,        \* the client has not gone away
          open,         \* the connection is open at our end
          more,         \* keepAlive of the request being served
          requests,     \* requests so far
          queue,        \* in
          job,          \* handleTCPConn, for a connection or its pipe
          pipe,         \* our end of the pipe: "none", "busy", "idle", "closed"
          crashed       \* a goroutine has panicked

lstVars == <<kind, shut, place, there, open, more, requests, queue, job, pipe, crashed>>

ListenersInit(arrivals) ==
  /\ kind \in arrivals /\ shut = FALSE
  /\ place = [c \in Clients |-> "none"] /\ there = [c \in Clients |-> FALSE] /\ open = [c \in Clients |-> FALSE]
  /\ more = [c \in Clients |-> FALSE] /\ requests = [c \in Clients |-> 0] /\ queue = <<>>
  /\ job = [c \in Clients |-> [w \in Ways |-> "none"]] /\ pipe = [c \in Clients |-> NoPipe] /\ crashed = FALSE

Goes(c, p) == ~crashed /\ place' = [place EXCEPT ![c] = p]
CloseConn(c) == open' = [open EXCEPT ![c] = FALSE]

-----------------------------------------------------------------------------
(* The clients and the listeners.                                          *)

\* AcceptConn; http reads a request at once, the others look at the first byte.
AcceptConn(c) ==
  /\ ~shut /\ place[c] = "none" /\ Goes(c, IF kind[c] = "http" THEN "request" ELSE "peek")
  /\ there' = [there EXCEPT ![c] = TRUE] /\ open' = [open EXCEPT ![c] = TRUE]
  /\ UNCHANGED <<kind, shut, more, requests, queue, job, pipe, crashed>>

\* Listener.Close: the accept loop ends, what was accepted goes on.
ListenerClose ==
  /\ ~shut /\ ~crashed /\ shut' = TRUE
  /\ UNCHANGED <<kind, place, there, open, more, requests, queue, job, pipe, crashed>>

ClientLeavesConn(c) ==
  /\ there[c] /\ there' = [there EXCEPT ![c] = FALSE]
  /\ UNCHANGED <<kind, shut, place, open, more, requests, queue, job, pipe, crashed>>

-----------------------------------------------------------------------------
(* The goroutine of a connection.                                          *)

\* Peek(1): socks, http for mixed, and nothing else for socks.
Peek(c, version5) ==
  /\ place[c] = "peek"
  /\ IF version5 THEN Goes(c, "socks") /\ UNCHANGED open
     ELSE IF kind[c] = "mixed" THEN Goes(c, "request") /\ UNCHANGED open
     ELSE Goes(c, "done") /\ CloseConn(c)
  /\ UNCHANGED <<kind, shut, there, more, requests, queue, job, pipe, crashed>>

\* Peek fails: only the socks listener closes the connection.
PeekFails(c) ==
  /\ place[c] = "peek" /\ ~there[c] /\ Goes(c, "done")
  /\ IF kind[c] = "socks" THEN CloseConn(c) ELSE UNCHANGED open
  /\ UNCHANGED <<kind, shut, there, more, requests, queue, job, pipe, crashed>>

\* HandleSocks5: handed over, drained, or closed.
HandleSocks5(c, outcome) ==
  /\ place[c] = "socks" /\ (~there[c] => outcome = "error")
  /\ CASE outcome = "connect" -> Goes(c, "send") /\ UNCHANGED open
       [] outcome = "udp" -> Goes(c, "drain") /\ UNCHANGED open
       [] outcome = "error" -> Goes(c, "done") /\ CloseConn(c)
  /\ UNCHANGED <<kind, shut, there, more, requests, queue, job, pipe, crashed>>

\* A mutant: the connection is not closed when the client has gone.
UDPAssociateStays(c) ==
  /\ place[c] = "drain" /\ ~there[c] /\ Goes(c, "done") /\ UNCHANGED open
  /\ UNCHANGED <<kind, shut, there, more, requests, queue, job, pipe, crashed>>

UDPAssociateEnds(c) ==
  /\ place[c] = "drain" /\ ~there[c] /\ Goes(c, "done") /\ CloseConn(c)
  /\ UNCHANGED <<kind, shut, there, more, requests, queue, job, pipe, crashed>>

\* http.HandleConn: ReadRequest, and what is asked for.  A plain request dials, unless
\* the client's transport has an idle pipe to the host.
ReadRequest(c, what, keepAlive) ==
  /\ place[c] = "request" /\ requests[c] < MaxRequests /\ there[c]
  /\ requests' = [requests EXCEPT ![c] = @ + 1] /\ more' = [more EXCEPT ![c] = keepAlive]
  /\ \/ what = "connect" /\ Goes(c, "established") /\ UNCHANGED pipe
     \/ what = "upgrade" /\ Goes(c, "upgrade") /\ UNCHANGED pipe
     \/ what = "refused" /\ Goes(c, "respond") /\ UNCHANGED pipe
     \/ what = "plain" /\ pipe[c] = "idle" /\ Goes(c, "do") /\ pipe' = [pipe EXCEPT ![c] = "busy"]
     \/ what = "plain" /\ pipe[c] \in {NoPipe, "closed"} /\ job[c]["pipe"] \in {"none", "over"}
        /\ Goes(c, "dial") /\ UNCHANGED pipe
  /\ UNCHANGED <<kind, shut, there, open, queue, job, crashed>>

ReadRequestFails(c) ==
  /\ place[c] = "request" /\ (~there[c] \/ requests[c] = MaxRequests) /\ Goes(c, "end")
  /\ UNCHANGED <<kind, shut, there, open, more, requests, queue, job, pipe, crashed>>

\* The answer to CONNECT.
ConnectionEstablished(c) ==
  /\ place[c] = "established"
  /\ \/ Goes(c, "send")
     \/ ~there[c] /\ Goes(c, "end")
  /\ UNCHANGED <<kind, shut, there, open, more, requests, queue, job, pipe, crashed>>

\* A mutant: after the hand-over of CONNECT the loop is left with break, not return.
SendConnBreak(c) ==
  /\ place[c] = "send" /\ Len(queue) < QueueCap /\ queue' = Append(queue, <<c, "conn">>) /\ Goes(c, "end")
  /\ UNCHANGED <<kind, shut, there, open, more, requests, job, pipe, crashed>>

\* in <-: waits for room; the connection is the dispatcher's from here on.  The
\* deferred CloseIdleConnections closes an idle pipe.
SendConn(c) ==
  /\ place[c] = "send" /\ Len(queue) < QueueCap /\ queue' = Append(queue, <<c, "conn">>) /\ Goes(c, "handed")
  /\ pipe' = IF pipe[c] = "idle" THEN [pipe EXCEPT ![c] = "closed"] ELSE pipe
  /\ UNCHANGED <<kind, shut, there, open, more, requests, job, crashed>>

\* Dial of newClient: a pipe, one end of which is handed over.
SendPipe(c) ==
  /\ place[c] = "dial" /\ Len(queue) < QueueCap /\ queue' = Append(queue, <<c, "pipe">>) /\ Goes(c, "do")
  /\ pipe' = [pipe EXCEPT ![c] = "busy"] /\ job' = [job EXCEPT ![c]["pipe"] = "none"]
  /\ UNCHANGED <<kind, shut, there, open, more, requests, crashed>>

\* client.Do: the answer, or 502 when the other end of the pipe is closed.  Nothing
\* else ends it: no timeout, and a client that leaves is not noticed.
DoReturns(c) ==
  /\ place[c] = "do" /\ Goes(c, "respond")
  /\ \/ job[c]["pipe"] = "relay" /\ UNCHANGED pipe
     \/ job[c]["pipe"] = "over" /\ pipe' = [pipe EXCEPT ![c] = "closed"]
  /\ UNCHANGED <<kind, shut, there, open, more, requests, queue, job, crashed>>

\* resp.Write: to the end, and the transport has its pipe back; or it fails and the
\* body is never closed.
Respond(c) ==
  /\ place[c] = "respond"
  /\ \/ /\ Goes(c, IF more[c] THEN "request" ELSE "end")
        /\ pipe' = IF pipe[c] = "busy" THEN [pipe EXCEPT ![c] = IF job[c]["pipe"] = "relay" THEN "idle" ELSE "closed"]
                   ELSE pipe
     \/ ~there[c] /\ Goes(c, "end") /\ UNCHANGED pipe
  /\ UNCHANGED <<kind, shut, there, open, more, requests, queue, job, crashed>>

EndConn(c) ==
  /\ place[c] = "end" /\ Goes(c, "done") /\ CloseConn(c)
  /\ pipe' = IF pipe[c] = "idle" THEN [pipe EXCEPT ![c] = "closed"] ELSE pipe
  /\ UNCHANGED <<kind, shut, there, more, requests, queue, job, crashed>>

\* handleUpgrade dials by itself; its goroutine uses the connection even if there is none.
Upgrade(c) ==
  /\ place[c] = "upgrade" /\ ~crashed
  /\ \/ crashed' = TRUE /\ UNCHANGED <<place, open, pipe>>
     \/ /\ place' = [place EXCEPT ![c] = "done"] /\ CloseConn(c) /\ UNCHANGED crashed
        /\ pipe' = IF pipe[c] = "idle" THEN [pipe EXCEPT ![c] = "closed"] ELSE pipe
  /\ UNCHANGED <<kind, shut, there, more, requests, queue, job>>

-----------------------------------------------------------------------------
(* The dispatcher and handleTCPConn.                                       *)

SetJob(c, w, s) == ~crashed /\ job' = [job EXCEPT ![c][w] = s]

Dispatch ==
  /\ queue # <<>> /\ SetJob(Head(queue)[1], Head(queue)[2], "dial") /\ queue' = Tail(queue)
  /\ UNCHANGED <<kind, shut, place, there, open, more, requests, pipe, crashed>>

Dials(c, w) ==
  /\ job[c][w] = "dial" /\ SetJob(c, w, "relay")
  /\ UNCHANGED <<kind, shut, place, there, open, more, requests, queue, pipe, crashed>>

\* The deferred Close, or Relay's.
JobCloses(c, w) ==
  /\ SetJob(c, w, "over")
  /\ open' = IF w = "conn" THEN [open EXCEPT ![c] = FALSE] ELSE open
  /\ pipe' = IF w = "pipe" /\ pipe[c] = "idle" THEN [pipe EXCEPT ![c] = "closed"] ELSE pipe
  /\ UNCHANGED <<kind, shut, place, there, more, requests, queue, crashed>>

\* Metadata that is not valid, or a dial that fails within its five seconds.
JobDialFails(c, w) == job[c][w] = "dial" /\ JobCloses(c, w)

\* The relay ends when one of its ends does.
RemoteEnds(c, w) == job[c][w] = "relay" /\ JobCloses(c, w)
LocalEnds(c, w) == /\ job[c][w] = "relay" /\ (IF w = "conn" THEN ~there[c] ELSE pipe[c] = "closed")
                   /\ JobCloses(c, w)

Serves(c) ==
  \/ \E b \in BOOLEAN : Peek(c, b)
  \/ PeekFails(c) \/ (\E o \in {"connect", "udp", "error"} : HandleSocks5(c, o)) \/ UDPAssociateEnds(c)
  \/ ReadRequestFails(c) \/ ConnectionEstablished(c) \/ SendConn(c) \/ SendPipe(c) \/ DoReturns(c) \/ Respond(c)
  \/ EndConn(c) \/ Upgrade(c)

ListenersNext ==
  \/ ListenerClose \/ Dispatch
  \/ \E c \in Clients :
       \/ AcceptConn(c) \/ ClientLeavesConn(c) \/ Serves(c)
       \/ \E what \in {"connect", "upgrade", "refused", "plain"}, k \in BOOLEAN : ReadRequest(c, what, k)
       \/ \E w \in Ways : Dials(c, w) \/ JobDialFails(c, w) \/ RemoteEnds(c, w) \/ LocalEnds(c, w)

\* Goroutines run; a dial ends; the other end of a relay that carries a request answers
\* it or breaks (net/http would wait for ever).
ListenersFairness ==
  /\ WF_lstVars(Dispatch)
  /\ \A c \in Clients : WF_lstVars(Serves(c)) /\ SF_lstVars(SendConn(c)) /\ SF_lstVars(SendPipe(c))
  /\ \A c \in Clients, w \in Ways : WF_lstVars(Dials(c, w) \/ JobDialFails(c, w)) /\ WF_lstVars(LocalEnds(c, w))

-----------------------------------------------------------------------------
(* Properties.                                                             *)

Queued(c, w) == <<c, w>> \in {queue[i] : i \in 1 .. Len(queue)}
Busy(c, w) == Queued(c, w) \/ job[c][w] \in {"dial", "relay"}

\* A connection has one owner, which closes it: it stays open for the dispatcher it was
\* handed to, its own goroutine has left it alone since, and nobody else serves it.
OneOwner ==
  \A c \in Clients :
    /\ Busy(c, "conn") => open[c] /\ place[c] = "handed"
    /\ (open[c] /\ ~crashed /\ place[c] = "handed") => Busy(c, "conn")
    /\ ~(Queued(c, "conn") /\ job[c]["conn"] # "none")

\* When a client leaves, its connection is closed, wherever it is by then: before its
\* first byte, in the queue, behind a request that is under way, in a relay.  Two
\* exceptions: mixed's Peek that fails returns without a Close, and a panic ends all.
LeftIsClosed ==
  \A c \in Clients : (place[c] # "none" /\ ~there[c]) ~>
                     (~open[c] \/ crashed \/ (kind[c] = "mixed" /\ requests[c] = 0 /\ place[c] = "done"))
=============================================================================
