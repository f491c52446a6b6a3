------------------------------- MODULE Relay -------------------------------
(***************************************************************************)
(* bufio.Relay (common/bufio/relay.go): two io.Copy loops, one per         *)
(* direction, the calling goroutine's and one more, that stop each other   *)
(* with a read deadline in the past and meet on a channel.                 *)
(*                                                                         *)
(* Data is counted: the peer of connection c has sent peerSent[c] units.   *)
(* A copy is named after the connection it reads.                          *)
(***************************************************************************)
EXTENDS Naturals

CONSTANTS MaxSend,   \* bound on the units each peer sends
          Room       \* units a connection takes before its peer reads them

ASSUME RelayAssumption == MaxSend \in Nat /\ Room \in Nat \ {0}

Conns == {"left", "right"}
Other(c) == IF c = "left" THEN "right" ELSE "left"

VARIABLES
  peerSent,   \* units the peer of c has sent
  ended,      \* connections whose peer will send no more (FIN)
  broken,     \* connections that were reset
  drained,    \* units the peer of c has read
  copy,       \* the copy that reads c: "read", "write", "expire", "join", "over"
  copied,     \* units that copy has read from c
  put,        \* units that copy has written to the other connection
  expired,    \* connections whose read deadline was set to now
  bothClosed, \* Relay has closed both connections
  called      \* deferCall has been called

bothVars == <<peerSent, ended, broken, drained, copy, copied, put, expired, bothClosed, called>>
peerVars == <<peerSent, ended, broken, drained>>

RelayTypeOK ==
  /\ peerSent \in [Conns -> 0..MaxSend] /\ drained \in [Conns -> 0..MaxSend]
  /\ copied \in [Conns -> 0..MaxSend] /\ put \in [Conns -> 0..MaxSend]
  /\ ended \in SUBSET Conns /\ broken \in SUBSET Conns /\ expired \in SUBSET Conns
  /\ copy \in [Conns -> {"read", "write", "expire", "join", "over"}]
  /\ bothClosed \in BOOLEAN /\ called \in BOOLEAN

RelayInit ==
  /\ peerSent = [c \in Conns |-> 0] /\ drained = [c \in Conns |-> 0]
  /\ copied = [c \in Conns |-> 0] /\ put = [c \in Conns |-> 0]
  /\ ended = {} /\ broken = {} /\ expired = {}
  /\ copy = [c \in Conns |-> "read"]
  /\ bothClosed = FALSE /\ called = FALSE

-----------------------------------------------------------------------------
(* The peers.                                                              *)

PeerSends(c) ==
  /\ c \notin ended \cup broken /\ peerSent[c] < MaxSend
  /\ peerSent' = [peerSent EXCEPT ![c] = @ + 1]
  /\ UNCHANGED <<ended, broken, drained, copy, copied, put, expired, bothClosed, called>>

PeerEnds(c) ==
  /\ c \notin ended \cup broken
  /\ ended' = ended \cup {c}
  /\ UNCHANGED <<peerSent, broken, drained, copy, copied, put, expired, bothClosed, called>>

PeerBreaks(c) ==
  /\ c \notin broken
  /\ broken' = broken \cup {c}
  /\ UNCHANGED <<peerSent, ended, drained, copy, copied, put, expired, bothClosed, called>>

PeerDrains(c) ==
  /\ c \notin broken /\ drained[c] < put[Other(c)]
  /\ drained' = [drained EXCEPT ![c] = @ + 1]
  /\ UNCHANGED <<peerSent, ended, broken, copy, copied, put, expired, bothClosed, called>>

-----------------------------------------------------------------------------
(* io.Copy(Other(c), c).                                                   *)

\* Read returns data.  A websocket may return what it has buffered even after its
\* read deadline; a TCP connection does not.
CopyRead(c) ==
  /\ copy[c] = "read" /\ copied[c] < peerSent[c] /\ c \notin broken
  /\ copied' = [copied EXCEPT ![c] = @ + 1]
  /\ copy' = [copy EXCEPT ![c] = "write"]
  /\ UNCHANGED <<peerVars, put, expired, bothClosed, called>>

\* Read fails: end of the stream, reset, or the deadline.
CopyReadFails(c) == (c \in ended /\ copied[c] = peerSent[c]) \/ c \in broken \/ c \in expired

CopyReadEnds(c) ==
  /\ copy[c] = "read"
  /\ CopyReadFails(c)
  /\ copy' = [copy EXCEPT ![c] = "expire"]
  /\ UNCHANGED <<peerVars, copied, put, expired, bothClosed, called>>

\* io.Copy reads again once its buffer is written.
AfterWrite == "read"

\* Write blocks while the destination has no room; no deadline is set for it.
CopyWrite(c) ==
  /\ copy[c] = "write"
  /\ IF Other(c) \in broken
       THEN copy' = [copy EXCEPT ![c] = "expire"] /\ UNCHANGED put
       ELSE /\ put[c] - drained[Other(c)] < Room
            /\ put' = [put EXCEPT ![c] = @ + 1]
            /\ copy' = [copy EXCEPT ![c] = AfterWrite]
  /\ UNCHANGED <<peerVars, copied, expired, bothClosed, called>>

\* SetReadDeadline(time.Now()) on the destination, whose copy is the other one.
ExpiredNot(c) == expired  \* mutant: the other copy is not stopped
Expired(c) == expired \cup {Other(c)}

CopyExpires(c) ==
  /\ copy[c] = "expire"
  /\ expired' = Expired(c)
  /\ copy' = [copy EXCEPT ![c] = "join"]
  /\ UNCHANGED <<peerVars, copied, put, bothClosed, called>>

\* The caller, which copies from left to right, takes the other's error from ch.
BothJoinedNot == copy["left"] = "join"  \* mutant: the caller does not wait
BothJoined == copy["left"] = "join" /\ copy["right"] = "join"

\* <-ch, then the deferred function closes both connections.
Join ==
  /\ ~bothClosed
  /\ BothJoined
  /\ bothClosed' = TRUE
  /\ copy' = [c \in Conns |-> IF copy[c] = "join" THEN "over" ELSE copy[c]]
  /\ broken' = Conns
  /\ UNCHANGED <<peerSent, ended, drained, copied, put, expired, called>>

DeferCall ==
  /\ bothClosed /\ ~called
  /\ called' = TRUE
  /\ UNCHANGED <<peerVars, copy, copied, put, expired, bothClosed>>

CopyStep(c) == CopyRead(c) \/ CopyReadEnds(c) \/ CopyWrite(c) \/ CopyExpires(c)

RelayNext ==
  \/ \E c \in Conns : PeerSends(c) \/ PeerEnds(c) \/ PeerBreaks(c) \/ PeerDrains(c) \/ CopyStep(c)
  \/ Join \/ DeferCall

\* The goroutines run, and the peers read what they are sent.
RelayFairness ==
  /\ \A c \in Conns : WF_bothVars(CopyStep(c)) /\ WF_bothVars(PeerDrains(c))
  /\ WF_bothVars(Join) /\ WF_bothVars(DeferCall)

-----------------------------------------------------------------------------
(* Properties.                                                             *)

\* Relay closes a connection only when neither copy uses it any more, and then all
\* that a copy had read it has also written, unless the destination was reset.
ClosedAfterTheLastWrite ==
  [][bothClosed' /\ ~bothClosed =>
       \A c \in Conns : copy'[c] = "over" /\ (copied[c] = put[c] \/ Other(c) \in broken)]_bothVars

\* When one direction is over, Relay returns and deferCall is called, as long as the
\* peers read: a copy that waits for data is woken by its deadline.
OneEndEndsBoth == (ended \cup broken # {}) ~> called
=============================================================================
