---------------------------- MODULE WorkerDirect ----------------------------
(* One websocket of the worker servers piped to one connection: direct     *)
(* mode of cloud.js and deno.ts, /api/speed of cloud.js and the websocket  *)
(* relay of deno.ts.  Messages are numbered in the order the client sends  *)
(* them; in direct and speed mode message 1 carries the address.           *)
EXTENDS Integers, Sequences, FiniteSets, SequencesExt

CONSTANTS MaxMsg        \* bound: messages the client sends

VARIABLES kind,         \* "cloudDirect", "denoDirect", "speed" or "relay"
          blob,         \* payloads are Blobs: toBytes takes more than a microtask
          wire,         \* messages delivered to an onmessage so far
          handler,      \* the current onmessage: "address" or "stream"
          pend,         \* messages in toBytes, with the handler that took them
          queue,        \* messages enqueued on the readable side
          dials,        \* the messages an address was parsed from
          conn,         \* "none", "dialing", "open", "ended" or "failed"
          rgot,         \* messages written to the connection
          socket        \* "open" or "closed" by the worker

directVars == <<kind, blob, wire, handler, pend, queue, dials, conn, rgot, socket>>

Kinds == {"cloudDirect", "denoDirect", "speed", "relay"}

\* The relay pipes from the start and dials the other websocket at once.
DirectInit(k, b) ==
  /\ kind = k /\ blob = b /\ wire = 0 /\ pend = {} /\ queue = <<>> /\ dials = <<>>
  /\ handler = IF k = "relay" THEN "stream" ELSE "address"
  /\ conn = IF k = "relay" THEN "dialing" ELSE "none"
  /\ rgot = <<>> /\ socket = "open"

\* The address is parsed from message m, the socket is wrapped, which
\* replaces its onmessage, and the connection is dialled.
Dial(m) == /\ handler' = "stream" /\ dials' = Append(dials, m) /\ conn' = "dialing"
           /\ UNCHANGED <<queue, socket>>

CloudAddress(m) == kind = "cloudDirect" /\ Dial(m)

\* deno.ts pipes once Deno.connect has resolved; the wrapped socket already
\* collects.
DenoAddress(m) == kind = "denoDirect" /\ Dial(m)

\* speed: a request that is not for TCP is closed.
SpeedAddress(m) ==
  /\ kind = "speed"
  /\ \/ Dial(m)
     \/ handler' = "stream" /\ socket' = "closed" /\ UNCHANGED <<queue, dials, conn>>

Address(m) == CloudAddress(m) \/ DenoAddress(m) \/ SpeedAddress(m)

\* WebSocketStream: onmessage of the wrapped socket.
Enqueue(m) == queue' = Append(queue, m) /\ UNCHANGED <<handler, dials, conn, socket>>

\* A mutant: the relay takes messages only once its other side is open.
TakeWhenOpen(m, h) ==
  IF h = "stream"
  THEN IF conn = "dialing" THEN UNCHANGED <<queue, handler, dials, conn, socket>> ELSE Enqueue(m)
  ELSE Address(m)

\* What the handler h that took message m does once it has the bytes.
Take(m, h) == IF h = "stream" THEN Enqueue(m) ELSE Address(m)

\* A message event.  deno.ts handles it at once; cloud.js awaits toBytes,
\* which for a Blob lets the next event in before it goes on.
Message ==
  /\ wire < MaxMsg /\ socket = "open" /\ wire' = wire + 1
  /\ IF blob /\ kind \in {"cloudDirect", "speed"}
     THEN pend' = pend \cup {<<wire + 1, handler>>} /\ UNCHANGED <<handler, queue, dials, conn, socket>>
     ELSE pend' = pend /\ Take(wire + 1, handler)
  /\ UNCHANGED <<kind, blob, rgot>>

ToBytesDone == \E p \in pend :
  /\ pend' = pend \ {p} /\ Take(p[1], p[2])
  /\ UNCHANGED <<kind, blob, wire, rgot>>

\* The connection is there and both pipes run, or the dial fails.
Dialled ==
  /\ conn = "dialing" /\ conn' \in {"open", "failed"}
  /\ UNCHANGED <<kind, blob, wire, handler, pend, queue, dials, rgot, socket>>

\* readable.pipeTo(remote.writable)
PipeToRemote ==
  /\ conn = "open" /\ queue # <<>>
  /\ rgot' = Append(rgot, Head(queue)) /\ queue' = Tail(queue)
  /\ UNCHANGED <<kind, blob, wire, handler, pend, dials, conn, socket>>

RemoteCloses ==
  /\ conn = "open" /\ conn' = "ended"
  /\ UNCHANGED <<kind, blob, wire, handler, pend, queue, dials, rgot, socket>>

\* remote.readable ends: pipeTo closes the writable side, which closes the
\* socket; after a failed dial the catch or the finally does.
SocketCloses ==
  /\ conn \in {"ended", "failed"} /\ socket = "open" /\ socket' = "closed"
  /\ UNCHANGED <<kind, blob, wire, handler, pend, queue, dials, conn, rgot>>

DirectNext == \/ Message \/ ToBytesDone \/ Dialled \/ PipeToRemote \/ RemoteCloses \/ SocketCloses

\* A connection gets the client's messages after the address, in order and
\* without a gap, and the address is read once; with Blob payloads in cloud.js
\* the await in onmessage breaks this and the property excepts it.
PipedInOrder ==
  ~(blob /\ kind \in {"cloudDirect", "speed"}) =>
     /\ Len(dials) <= 1
     /\ LET from == IF kind = "relay" THEN 1 ELSE 2 IN
        rgot \o queue = [j \in 1 .. Len(rgot) + Len(queue) |-> from + j - 1]
=============================================================================
