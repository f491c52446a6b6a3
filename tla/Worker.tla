------------------------------- MODULE Worker -------------------------------
(* The worker servers as a whole: a request is routed by its headers, path *)
(* and parameters, and the handler it is routed to runs on: the mux        *)
(* websocket (WorkerMux), a piped websocket (WorkerDirect) or, in deno.ts, *)
(* the pairing of connectors with agents (WorkerPair).                     *)
EXTENDS WorkerMux, WorkerPair, WorkerDirect

VARIABLES route         \* where the request went, "none" before it came

workerVars == <<route, muxVars, pairVars, directVars>>

\* What the routing looks at: upgrade: the Upgrade header is websocket;
\* host: there is an x-real-host header; url: the path holds a full URL.
WebRequests == [upgrade : BOOLEAN, host : BOOLEAN, path : {"url", "/api/ssh", "/api/speed", "other"},
                rule : {"manager", "Connector", "Agent", "other"},
                mode : {"direct", "directMux", "forward", "forwardMux", "other"}]

\* websocket() of cloud.js: only the direct modes.
CloudWebsocket(q) == CASE q.mode = "direct" -> "cloudDirect"
                       [] q.mode = "directMux" -> "mux"
                       [] OTHER -> "answered"

\* fetch() of cloud.js: proxied first, websockets last.
CloudFetch(q) == IF q.host \/ q.path = "url" \/ ~q.upgrade THEN "answered"
                 ELSE CASE q.path = "/api/ssh" -> CloudWebsocket(q)
                        [] q.path = "/api/speed" -> "speed"
                        [] OTHER -> "answered"

\* app.get("/api/ssh") of deno.ts.
DenoSsh(q) ==
  IF ~q.upgrade THEN "answered"
  ELSE IF q.rule \in {"Connector", "Agent"}
  THEN CASE q.mode = "direct" -> "denoDirect"
         [] q.mode = "directMux" -> "mux"
         [] q.mode \in {"forward", "forwardMux"} -> "pair"
         [] OTHER -> "answered"
  ELSE IF q.rule = "manager" THEN "pair" ELSE "answered"

\* Every other path of deno.ts: a websocket is relayed, the rest is proxied.
DenoAny(q) == IF q.upgrade THEN "relay" ELSE "answered"

DenoFetch(q) == IF q.path = "/api/ssh" THEN DenoSsh(q) ELSE DenoAny(q)

\* One request per behaviour; "pair" then runs with requests of its own.
Serve ==
  /\ route = "none"
  /\ \E q \in WebRequests :
       /\ route' = IF plat = "cloud" THEN CloudFetch(q) ELSE DenoFetch(q)
       /\ route' \in Kinds => kind' = route'
       /\ route' \notin Kinds => kind' = kind
       /\ blob' \in IF route' \in Kinds THEN BOOLEAN ELSE {FALSE}
       /\ LET relay == route' = "relay" IN
          /\ handler' = IF relay THEN "stream" ELSE handler
          /\ conn' = IF relay THEN "dialing" ELSE conn
  /\ UNCHANGED <<muxVars, pairVars, wire, pend, queue, dials, rgot, socket>>

Init == /\ \E p \in {"cloud", "deno"} : MuxInit(p)
        /\ PairInit
        /\ DirectInit("cloudDirect", FALSE)
        /\ route = "none"

Next == \/ Serve
        \/ route = "mux" /\ MuxNext /\ UNCHANGED <<route, pairVars, directVars>>
        \/ route = "pair" /\ PairNext /\ UNCHANGED <<route, muxVars, directVars>>
        \/ route \in Kinds /\ DirectNext /\ UNCHANGED <<route, muxVars, pairVars>>

FairSpec == Init /\ [][Next]_workerVars /\ MuxFairness /\ PairFairness
=============================================================================
