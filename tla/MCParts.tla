------------------------------ MODULE MCParts ------------------------------
(* Model checking instance of the parts that work by themselves: the skip  *)
(* list, the LRU cache, the way of a destination, the SOCKS handshake, the *)
(* records of ssr/protocol in each direction, ssr/obfs, the sealed         *)
(* connections of shadowsocks, and the padded writer of anytls.  A         *)
(* behaviour is one of one of them.                                        *)
EXTENDS SkipList, LruCache, Destination, SocksHandshake, SsrProtocol, Obfs, Shadow, Padding, TLC

Symmetry == Permutations(LruKeys)

\* A limit in size; and one in age, where the clone has a limit in size besides.
MCOptions ==
  {[maxAge |-> 0, maxSize |-> [x \in Caches |-> 2], updateAgeOnGet |-> FALSE, staleReturn |-> FALSE],
   [maxAge |-> 1, maxSize |-> [x \in Caches |-> IF x = "c" THEN 0 ELSE 2], updateAgeOnGet |-> TRUE, staleReturn |-> FALSE]}

\* Names and passwords of zero, one and two bytes; the first and the last are known.
MCLogins == {<<<<7>>, <<8>>>>, <<<<7>>, <<9, 9>>>>, <<<<>>, <<8>>>>, <<<<7>>, <<>>>>, <<<<3, 3>>, <<1, 2>>>>}
MCAccounts == {<<<<7>>, <<8>>>>, <<<<3, 3>>, <<1, 2>>>>}

\* IPv4, names of two bytes and of none, IPv6, and a type that does not exist.
MCAddresses == {<<1, 10, 0, 0, 1, 0, 80>>, <<3, 2, 97, 98, 1, 187>>, <<3, 0, 0, 80>>,
                <<4>> \o [i \in 1 .. 16 |-> i] \o <<0, 80>>, <<2, 0, 0>>}

\* The shape of the default scheme with small sizes; one with a reversed range, one that
\* is skipped and a check mark in front; and one that is refused.  None has a range of
\* 64 KiB or more or a check mark for packet 0: these the code accepts too, and
\* FramesSurvivePadding does not hold for them.
MCSchemes ==
  {[stop |-> 3, ranges |-> (0 :> <<<<3, 3>>>>) @@ (1 :> <<<<20, 22>>>>) @@
      (2 :> <<<<5, 5>>, <<CheckMark>>, <<16, 18>>, <<2, 2>>, <<CheckMark>>, <<9, 9>>>>)],
   [stop |-> 3, ranges |-> (1 :> <<<<12, 10>>, <<0, 5>>, <<7, 7>>>>) @@ (2 :> <<<<CheckMark>>, <<5, 5>>>>)],
   [ranges |-> (1 :> <<<<1, 1>>>>)]}
\* A client starts with a scheme that was accepted.
MCStarts == {s \in MCSchemes : "stop" \in DOMAIN s}

VARIABLE part

\* All of S for part p, one element of it for the others.
For(p, S) == IF part = p THEN S ELSE {CHOOSE x \in S : TRUE}

MCInit ==
  /\ part \in {"list", "lru", "trip", "socks", "encode", "decode", "obfs", "shadow", "padding"}
  /\ ListInit
  /\ LruInit(For("lru", MCOptions))
  /\ TripInit(For("trip", Trips))
  /\ SocksInit(For("socks", Handshakes))
  /\ SsrInit(IF part = "encode" THEN Protocols ELSE For("decode", Protocols))
  /\ ObfsInit(For("obfs", {"tls12", "random_head", "http"}))
  /\ ShadowInit(For("shadow", {"aead", "stream"}))
  /\ PadInit(For("padding", MCStarts), 4)

MCNext ==
  /\ UNCHANGED <<part, trip>>
  /\ \/ part = "list" /\ ListNext /\ UNCHANGED <<lruVars, socksVars, ssrVars, obfsVars, shadowVars, padVars>>
     \/ part = "lru" /\ LruNext /\ UNCHANGED <<listVars, socksVars, ssrVars, obfsVars, shadowVars, padVars>>
     \/ part = "socks" /\ SocksNext /\ UNCHANGED <<listVars, lruVars, ssrVars, obfsVars, shadowVars, padVars>>
     \/ part = "encode" /\ Encodes /\ UNCHANGED <<listVars, lruVars, socksVars, obfsVars, shadowVars, padVars>>
     \/ part = "decode" /\ Decodes /\ UNCHANGED <<listVars, lruVars, socksVars, obfsVars, shadowVars, padVars>>
     \/ part = "obfs" /\ ObfsNext /\ UNCHANGED <<listVars, lruVars, socksVars, ssrVars, shadowVars, padVars>>
     \/ part = "shadow" /\ ShadowNext /\ UNCHANGED <<listVars, lruVars, socksVars, ssrVars, obfsVars, padVars>>
     \/ part = "padding" /\ PadNext /\ UNCHANGED <<listVars, lruVars, socksVars, ssrVars, obfsVars, shadowVars>>

MCSpec == MCInit /\ [][MCNext]_<<part, trip, listVars, lruVars, socksVars, ssrVars, obfsVars, shadowVars, padVars>>
=============================================================================
