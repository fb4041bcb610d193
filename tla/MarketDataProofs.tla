---------------------------- MODULE MarketDataProofs ----------------------------
(***************************************************************************)
(* Machine-checked facts about MarketData, for every number of processes,  *)
(* requests and retries and every length of time.                          *)
(***************************************************************************)
EXTENDS MarketData, FiniteSetTheorems, TLAPS

-----------------------------------------------------------------------------
(* The table of requests.                                                    *)

PartNames ==
  {"quote", "history", "commodity", "forex", "index", "search", "factors", "ff5", "macro",
   "tickers", "facts", "rates", "energy"}

LEMMA RequestDomain ==
  DOMAIN Requests = {"get_quote", "get_quotes", "get_history", "get_commodity", "get_forex", "get_index",
    "search", "get_factors", "factor_decomposition", "get_macro_series", "get_risk_free_rate",
    "get_company_facts", "get_cad_series", "get_energy_price", "get_market_snapshot"}
  BY DEF Requests, PriceRequests, CommodityRequests, SearchRequest, FactorRequests, DecompositionRequest,
         SeriesRequests, FactsRequest, FirstSourceRequests, SnapshotRequest

\* What each request looks up.
LEMMA RequestTable ==
  /\ Requests["get_quote"] = <<"quote">>
  /\ Requests["get_quotes"] = <<"quote", "quote">>
  /\ Requests["get_history"] = <<"history">>
  /\ Requests["get_commodity"] = <<"commodity">>
  /\ Requests["get_forex"] = <<"forex">>
  /\ Requests["get_index"] = <<"index">>
  /\ Requests["search"] = <<"search">>
  /\ Requests["get_factors"] = <<"factors">>
  /\ Requests["factor_decomposition"] = <<"ff5">>
  /\ Requests["get_macro_series"] = <<"macro">>
  /\ Requests["get_risk_free_rate"] = <<"macro">>
  /\ Requests["get_company_facts"] = <<"tickers", "facts">>
  /\ Requests["get_cad_series"] = <<"rates">>
  /\ Requests["get_energy_price"] = <<"energy">>
  /\ Requests["get_market_snapshot"] = <<"quote", "commodity", "forex", "index", "macro">>
  BY DEF Requests, PriceRequests, CommodityRequests, SearchRequest, FactorRequests, DecompositionRequest,
         SeriesRequests, FactsRequest, FirstSourceRequests, SnapshotRequest

LEMMA RequestsTyped ==
  ASSUME NEW r \in DOMAIN Requests
  PROVE  Requests[r] \in Seq(PartNames) /\ Requests[r] # <<>>
<1>1. ASSUME NEW a \in PartNames PROVE <<a>> \in Seq(PartNames) /\ <<a>> # <<>>
  OBVIOUS
<1>2. ASSUME NEW a \in PartNames, NEW b \in PartNames PROVE <<a, b>> \in Seq(PartNames) /\ <<a, b>> # <<>>
  OBVIOUS
<1>3. /\ <<"quote", "commodity", "forex", "index", "macro">> \in Seq(PartNames)
      /\ <<"quote", "commodity", "forex", "index", "macro">> # <<>>
  BY DEF PartNames
<1>4. \/ Requests[r] = <<"quote", "commodity", "forex", "index", "macro">>
      \/ Requests[r] = <<"quote", "quote">> \/ Requests[r] = <<"tickers", "facts">>
      \/ \E a \in PartNames : Requests[r] = <<a>>
  BY RequestDomain, RequestTable DEF PartNames
<1>5. CASE \E a \in PartNames : Requests[r] = <<a>>
  BY <1>1, <1>5
<1>6. CASE Requests[r] = <<"quote", "quote">> \/ Requests[r] = <<"tickers", "facts">>
  <2>1. CASE Requests[r] = <<"quote", "quote">>
    BY <1>2, <2>1 DEF PartNames
  <2>2. CASE Requests[r] = <<"tickers", "facts">>
    BY <1>2, <2>2 DEF PartNames
  <2> QED
    BY <1>6, <2>1, <2>2
<1> QED
  BY <1>3, <1>4, <1>5, <1>6

\* The keys of the lookups; those of Yahoo are behind the gate.
LEMMA PartKeys ==
  ASSUME NEW part \in PartNames
  PROVE  /\ KeyOf(part) \in Keys
         /\ SourceOf[KeyOf(part)] \in Sources
         /\ SourceOf[KeyOf(part)] = "yahoo" => part \in Gaps
         /\ Ttl[KeyOf(part)] \in Nat \ {0}
         /\ KeyOf(part) = "found" <=> part = "search"
  BY DEF PartNames, KeyOf, Shared, SourceOf, Keys, Sources, Gaps, Ttl

\* A request that ends with its first failure asks one source, and not for the
\* ticker mapping last.
LEMMA OneSource ==
  ASSUME NEW r \in DOMAIN Requests, ~Continues(r),
         NEW p \in ToSet(Requests[r]), NEW q \in ToSet(Requests[r])
  PROVE  /\ Tracked(p) <=> Tracked(q)
         /\ SourceOf[KeyOf(p)] = SourceOf[KeyOf(q)]
         /\ Requests[r][Len(Requests[r])] # "tickers"
<1>1. CASE r = "get_company_facts"
  <2>1. Requests[r] = <<"tickers", "facts">>
    BY <1>1, RequestTable
  <2>2. p \in {"tickers", "facts"} /\ q \in {"tickers", "facts"}
    BY <2>1 DEF ToSet
  <2>3. Requests[r][Len(Requests[r])] = "facts"
    BY <2>1
  <2> QED
    BY <2>2, <2>3 DEF Tracked, KeyOf, Shared, SourceOf
<1>2. CASE r # "get_company_facts"
  <2>1. PICK part \in PartNames \ {"tickers"} : Requests[r] = <<part>>
    BY <1>2, RequestDomain, RequestTable DEF Continues, PartNames
  <2>2. p = part /\ q = part /\ Requests[r][Len(Requests[r])] = part
    BY <2>1 DEF ToSet
  <2> QED
    BY <2>1, <2>2
<1> QED
  BY <1>1, <1>2

-----------------------------------------------------------------------------
(* The inductive invariant.                                                  *)

Call ==
  [pc : {"idle", "gate", "look", "evict", "fetch", "store"}, request : DOMAIN Requests \cup {None},
   left : Seq(PartNames), attempt : 0..(MaxRetries - 1), content : Contents \cup {None},
   items : SUBSET Item, got : Nat, missed : Nat, status : {None, "answered", "failed", "raised"},
   cause : {None, "gap", "source", "cache", "unreadable"}]

\* The lookups that are left are the last ones of the request.
LastOf(left, all) ==
  /\ Len(left) <= Len(all)
  /\ \A j \in 1..Len(left) : left[j] = all[Len(all) - Len(left) + j]

\* A call in progress has lookups left and no outcome; what it has seen is of
\* its own request.
CallsShaped ==
  /\ call \in [Processes -> Call]
  /\ \A c \in Processes :
       /\ call[c].pc = "idle" <=> call[c].left = <<>>
       /\ call[c].request = None => call[c].left = <<>> /\ call[c].items = {}
       /\ call[c].request # None => LastOf(call[c].left, Requests[call[c].request])
       /\ call[c].left # <<>> => call[c].status = None /\ call[c].cause = None
       /\ \A i \in call[c].items : \E part \in Parts(c) : i.key = KeyOf(part)
       /\ call[c].pc = "store" => call[c].content \in Contents

\* Entries live as long as their kind does, and none is from the future.
CacheShaped ==
  /\ DOMAIN cache \subseteq Keys
  /\ cache = [k \in DOMAIN cache |-> cache[k]]
  /\ \A k \in DOMAIN cache :
       /\ cache[k] \in Entry
       /\ cache[k].expires = cache[k].stored + Ttl[k]
       /\ cache[k].stored <= now

Shaped ==
  /\ CallsShaped /\ CacheShaped
  /\ now \in 0..MaxTime
  /\ health \in [Processes -> [Sources -> BOOLEAN]]

\* The lookup in hand is one of the request, and the last when none is left.
LEMMA NowKnown ==
  ASSUME CallsShaped, NEW c \in Processes, call[c].left # <<>>
  PROVE  /\ Now(c) \in PartNames
         /\ call[c].request \in DOMAIN Requests
         /\ Now(c) \in ToSet(Requests[call[c].request])
         /\ call[c].request # None
         /\ Parts(c) = ToSet(Requests[call[c].request])
         /\ Tail(call[c].left) \in Seq(PartNames)
         /\ Len(Tail(call[c].left)) = Len(call[c].left) - 1
         /\ LastOf(Tail(call[c].left), Requests[call[c].request])
         /\ Tail(call[c].left) = <<>> =>
              Now(c) = Requests[call[c].request][Len(Requests[call[c].request])]
<1> DEFINE left == call[c].left
           all  == Requests[call[c].request]
<1>1. call[c].request # None /\ call[c].request \in DOMAIN Requests /\ left \in Seq(PartNames)
  BY DEF CallsShaped, Call
<1>2. all \in Seq(PartNames)
  BY <1>1, RequestsTyped
<1>3. LastOf(left, all)
  BY <1>1 DEF CallsShaped
<1> HIDE DEF left, all
<1>4. /\ left # <<>>
      /\ Len(left) \in Nat \ {0} /\ Head(left) = left[1] /\ Head(left) \in PartNames
      /\ Tail(left) \in Seq(PartNames) /\ Len(Tail(left)) = Len(left) - 1
      /\ \A j \in 1..Len(Tail(left)) : Tail(left)[j] = left[j + 1]
  BY <1>1 DEF left
<1>5. Head(left) = all[Len(all) - Len(left) + 1] /\ Len(all) - Len(left) + 1 \in 1..Len(all)
  BY <1>2, <1>3, <1>4 DEF LastOf
<1>6. LastOf(Tail(left), all)
  BY <1>2, <1>3, <1>4 DEF LastOf
<1>7. Tail(left) = <<>> => Len(left) = 1
  BY <1>4
<1>8. Head(left) \in ToSet(all)
  BY <1>2, <1>5 DEF ToSet
<1>9. Tail(left) = <<>> => Head(left) = all[Len(all)]
  BY <1>2, <1>5, <1>7
<1>10. Parts(c) = ToSet(all)
  BY <1>1 DEF Parts, all
<1> QED
  BY <1>1, <1>4, <1>6, <1>8, <1>9, <1>10 DEF left, all, Now

\* A call that goes on to the next lookup, and one that ends.
Continued(c, new) ==
  [pc |-> IF Tail(call[c].left) = <<>> THEN "idle" ELSE "gate",
   request |-> call[c].request, left |-> Tail(call[c].left),
   attempt |-> 0, content |-> None, items |-> call[c].items \cup new,
   got |-> call[c].got + Cardinality(new),
   missed |-> call[c].missed + 1 - Cardinality(new),
   status |-> IF Tail(call[c].left) = <<>> THEN "answered" ELSE call[c].status,
   cause |-> call[c].cause]

Ended(c, status, cause) ==
  [pc |-> "idle", request |-> call[c].request, left |-> <<>>, attempt |-> 0, content |-> None,
   items |-> call[c].items, got |-> call[c].got, missed |-> call[c].missed,
   status |-> status, cause |-> cause]

LEMMA ContinueEffect ==
  ASSUME CallsShaped, NEW c \in Processes, call[c].left # <<>>, NEW new, Continue(c, new)
  PROVE  /\ \A d \in Processes \ {c} : call'[d] = call[d]
         /\ call' = [d \in Processes |-> call'[d]]
         /\ call'[c] = Continued(c, new)
<1>1. call \in [Processes -> Call] /\ call[c] \in Call
  BY DEF CallsShaped
<1>2. call' = [call EXCEPT ![c] = call'[c]]
  BY <1>1 DEF Continue
<1>3. call'[c] = [call[c] EXCEPT !.items = call[c].items \cup new,
                 !.got = call[c].got + Cardinality(new),
                 !.missed = call[c].missed + 1 - Cardinality(new),
                 !.left = Tail(call[c].left), !.attempt = 0, !.content = None,
                 !.pc = IF Tail(call[c].left) = <<>> THEN "idle" ELSE "gate",
                 !.status = IF Tail(call[c].left) = <<>> THEN "answered" ELSE call[c].status]
  BY <1>1 DEF Continue
<1>4. call[c] = [pc |-> call[c].pc, request |-> call[c].request, left |-> call[c].left,
                  attempt |-> call[c].attempt, content |-> call[c].content, items |-> call[c].items,
                  got |-> call[c].got, missed |-> call[c].missed, status |-> call[c].status,
                  cause |-> call[c].cause]
  BY <1>1 DEF Call
<1>5. call'[c] = Continued(c, new)
  BY <1>3, <1>4 DEF Continued
<1>6. /\ \A d \in Processes \ {c} : call'[d] = call[d]
      /\ call' = [d \in Processes |-> call'[d]]
  BY <1>1, <1>2
<1> QED
  BY <1>5, <1>6

LEMMA AnswersEffect ==
  ASSUME CallsShaped, NEW c \in Processes, NEW status, NEW cause, Answers(c, status, cause)
  PROVE  /\ \A d \in Processes \ {c} : call'[d] = call[d]
         /\ call' = [d \in Processes |-> call'[d]]
         /\ call'[c] = Ended(c, status, cause)
<1>1. call \in [Processes -> Call] /\ call[c] \in Call
  BY DEF CallsShaped
<1>2. call' = [call EXCEPT ![c] = call'[c]]
  BY <1>1 DEF Answers
<1>3. call'[c] = [call[c] EXCEPT !.pc = "idle", !.left = <<>>, !.attempt = 0,
                 !.content = None, !.status = status, !.cause = cause]
  BY <1>1 DEF Answers
<1>4. call[c] = [pc |-> call[c].pc, request |-> call[c].request, left |-> call[c].left,
                  attempt |-> call[c].attempt, content |-> call[c].content, items |-> call[c].items,
                  got |-> call[c].got, missed |-> call[c].missed, status |-> call[c].status,
                  cause |-> call[c].cause]
  BY <1>1 DEF Call
<1>5. call'[c] = Ended(c, status, cause)
  BY <1>3, <1>4 DEF Ended
<1>6. /\ \A d \in Processes \ {c} : call'[d] = call[d]
      /\ call' = [d \in Processes |-> call'[d]]
  BY <1>1, <1>2
<1> QED
  BY <1>5, <1>6

\* A lookup adds one item of its own key, or none.
LEMMA ContinueShaped ==
  ASSUME CallsShaped, NEW c \in Processes, call[c].left # <<>>, NEW new, Continue(c, new),
         new = {} \/ \E i \in Item : new = {i} /\ i.key = KeyOf(Now(c))
  PROVE  CallsShaped'
<1>1. /\ \A d \in Processes \ {c} : call'[d] = call[d]
      /\ call' = [d \in Processes |-> call'[d]]
      /\ call'[c] = Continued(c, new)
  BY ContinueEffect
<1>2. Cardinality(new) \in {0, 1}
  BY FS_EmptySet, FS_Singleton
<1>3. call'[c] \in Call
  <2>1. call[c] \in Call /\ Tail(call[c].left) \in Seq(PartNames)
    BY NowKnown DEF CallsShaped
  <2>2. call[c].items \cup new \in SUBSET Item
    BY <2>1 DEF Call
  <2>3. 0 \in 0..(MaxRetries - 1)
    BY DataAssumption
  <2>4. /\ call[c].got + Cardinality(new) \in Nat
        /\ call[c].missed + 1 - Cardinality(new) \in Nat
    BY <1>2, <2>1 DEF Call
  <2> QED
    BY <1>1, <2>1, <2>2, <2>3, <2>4 DEF Call, Continued
<1>4. ASSUME NEW d \in Processes
      PROVE  /\ call'[d].pc = "idle" <=> call'[d].left = <<>>
             /\ call'[d].request = None => call'[d].left = <<>> /\ call'[d].items = {}
             /\ call'[d].request # None => LastOf(call'[d].left, Requests[call'[d].request])
             /\ call'[d].left # <<>> => call'[d].status = None /\ call'[d].cause = None
             /\ call'[d].pc = "store" => call'[d].content \in Contents
  <2>1. CASE d # c
    BY <1>1, <2>1 DEF CallsShaped
  <2>2. CASE d = c
    <3>1. /\ call[c].request # None
          /\ LastOf(Tail(call[c].left), Requests[call[c].request])
      BY NowKnown
    <3>2. call[c].status = None /\ call[c].cause = None
      BY DEF CallsShaped
    <3>3. /\ call'[d].request = call[c].request /\ call'[d].left = Tail(call[c].left)
          /\ call'[d].cause = call[c].cause
      BY <1>1, <2>2 DEF Continued
    <3>4. CASE Tail(call[c].left) = <<>>
      <4>1. call'[d].pc = "idle"
        BY <1>1, <2>2, <3>4 DEF Continued
      <4> QED
        BY <3>1, <3>3, <3>4, <4>1
    <3>5. CASE Tail(call[c].left) # <<>>
      <4>1. call'[d].pc = "gate" /\ call'[d].status = call[c].status
        BY <1>1, <2>2, <3>5 DEF Continued
      <4> QED
        BY <3>1, <3>2, <3>3, <3>5, <4>1
    <3> QED
      BY <3>4, <3>5
  <2> QED
    BY <2>1, <2>2
<1>5. ASSUME NEW d \in Processes, NEW i \in call'[d].items
      PROVE  \E part \in Parts(d)' : i.key = KeyOf(part)
  <2>1. call'[d].request = call[d].request
    BY <1>1 DEF Continued
  <2>2. Parts(d)' = Parts(d)
    BY <2>1 DEF Parts
  <2>3. CASE i \in call[d].items
    BY <2>2, <2>3 DEF CallsShaped
  <2>4. CASE i \notin call[d].items
    <3>1. d = c /\ i \in new
      BY <1>1, <1>5, <2>4 DEF Continued
    <3> QED
      BY <2>2, <3>1, NowKnown
  <2> QED
    BY <2>3, <2>4
<1> QED
  BY <1>1, <1>3, <1>4, <1>5 DEF CallsShaped

LEMMA AnswersShaped ==
  ASSUME CallsShaped, NEW c \in Processes, call[c].left # <<>>,
         NEW status \in {"failed", "raised"}, NEW cause \in {"gap", "source", "cache", "unreadable"},
         Answers(c, status, cause)
  PROVE  CallsShaped'
<1>1. /\ \A d \in Processes \ {c} : call'[d] = call[d]
      /\ call' = [d \in Processes |-> call'[d]]
      /\ call'[c] = Ended(c, status, cause)
  BY AnswersEffect
<1>2. call'[c] \in Call
  <2>1. call[c] \in Call /\ <<>> \in Seq(PartNames) /\ 0 \in 0..(MaxRetries - 1)
    BY DataAssumption DEF CallsShaped
  <2> QED
    BY <1>1, <2>1 DEF Call, Ended
<1>3. ASSUME NEW d \in Processes
      PROVE  /\ call'[d].pc = "idle" <=> call'[d].left = <<>>
             /\ call'[d].request = None => call'[d].left = <<>> /\ call'[d].items = {}
             /\ call'[d].left # <<>> => call'[d].status = None /\ call'[d].cause = None
             /\ call'[d].pc = "store" => call'[d].content \in Contents
             /\ \A i \in call'[d].items : \E part \in Parts(d) : i.key = KeyOf(part)
             /\ call'[d].request = call[d].request
  BY <1>1 DEF CallsShaped, Ended
<1>4. ASSUME NEW d \in Processes, call'[d].request # None
      PROVE  LastOf(call'[d].left, Requests[call'[d].request])
  <2>1. CASE d # c
    BY <1>1, <1>4, <2>1 DEF CallsShaped
  <2>2. CASE d = c
    <3>1. Requests[call[c].request] \in Seq(PartNames) /\ call'[c].left = <<>>
      BY <1>1, NowKnown, RequestsTyped DEF Ended
    <3> QED
      BY <1>3, <2>2, <3>1 DEF LastOf
  <2> QED
    BY <2>1, <2>2
<1>5. \A d \in Processes : Parts(d)' = Parts(d)
  BY <1>3 DEF Parts
<1> QED
  BY <1>1, <1>2, <1>3, <1>4, <1>5 DEF CallsShaped

\* A step within a lookup.
Moves(c, new) ==
  /\ call' = [call EXCEPT ![c] = new]
  /\ new \in Call /\ new.pc # "idle"
  /\ new.pc = "store" => new.content \in Contents
  /\ <<new.request, new.left, new.items, new.status, new.cause, new.got, new.missed>> =
       <<call[c].request, call[c].left, call[c].items, call[c].status, call[c].cause,
         call[c].got, call[c].missed>>

LEMMA MovesShaped ==
  ASSUME CallsShaped, NEW c \in Processes, call[c].left # <<>>, NEW new, Moves(c, new)
  PROVE  CallsShaped'
<1>1. call' \in [Processes -> Call]
  BY DEF CallsShaped, Moves
<1>2. ASSUME NEW d \in Processes
      PROVE  /\ call'[d].request = call[d].request /\ call'[d].left = call[d].left
             /\ call'[d].items = call[d].items
             /\ call'[d].status = call[d].status /\ call'[d].cause = call[d].cause
             /\ call'[d].pc = "idle" <=> call[d].pc = "idle"
             /\ call'[d].pc = "store" => call'[d].content \in Contents
  BY DEF CallsShaped, Moves
<1>3. \A d \in Processes : Parts(d)' = Parts(d)
  BY <1>2 DEF Parts
<1> QED
  BY <1>1, <1>2, <1>3 DEF CallsShaped

LEMMA GoesMoves ==
  ASSUME CallsShaped, NEW c \in Processes, NEW pc \in {"look", "evict", "fetch"}, Goes(c, pc)
  PROVE  Moves(c, [call[c] EXCEPT !.pc = pc])
<1>1. call \in [Processes -> Call] /\ call[c] \in Call
  BY DEF CallsShaped
<1> QED
  BY <1>1 DEF Goes, Moves, Call

\* A process tracks its own view of the health of the lookup's source.
LEMMA TrackTyped ==
  ASSUME health \in [Processes -> [Sources -> BOOLEAN]], NEW c \in Processes,
         NEW part \in PartNames, NEW ok \in BOOLEAN, Track(c, part, ok)
  PROVE  /\ health' \in [Processes -> [Sources -> BOOLEAN]]
         /\ \A d \in Processes \ {c} : health'[d] = health[d]
         /\ Tracked(part) /\ ~(part = "tickers" /\ ok) => health'[c][SourceOf[KeyOf(part)]] = ok
<1>1. SourceOf[KeyOf(part)] \in Sources
  BY PartKeys
<1> QED
  BY <1>1 DEF Track

LEMMA FailsShaped ==
  ASSUME Shaped, NEW c \in Processes, call[c].left # <<>>,
         NEW kind \in {"gap", "source", "cache", "unreadable"}, Fails(c, kind)
  PROVE  CallsShaped' /\ health' \in [Processes -> [Sources -> BOOLEAN]]
<1> USE DEF Shaped
<1>1. CallsShaped'
  <2>1. CASE Answers(c, "raised", kind)
    BY <2>1, AnswersShaped
  <2>2. CASE Answers(c, "failed", kind)
    BY <2>2, AnswersShaped
  <2>3. CASE Continue(c, {})
    BY <2>3, ContinueShaped
  <2> QED
    BY <2>1, <2>2, <2>3 DEF Fails
<1>2. health' \in [Processes -> [Sources -> BOOLEAN]]
  BY TrackTyped, NowKnown DEF Fails
<1> QED
  BY <1>1, <1>2

LEMMA ObtainedShaped ==
  ASSUME Shaped, NEW c \in Processes, call[c].left # <<>>,
         NEW content \in Contents \cup {Garbage}, NEW age \in 0..MaxTime, Obtained(c, content, age)
  PROVE  CallsShaped' /\ health' \in [Processes -> [Sources -> BOOLEAN]]
<1> USE DEF Shaped
<1> DEFINE item == [key |-> KeyOf(Now(c)), content |-> content, age |-> age]
<1>1. item \in Item
  BY NowKnown, PartKeys DEF Item
<1>2. Continue(c, {item})
  BY DEF Obtained
<1>3. CallsShaped'
  BY <1>1, <1>2, ContinueShaped
<1>4. health' \in [Processes -> [Sources -> BOOLEAN]]
  BY TrackTyped, NowKnown DEF Obtained
<1> QED
  BY <1>3, <1>4

LEMMA InitShaped == Init => Shaped
<1> SUFFICES ASSUME Init PROVE Shaped
  OBVIOUS
<1>1. Idle \in Call
  <2>1. 0 \in 0..(MaxRetries - 1)
    BY DataAssumption
  <2> QED
    BY <2>1 DEF Idle, Call
<1>2. CallsShaped
  BY <1>1 DEF Init, CallsShaped, Idle
<1>3. CacheShaped
  <2>1. ASSUME NEW k \in Keys PROVE Stored(k, 0, 0) \in Entry
    BY DataAssumption DEF Keys, SourceOf, Stored, Entry, Contents, Ttl
  <2> QED
    BY <2>1, InputsAssumption DEF Init, CacheShaped, Stored, Keys, SourceOf, Ttl
<1> QED
  BY <1>2, <1>3, DataAssumption DEF Init, Shaped

LEMMA BeginShaped ==
  ASSUME Shaped, NEW c \in Processes, Begin(c)
  PROVE  Shaped'
<1> USE DEF Shaped
<1>1. CacheShaped'
  BY DEF Begin, CacheShaped
<1>2. PICK request \in Issued :
        call' = [call EXCEPT ![c] = [Idle EXCEPT !.pc = "gate", !.request = request,
                                                 !.left = Requests[request]]]
  BY DEF Begin
<1>3. request \in DOMAIN Requests /\ request # None
  BY InputsAssumption
<1>4. Requests[request] \in Seq(PartNames) /\ Requests[request] # <<>>
  BY <1>3, RequestsTyped
<1>5. call'[c] = [pc |-> "gate", request |-> request, left |-> Requests[request], attempt |-> 0,
                  content |-> None, items |-> {}, got |-> 0, missed |-> 0, status |-> None,
                  cause |-> None]
  BY <1>2 DEF Idle, CallsShaped
<1>6. call' \in [Processes -> Call]
  <2>1. 0 \in 0..(MaxRetries - 1)
    BY DataAssumption
  <2>2. call'[c] \in Call
    BY <1>3, <1>4, <1>5, <2>1 DEF Call
  <2> QED
    BY <1>2, <2>2 DEF CallsShaped
<1>7. LastOf(Requests[request], Requests[request])
  BY <1>4 DEF LastOf
<1>8. ASSUME NEW d \in Processes, d # c PROVE call'[d] = call[d] /\ Parts(d)' = Parts(d)
  BY <1>2, <1>8 DEF CallsShaped, Parts
<1>9. CallsShaped'
  BY <1>3, <1>4, <1>5, <1>6, <1>7, <1>8 DEF CallsShaped
<1> QED
  BY <1>1, <1>9 DEF Begin

\* What a step of a lookup does to its call: it fails, it obtains the datum, or
\* it moves on within the lookup, through the gate only where that is open.
LEMMA LookupEffect ==
  ASSUME Shaped, NEW c \in Processes, LookupStep(c)
  PROVE  /\ call[c].left # <<>>
         /\ \/ \E kind \in {"gap", "source", "cache", "unreadable"} : Fails(c, kind)
            \/ \E content \in Contents, age \in 0..MaxTime :
                 Obtained(c, content, age) /\ call[c].pc \in {"look", "store"}
            \/ \E new : /\ Moves(c, new) /\ UNCHANGED health
                        /\ call[c].pc = "gate" => Now(c) \notin Gaps \/ c \in DevProcesses
<1> USE DEF Shaped
<1>1. call[c].left # <<>>
  BY DEF CallsShaped, LookupStep, Gate, Refuse, Look, Evict, Fetch, SourceFails, YahooFails,
         SearchFails, FetchUnreadable, Put, CacheFails, At
<1>2. call[c] \in Call
  BY DEF CallsShaped
<1>3. CASE \E kind \in {"gap", "source", "cache", "unreadable"} : Fails(c, kind)
  BY <1>1, <1>3
<1>4. CASE \E pc \in {"look", "evict", "fetch"} :
             /\ Goes(c, pc) /\ UNCHANGED health
             /\ call[c].pc = "gate" => Now(c) \notin Gaps \/ c \in DevProcesses
  <2>1. PICK pc \in {"look", "evict", "fetch"} :
          /\ Goes(c, pc) /\ UNCHANGED health
          /\ call[c].pc = "gate" => Now(c) \notin Gaps \/ c \in DevProcesses
    BY <1>4
  <2>2. Moves(c, [call[c] EXCEPT !.pc = pc])
    BY <2>1, GoesMoves
  <2> QED
    BY <1>1, <2>1, <2>2
<1>5. CASE Gate(c)
  BY <1>3, <1>4, <1>5 DEF Gate
<1>6. CASE Refuse(c) \/ SourceFails(c) \/ FetchUnreadable(c) \/ CacheFails(c)
  BY <1>3, <1>6 DEF Refuse, SourceFails, FetchUnreadable, CacheFails
<1>7. CASE Look(c)
  <2> DEFINE k == KeyOf(Now(c))
  <2>1. CASE /\ k \in DOMAIN cache /\ cache[k].intact
             /\ Obtained(c, Read(cache[k]), now - cache[k].stored)
    <3>1. cache[k] \in Entry /\ cache[k].stored <= now
      BY <2>1 DEF CacheShaped
    <3>2. Read(cache[k]) \in Contents /\ now - cache[k].stored \in 0..MaxTime
      BY <2>1, <3>1, DataAssumption DEF Entry, Read
    <3> QED
      BY <1>1, <1>7, <2>1, <3>2 DEF Look, At
  <2> QED
    BY <1>4, <1>7, <2>1 DEF Look, At
<1>8. CASE Evict(c)
  BY <1>4, <1>8 DEF Evict, At
<1>9. CASE Fetch(c)
  <2>1. Moves(c, [call[c] EXCEPT !.pc = "store", !.content = now])
    BY <1>2, <1>9, DataAssumption DEF Fetch, Moves, Call, Contents
  <2> QED
    BY <1>1, <1>9, <2>1 DEF Fetch, At
<1>10. CASE SearchFails(c)
  <2>1. Moves(c, [call[c] EXCEPT !.pc = "store", !.content = Nothing])
    BY <1>2, <1>10 DEF SearchFails, Moves, Call, Contents
  <2> QED
    BY <1>1, <1>10, <2>1 DEF SearchFails, At
<1>11. CASE YahooFails(c)
  <2>1. CASE /\ call[c].attempt + 1 < MaxRetries /\ UNCHANGED health
             /\ call' = [call EXCEPT ![c].attempt = @ + 1]
    <3>1. call[c].attempt + 1 \in 0..(MaxRetries - 1)
      BY <1>2, <2>1, DataAssumption DEF Call
    <3>2. Moves(c, [call[c] EXCEPT !.attempt = call[c].attempt + 1])
      BY <1>2, <1>11, <2>1, <3>1 DEF YahooFails, At, Moves, Call, CallsShaped
    <3> QED
      BY <1>1, <1>11, <2>1, <3>2 DEF YahooFails, At
  <2> QED
    BY <1>3, <1>11, <2>1 DEF YahooFails
<1>12. CASE Put(c)
  <2>1. call[c].content \in Contents /\ 0 \in 0..MaxTime
    BY <1>12, DataAssumption DEF Put, At, CallsShaped
  <2> QED
    BY <1>1, <1>12, <2>1 DEF Put, At
<1> QED
  BY <1>5, <1>6, <1>7, <1>8, <1>9, <1>10, <1>11, <1>12 DEF LookupStep

LEMMA LookupShaped ==
  ASSUME Shaped, NEW c \in Processes, LookupStep(c)
  PROVE  Shaped'
<1> USE DEF Shaped
<1>1. CallsShaped' /\ health' \in [Processes -> [Sources -> BOOLEAN]]
  BY LookupEffect, FailsShaped, ObtainedShaped, MovesShaped
<1>2. CASE UNCHANGED <<now, cache>>
  BY <1>1, <1>2 DEF CacheShaped
<1>3. CASE Evict(c)
  <2>1. CacheShaped'
    BY <1>3 DEF Evict, Without, CacheShaped
  <2> QED
    BY <1>1, <1>3, <2>1 DEF Evict
<1>4. CASE Put(c)
  <2> DEFINE k == KeyOf(Now(c))
  <2>1. call[c].content \in Contents
    BY <1>4 DEF Put, At, CallsShaped
  <2>2. Now(c) \in PartNames
    BY LookupEffect, NowKnown
  <2>3. k \in Keys /\ Ttl[k] \in Nat
    BY <2>2, PartKeys
  <2>4. Stored(k, call[c].content, now) \in Entry
    BY <2>1, <2>3, DataAssumption DEF Stored, Entry
  <2>5. CacheShaped'
    BY <1>4, <2>3, <2>4, DataAssumption DEF Put, CacheShaped, Stored
  <2> QED
    BY <1>1, <1>4, <2>5 DEF Put
<1> QED
  BY <1>2, <1>3, <1>4 DEF LookupStep, Gate, Refuse, Look, Fetch, SourceFails, YahooFails,
                          SearchFails, FetchUnreadable, CacheFails

LEMMA NextShaped == Shaped /\ [Next]_dataVars => Shaped'
<1> SUFFICES ASSUME Shaped, [Next]_dataVars PROVE Shaped'
  OBVIOUS
<1>1. CASE \E c \in Processes : Begin(c) \/ LookupStep(c)
  BY <1>1, BeginShaped, LookupShaped
<1> USE DEF Shaped
<1>2. ASSUME UNCHANGED call PROVE CallsShaped'
  BY <1>2 DEF CallsShaped, Parts
<1>3. CASE Tick
  <2>1. now' = now + 1 /\ now' \in 0..MaxTime /\ cache' = cache
    BY <1>3, DataAssumption DEF Tick
  <2>2. ASSUME NEW k \in DOMAIN cache PROVE cache[k].stored <= now'
    BY <2>1, DataAssumption DEF CacheShaped, Entry
  <2>3. CacheShaped'
    BY <2>1, <2>2 DEF CacheShaped
  <2> QED
    BY <1>2, <1>3, <2>1, <2>3 DEF Tick
<1>4. CASE Damage
  <2>1. PICK k \in DOMAIN cache : cache' = [cache EXCEPT ![k].intact = FALSE]
    BY <1>4 DEF Damage
  <2>2. DOMAIN cache' = DOMAIN cache
    BY <2>1
  <2>3. ASSUME NEW x \in DOMAIN cache
        PROVE  /\ cache'[x] \in Entry /\ cache'[x].stored = cache[x].stored
               /\ cache'[x].expires = cache[x].expires
    BY <2>1 DEF CacheShaped, Entry
  <2>4. CacheShaped'
    <3>1. now' = now
      BY <1>4 DEF Damage
    <3>2. cache' = [x \in DOMAIN cache' |-> cache'[x]]
      BY <2>1
    <3> QED
      BY <2>2, <2>3, <3>1, <3>2 DEF CacheShaped
  <2> QED
    BY <1>2, <1>4, <2>4 DEF Damage
<1>5. CASE EvictExpired
  BY <1>2, <1>5 DEF EvictExpired, CacheShaped
<1>6. CASE ClearSource
  BY <1>2, <1>6 DEF ClearSource, CacheShaped
<1>7. CASE UNCHANGED dataVars
  BY <1>2, <1>7 DEF dataVars, CacheShaped
<1> QED
  BY <1>1, <1>3, <1>4, <1>5, <1>6, <1>7 DEF Next

-----------------------------------------------------------------------------
(* What is answered is fresh.                                                *)

\* A source delivered this content for this key, or a search failed.
Delivered(k, content) == <<k, content>> \in fetched \/ (k = "found" /\ content = Nothing)

\* What has been seen, what the cache holds undamaged, and what is about to be
\* stored has been delivered.
Fresh ==
  /\ AnswersAreCurrent
  /\ \A k \in DOMAIN cache : cache[k].intact => Delivered(k, cache[k].content)
  /\ \A c \in Processes :
       call[c].pc = "store" => Delivered(KeyOf(Now(c)), call[c].content)

\* What a step that does not store leaves of the items and the contents.
LEMMA FailsEffect ==
  ASSUME CallsShaped, NEW c \in Processes, call[c].left # <<>>,
         NEW kind \in {"gap", "source", "cache", "unreadable"}, Fails(c, kind)
  PROVE  /\ \A d \in Processes \ {c} : call'[d] = call[d]
         /\ call'[c].items = call[c].items /\ call'[c].request = call[c].request
         /\ call'[c].pc \in {"idle", "gate"}
<1>1. CASE Answers(c, "raised", kind)
  <2>1. /\ \A d \in Processes \ {c} : call'[d] = call[d]
        /\ call'[c] = Ended(c, "raised", kind)
    BY <1>1, AnswersEffect
  <2> QED
    BY <2>1 DEF Ended
<1>2. CASE Answers(c, "failed", kind)
  <2>1. /\ \A d \in Processes \ {c} : call'[d] = call[d]
        /\ call'[c] = Ended(c, "failed", kind)
    BY <1>2, AnswersEffect
  <2> QED
    BY <2>1 DEF Ended
<1>3. CASE Continue(c, {})
  <2>1. /\ \A d \in Processes \ {c} : call'[d] = call[d]
        /\ call'[c] = Continued(c, {})
    BY <1>3, ContinueEffect
  <2> QED
    BY <2>1 DEF Continued
<1> QED
  BY <1>1, <1>2, <1>3 DEF Fails

LEMMA ObtainedEffect ==
  ASSUME CallsShaped, NEW c \in Processes, call[c].left # <<>>,
         NEW content, NEW age, Obtained(c, content, age)
  PROVE  /\ \A d \in Processes \ {c} : call'[d] = call[d]
         /\ call'[c].items = call[c].items \cup {[key |-> KeyOf(Now(c)), content |-> content, age |-> age]}
         /\ call'[c].request = call[c].request
         /\ call'[c].pc \in {"idle", "gate"}
<1> DEFINE item == [key |-> KeyOf(Now(c)), content |-> content, age |-> age]
<1>1. /\ \A d \in Processes \ {c} : call'[d] = call[d]
      /\ call'[c] = Continued(c, {item})
  BY ContinueEffect DEF Obtained
<1> QED
  BY <1>1 DEF Continued

LEMMA MovesEffect ==
  ASSUME CallsShaped, NEW c \in Processes, NEW new, Moves(c, new)
  PROVE  /\ \A d \in Processes \ {c} : call'[d] = call[d]
         /\ call'[c].items = call[c].items /\ call'[c].request = call[c].request
         /\ call'[c].left = call[c].left /\ call'[c].pc = new.pc /\ call'[c].content = new.content
         /\ call'[c].got = call[c].got /\ call'[c].missed = call[c].missed
         /\ call'[c].status = call[c].status /\ call'[c].cause = call[c].cause
  BY DEF CallsShaped, Moves

\* An item that is fresh keeps the answers fresh.
LEMMA ObtainedFresh ==
  ASSUME Shaped, Fresh, NEW c \in Processes, call[c].left # <<>>,
         NEW content, NEW age, Obtained(c, content, age), UNCHANGED fetched,
         Delivered(KeyOf(Now(c)), content), age < Ttl[KeyOf(Now(c))]
  PROVE  /\ AnswersAreCurrent'
         /\ \A d \in Processes : call'[d].pc = "store" => Delivered(KeyOf(Now(d)), call[d].content)'
<1> DEFINE item == [key |-> KeyOf(Now(c)), content |-> content, age |-> age]
<1>1. /\ \A d \in Processes \ {c} : call'[d] = call[d]
      /\ call'[c].items = call[c].items \cup {item}
      /\ call'[c].pc \in {"idle", "gate"}
  BY ObtainedEffect DEF Shaped
<1>2. ASSUME NEW d \in Processes, NEW i \in call'[d].items
      PROVE  Delivered(i.key, i.content) /\ i.age < Ttl[i.key]
  BY <1>1 DEF Fresh, AnswersAreCurrent, Delivered
<1>3. AnswersAreCurrent'
  BY <1>2 DEF AnswersAreCurrent, Delivered
<1>4. ASSUME NEW d \in Processes, call'[d].pc = "store"
      PROVE  Delivered(KeyOf(Now(d)), call[d].content)'
  BY <1>1, <1>4 DEF Fresh, Delivered, Now
<1> QED
  BY <1>3, <1>4

\* So does a step that adds no item, and that stores nothing undelivered.
LEMMA OthersFresh ==
  ASSUME Fresh, NEW c \in Processes, fetched \subseteq fetched',
         \A d \in Processes \ {c} : call'[d] = call[d],
         call'[c].items = call[c].items,
         call'[c].pc = "store" => Delivered(KeyOf(Now(c)), call[c].content)'
  PROVE  /\ AnswersAreCurrent'
         /\ \A d \in Processes : call'[d].pc = "store" => Delivered(KeyOf(Now(d)), call[d].content)'
<1>1. ASSUME NEW d \in Processes, NEW i \in call'[d].items
      PROVE  Delivered(i.key, i.content)' /\ i.age < Ttl[i.key]
  BY <1>1 DEF Fresh, AnswersAreCurrent, Delivered
<1>2. AnswersAreCurrent'
  BY <1>1 DEF AnswersAreCurrent, Delivered
<1>3. ASSUME NEW d \in Processes \ {c}, call'[d].pc = "store"
      PROVE  Delivered(KeyOf(Now(d)), call[d].content)'
  BY <1>3 DEF Fresh, Delivered, Now
<1> QED
  BY <1>2, <1>3

LEMMA LookupFresh ==
  ASSUME Shaped, Fresh, NEW c \in Processes, LookupStep(c)
  PROVE  Fresh'
<1> DEFINE CacheFresh == \A k \in DOMAIN cache : cache[k].intact => Delivered(k, cache[k].content)
           CallsFresh == /\ AnswersAreCurrent'
                         /\ \A d \in Processes :
                              call'[d].pc = "store" => Delivered(KeyOf(Now(d)), call[d].content)'
<1>1. CallsShaped /\ call[c].left # <<>> /\ call[c] \in Call /\ Now(c) \in PartNames
  BY LookupEffect, NowKnown DEF Shaped, CallsShaped
<1>2. CacheFresh
  BY DEF Fresh
<1>3. ASSUME NEW kind \in {"gap", "source", "cache", "unreadable"}, Fails(c, kind), UNCHANGED fetched
      PROVE  CallsFresh
  <2>1. /\ \A d \in Processes \ {c} : call'[d] = call[d]
        /\ call'[c].items = call[c].items /\ call'[c].pc \in {"idle", "gate"}
    BY <1>1, <1>3, FailsEffect
  <2> QED
    BY <1>3, <2>1, OthersFresh
<1>4. ASSUME NEW pc \in {"look", "evict", "fetch"}, Goes(c, pc), UNCHANGED fetched PROVE CallsFresh
  <2>1. /\ \A d \in Processes \ {c} : call'[d] = call[d]
        /\ call'[c].items = call[c].items /\ call'[c].pc = pc
    <3> DEFINE new == [call[c] EXCEPT !.pc = pc]
    <3>1. new.pc = pc
      BY <1>1 DEF Call
    <3>2. Moves(c, new)
      BY <1>1, <1>4, GoesMoves
    <3> HIDE DEF new
    <3> QED
      BY <1>1, <3>1, <3>2, MovesEffect
  <2> QED
    BY <1>4, <2>1, OthersFresh
<1>5. CASE Gate(c) \/ Refuse(c) \/ SourceFails(c) \/ FetchUnreadable(c) \/ CacheFails(c)
  <2>1. CallsFresh
    BY <1>3, <1>4, <1>5 DEF Gate, Refuse, SourceFails, FetchUnreadable, CacheFails
  <2>2. CacheFresh'
    BY <1>2, <1>5 DEF Gate, Refuse, SourceFails, FetchUnreadable, CacheFails, Delivered
  <2> QED
    BY <2>1, <2>2 DEF Fresh
<1>6. CASE Look(c)
  <2> DEFINE k == KeyOf(Now(c))
  <2>1. ASSUME k \in DOMAIN cache, cache[k].intact, cache[k].expires > now,
               Obtained(c, Read(cache[k]), now - cache[k].stored)
        PROVE  CallsFresh
    <3>1. Delivered(k, Read(cache[k]))
      BY <1>2, <2>1 DEF Read
    <3>2. /\ cache[k] \in Entry /\ k \in Keys
          /\ cache[k].expires = cache[k].stored + Ttl[k] /\ cache[k].stored <= now
      BY <2>1 DEF Shaped, CacheShaped
    <3>3. now - cache[k].stored < Ttl[k]
      BY <1>1, <2>1, <3>2, PartKeys, DataAssumption DEF Entry, Shaped
    <3> QED
      BY <1>1, <1>6, <2>1, <3>1, <3>3, ObtainedFresh DEF Look
  <2>2. CallsFresh
    BY <1>4, <1>6, <2>1 DEF Look
  <2>3. CacheFresh'
    BY <1>2, <1>6 DEF Look, Delivered
  <2> QED
    BY <2>2, <2>3 DEF Fresh
<1>7. CASE Evict(c)
  <2>1. CallsFresh
    BY <1>4, <1>7 DEF Evict
  <2>2. CacheFresh'
    BY <1>2, <1>7 DEF Evict, Without, Delivered
  <2> QED
    BY <2>1, <2>2 DEF Fresh
<1>8. CASE Fetch(c)
  <2>1. Moves(c, [call[c] EXCEPT !.pc = "store", !.content = now])
    BY <1>1, <1>8, DataAssumption DEF Fetch, Moves, Call, Contents, Shaped
  <2>2. /\ \A d \in Processes \ {c} : call'[d] = call[d]
        /\ call'[c].items = call[c].items /\ call'[c].left = call[c].left /\ call'[c].content = now
    <3> DEFINE new == [call[c] EXCEPT !.pc = "store", !.content = now]
    <3>1. new.content = now
      BY <1>1 DEF Call
    <3> HIDE DEF new
    <3> QED
      BY <1>1, <2>1, <3>1, MovesEffect DEF new
  <2>3. Delivered(KeyOf(Now(c)), call[c].content)'
    BY <1>8, <2>2 DEF Fetch, Delivered, Now
  <2>4. fetched \subseteq fetched'
    BY <1>8 DEF Fetch
  <2>5. CallsFresh
    BY <2>2, <2>3, <2>4, OthersFresh
  <2>6. CacheFresh'
    BY <1>2, <1>8, <2>4 DEF Fetch, Delivered
  <2> QED
    BY <2>5, <2>6 DEF Fresh
<1>9. CASE SearchFails(c)
  <2>1. Moves(c, [call[c] EXCEPT !.pc = "store", !.content = Nothing])
    BY <1>1, <1>9 DEF SearchFails, Moves, Call, Contents
  <2>2. /\ \A d \in Processes \ {c} : call'[d] = call[d]
        /\ call'[c].items = call[c].items /\ call'[c].left = call[c].left /\ call'[c].content = Nothing
    <3> DEFINE new == [call[c] EXCEPT !.pc = "store", !.content = Nothing]
    <3>1. new.content = Nothing
      BY <1>1 DEF Call
    <3> HIDE DEF new
    <3> QED
      BY <1>1, <2>1, <3>1, MovesEffect DEF new
  <2>3. KeyOf(Now(c)) = "found"
    BY <1>1, <1>9, PartKeys DEF SearchFails
  <2>4. Delivered(KeyOf(Now(c)), call[c].content)'
    BY <2>2, <2>3 DEF Delivered, Now
  <2>5. CallsFresh
    BY <1>9, <2>2, <2>4, OthersFresh DEF SearchFails
  <2>6. CacheFresh'
    BY <1>2, <1>9 DEF SearchFails, Delivered
  <2> QED
    BY <2>5, <2>6 DEF Fresh
<1>10. CASE YahooFails(c)
  <2>1. ASSUME call' = [call EXCEPT ![c].attempt = @ + 1] PROVE CallsFresh
    <3>1. /\ \A d \in Processes \ {c} : call'[d] = call[d]
          /\ call'[c].items = call[c].items /\ call'[c].pc = "fetch"
      BY <1>1, <1>10, <2>1 DEF YahooFails, At, CallsShaped, Call
    <3> QED
      BY <1>10, <3>1, OthersFresh DEF YahooFails
  <2>2. CallsFresh
    BY <1>3, <1>10, <2>1 DEF YahooFails
  <2>3. CacheFresh'
    BY <1>2, <1>10 DEF YahooFails, Delivered
  <2> QED
    BY <2>2, <2>3 DEF Fresh
<1>11. CASE Put(c)
  <2> DEFINE k == KeyOf(Now(c))
  <2>1. Delivered(k, call[c].content)
    BY <1>11 DEF Put, At, Fresh
  <2>2. 0 < Ttl[k]
    BY <1>1, PartKeys
  <2>3. CallsFresh
    BY <1>1, <1>11, <2>1, <2>2, ObtainedFresh DEF Put
  <2>4. CacheFresh'
    BY <1>2, <1>11, <2>1 DEF Put, Stored, Delivered
  <2> QED
    BY <2>3, <2>4 DEF Fresh
<1> QED
  BY <1>5, <1>6, <1>7, <1>8, <1>9, <1>10, <1>11 DEF LookupStep

LEMMA NextFresh == Shaped /\ Fresh /\ [Next]_dataVars => Fresh'
<1> SUFFICES ASSUME Shaped, Fresh, [Next]_dataVars PROVE Fresh'
  OBVIOUS
<1>1. CASE \E c \in Processes : LookupStep(c)
  BY <1>1, LookupFresh
<1>2. ASSUME NEW c \in Processes, Begin(c) PROVE Fresh'
  <2>1. /\ \A d \in Processes \ {c} : call'[d] = call[d]
        /\ call'[c].items = {} /\ call'[c].pc = "gate"
    BY <1>2 DEF Begin, Idle, Shaped, CallsShaped
  <2> QED
    BY <1>2, <2>1 DEF Begin, Fresh, AnswersAreCurrent, Delivered, Now
<1>3. CASE UNCHANGED <<cache, call, fetched>>
  BY <1>3 DEF Fresh, AnswersAreCurrent, Delivered, Now
<1>4. CASE Damage
  <2>1. PICK k \in DOMAIN cache : cache' = [cache EXCEPT ![k].intact = FALSE]
    BY <1>4 DEF Damage
  <2>2. ASSUME NEW x \in DOMAIN cache', cache'[x].intact
        PROVE  Delivered(x, cache[x].content)'
    BY <1>4, <2>1, <2>2 DEF Damage, Fresh, Delivered, Shaped, CacheShaped, Entry
  <2> QED
    BY <1>4, <2>2 DEF Damage, Fresh, AnswersAreCurrent, Delivered, Now
<1>5. CASE EvictExpired \/ ClearSource
  <2>1. call' = call /\ fetched' = fetched
    BY <1>5 DEF EvictExpired, ClearSource
  <2>2. DOMAIN cache' \subseteq DOMAIN cache /\ \A k \in DOMAIN cache' : cache'[k] = cache[k]
    BY <1>5 DEF EvictExpired, ClearSource
  <2> QED
    BY <2>1, <2>2 DEF Fresh, AnswersAreCurrent, Delivered, Now
<1> QED
  BY <1>1, <1>2, <1>3, <1>4, <1>5 DEF Next, Tick, dataVars

-----------------------------------------------------------------------------
(* What product mode may see.                                                *)

LEMMA LookupFirstSources ==
  ASSUME Shaped, FirstSourcesOnly, NEW c \in Processes, LookupStep(c)
  PROVE  FirstSourcesOnly'
<1>1. CallsShaped /\ call[c].left # <<>> /\ Now(c) \in PartNames
  BY LookupEffect, NowKnown DEF Shaped
<1>2. SUFFICES ASSUME \A d \in Processes \ {c} : call'[d] = call[d]
               PROVE  c \notin DevProcesses =>
                        /\ \A i \in call'[c].items : SourceOf[i.key] # "yahoo"
                        /\ call'[c].pc \in {"look", "evict", "fetch", "store"} =>
                             SourceOf[KeyOf(Now(c))]' # "yahoo"
  <2>1. \A d \in Processes \ {c} : call'[d] = call[d]
    BY <1>1, LookupEffect, FailsEffect, ObtainedEffect, MovesEffect
  <2> QED
    BY <1>2, <2>1 DEF FirstSourcesOnly, Now
<1>3. SUFFICES ASSUME c \notin DevProcesses
               PROVE  /\ \A i \in call'[c].items : SourceOf[i.key] # "yahoo"
                      /\ call'[c].pc \in {"look", "evict", "fetch", "store"} =>
                           SourceOf[KeyOf(Now(c))]' # "yahoo"
  OBVIOUS
<1>4. /\ \A i \in call[c].items : SourceOf[i.key] # "yahoo"
      /\ call[c].pc \in {"look", "evict", "fetch", "store"} => SourceOf[KeyOf(Now(c))] # "yahoo"
  BY <1>3 DEF FirstSourcesOnly
<1>5. CASE \E kind \in {"gap", "source", "cache", "unreadable"} : Fails(c, kind)
  <2>1. call'[c].items = call[c].items /\ call'[c].pc \in {"idle", "gate"}
    BY <1>1, <1>5, FailsEffect
  <2> QED
    BY <1>4, <2>1
<1>6. ASSUME NEW content \in Contents, NEW age \in 0..MaxTime, Obtained(c, content, age),
             call[c].pc \in {"look", "store"}
      PROVE  /\ \A i \in call'[c].items : SourceOf[i.key] # "yahoo"
             /\ call'[c].pc \in {"idle", "gate"}
  <2> DEFINE item == [key |-> KeyOf(Now(c)), content |-> content, age |-> age]
  <2>1. call'[c].items = call[c].items \cup {item} /\ call'[c].pc \in {"idle", "gate"}
    BY <1>1, <1>6, ObtainedEffect
  <2>2. SourceOf[item.key] # "yahoo"
    BY <1>4, <1>6
  <2> QED
    BY <1>4, <2>1, <2>2
<1>7. ASSUME NEW new, Moves(c, new), call[c].pc = "gate" => Now(c) \notin Gaps \/ c \in DevProcesses
      PROVE  /\ \A i \in call'[c].items : SourceOf[i.key] # "yahoo"
             /\ SourceOf[KeyOf(Now(c))]' # "yahoo"
  <2>1. call'[c].items = call[c].items /\ call'[c].left = call[c].left
    BY <1>1, <1>7, MovesEffect
  <2>2. call[c].pc = "gate" \/ call[c].pc \in {"look", "evict", "fetch", "store"}
    BY <1>1 DEF CallsShaped, Call
  <2>3. SourceOf[KeyOf(Now(c))] # "yahoo"
    BY <1>1, <1>3, <1>4, <1>7, <2>2, PartKeys
  <2> QED
    BY <1>4, <2>1, <2>3 DEF Now
<1> QED
  BY <1>5, <1>6, <1>7, LookupEffect

LEMMA NextFirstSources == Shaped /\ FirstSourcesOnly /\ [Next]_dataVars => FirstSourcesOnly'
<1> SUFFICES ASSUME Shaped, FirstSourcesOnly, [Next]_dataVars PROVE FirstSourcesOnly'
  OBVIOUS
<1>1. CASE \E c \in Processes : LookupStep(c)
  BY <1>1, LookupFirstSources
<1>2. ASSUME NEW c \in Processes, Begin(c) PROVE FirstSourcesOnly'
  <2>1. /\ \A d \in Processes \ {c} : call'[d] = call[d]
        /\ call'[c].items = {} /\ call'[c].pc = "gate"
    BY <1>2 DEF Begin, Idle, Shaped, CallsShaped
  <2> QED
    BY <2>1 DEF FirstSourcesOnly, Now
<1>3. CASE UNCHANGED call
  BY <1>3 DEF FirstSourcesOnly, Now
<1> QED
  BY <1>1, <1>2, <1>3 DEF Next, Tick, Damage, EvictExpired, ClearSource, dataVars

-----------------------------------------------------------------------------
(* What becomes of a snapshot.                                               *)

\* Every lookup of a call so far was obtained or missed, unless it was ended
\* before its time; a snapshot is ended so only by the cache or by an answer
\* that cannot be read.
Accounted ==
  \A c \in Processes :
    /\ call[c].request # None /\ (call[c].left # <<>> \/ call[c].status = "answered") =>
         call[c].got + call[c].missed + Len(call[c].left) = Len(Requests[call[c].request])
    /\ call[c].request = "get_market_snapshot" /\ call[c].left = <<>> =>
         \/ call[c].status = "answered"
         \/ call[c].status = "raised" /\ call[c].cause \in {"cache", "unreadable"}

LEMMA ContinueAccounted ==
  ASSUME CallsShaped, Accounted, NEW c \in Processes, call[c].left # <<>>, NEW new,
         Continue(c, new), new = {} \/ \E i : new = {i}
  PROVE  Accounted'
<1>1. /\ \A d \in Processes \ {c} : call'[d] = call[d]
      /\ call'[c] = Continued(c, new)
  BY ContinueEffect
<1>2. Cardinality(new) \in {0, 1}
  BY FS_EmptySet, FS_Singleton
<1>3. call[c].request # None /\ Len(Tail(call[c].left)) = Len(call[c].left) - 1
  BY NowKnown
<1>4. /\ call'[c].request = call[c].request /\ call'[c].left = Tail(call[c].left)
      /\ call'[c].got = call[c].got + Cardinality(new)
      /\ call'[c].missed = call[c].missed + 1 - Cardinality(new)
      /\ Tail(call[c].left) = <<>> => call'[c].status = "answered"
  BY <1>1 DEF Continued
<1>5. call[c].got \in Nat /\ call[c].missed \in Nat /\ Len(call[c].left) \in Nat
  BY DEF CallsShaped, Call
<1>6. call'[c].got + call'[c].missed + Len(call'[c].left) = Len(Requests[call'[c].request])
  <2>1. call[c].got + call[c].missed + Len(call[c].left) = Len(Requests[call[c].request])
    BY <1>3 DEF Accounted
  <2>2. Len(call'[c].left) = Len(call[c].left) - 1
    BY <1>3, <1>4
  <2>3. call'[c].got + call'[c].missed = call[c].got + call[c].missed + 1
    BY <1>2, <1>4, <1>5
  <2>4. call'[c].got + call'[c].missed + Len(call'[c].left) =
          call[c].got + call[c].missed + Len(call[c].left)
    <3>1. PICK got \in Nat, missed \in Nat, left \in Nat :
            got = call[c].got /\ missed = call[c].missed /\ left = Len(call[c].left)
      BY <1>5
    <3>2. PICK known, rest : known = call'[c].got + call'[c].missed /\ rest = Len(call'[c].left)
      OBVIOUS
    <3>3. known = got + missed + 1 /\ rest = left - 1
      BY <2>2, <2>3, <3>1, <3>2
    <3>4. known + rest = got + missed + left
      BY <3>3
    <3> QED
      BY <3>1, <3>2, <3>4
  <2> QED
    BY <1>4, <2>1, <2>4
<1> QED
  BY <1>1, <1>4, <1>6 DEF Accounted

LEMMA LookupAccounted ==
  ASSUME Shaped, Accounted, NEW c \in Processes, LookupStep(c)
  PROVE  Accounted'
<1>1. CallsShaped /\ call[c].left # <<>>
  BY LookupEffect DEF Shaped
<1>2. ASSUME NEW new, Continue(c, new), new = {} \/ \E i : new = {i} PROVE Accounted'
  BY <1>1, <1>2, ContinueAccounted
<1>3. ASSUME NEW status \in {"failed", "raised"}, NEW kind, Answers(c, status, kind),
             call[c].request = "get_market_snapshot" =>
               status = "raised" /\ kind \in {"cache", "unreadable"}
      PROVE  Accounted'
  <2>1. /\ \A d \in Processes \ {c} : call'[d] = call[d]
        /\ call'[c] = Ended(c, status, kind)
    BY <1>1, <1>3, AnswersEffect
  <2>2. /\ call'[c].request = call[c].request /\ call'[c].left = <<>>
        /\ call'[c].status = status /\ call'[c].cause = kind
    BY <2>1 DEF Ended
  <2> QED
    BY <1>3, <2>1, <2>2 DEF Accounted
<1>4. ASSUME NEW kind \in {"gap", "source", "cache", "unreadable"}, Fails(c, kind)
      PROVE  Accounted'
  <2>1. CASE Escapes(call[c].request, Now(c), kind)
    BY <1>3, <1>4, <2>1 DEF Fails, Escapes
  <2>2. CASE ~Escapes(call[c].request, Now(c), kind) /\ Continues(call[c].request)
    BY <1>2, <1>4, <2>2 DEF Fails
  <2>3. CASE ~Escapes(call[c].request, Now(c), kind) /\ ~Continues(call[c].request)
    BY <1>3, <1>4, <2>3 DEF Fails, Continues
  <2> QED
    BY <2>1, <2>2, <2>3
<1>5. ASSUME NEW content, NEW age, Obtained(c, content, age) PROVE Accounted'
  BY <1>2, <1>5 DEF Obtained
<1>6. ASSUME NEW new, Moves(c, new) PROVE Accounted'
  <2>1. /\ \A d \in Processes \ {c} : call'[d] = call[d]
        /\ call'[c].request = call[c].request /\ call'[c].left = call[c].left
        /\ call'[c].got = call[c].got /\ call'[c].missed = call[c].missed
        /\ call'[c].status = call[c].status /\ call'[c].cause = call[c].cause
    BY <1>1, <1>6, MovesEffect
  <2> QED
    BY <2>1 DEF Accounted
<1> QED
  BY <1>4, <1>5, <1>6, LookupEffect

LEMMA NextAccounted == Shaped /\ Accounted /\ [Next]_dataVars => Accounted'
<1> SUFFICES ASSUME Shaped, Accounted, [Next]_dataVars PROVE Accounted'
  OBVIOUS
<1>1. CASE \E c \in Processes : LookupStep(c)
  BY <1>1, LookupAccounted
<1>2. ASSUME NEW c \in Processes, Begin(c) PROVE Accounted'
  <2>1. PICK request \in Issued :
          /\ \A d \in Processes \ {c} : call'[d] = call[d]
          /\ call'[c].request = request /\ call'[c].left = Requests[request]
          /\ call'[c].got = 0 /\ call'[c].missed = 0
    BY <1>2 DEF Begin, Idle, Shaped, CallsShaped
  <2>2. Requests[request] \in Seq(PartNames) /\ Requests[request] # <<>>
    BY InputsAssumption, RequestsTyped
  <2> QED
    BY <2>1, <2>2 DEF Accounted
<1>3. CASE UNCHANGED call
  BY <1>3 DEF Accounted
<1> QED
  BY <1>1, <1>2, <1>3 DEF Next, Tick, Damage, EvictExpired, ClearSource, dataVars

-----------------------------------------------------------------------------
(* The health of a source and the answers given in its name.                 *)

\* What HealthFollowsAnswers says of one process.
HealthFollows(c) ==
  At(c, "idle") /\ call[c].request # None /\ ~Continues(call[c].request) =>
    \A part \in Parts(c) :
      Tracked(part) =>
        /\ call[c].status = "answered" => health[c][SourceOf[KeyOf(part)]]
        /\ call[c].cause = "source" => ~health[c][SourceOf[KeyOf(part)]]

\* Its last lookup was tracked, and all of them were of that lookup's source.
LEMMA LookupHealth ==
  ASSUME Shaped, HealthFollowsAnswers, NEW c \in Processes, LookupStep(c)
  PROVE  HealthFollowsAnswers'
<1>1. /\ CallsShaped /\ call[c].left # <<>> /\ Now(c) \in PartNames
      /\ call[c].request # None /\ call[c].request \in DOMAIN Requests
      /\ Now(c) \in ToSet(Requests[call[c].request])
      /\ Parts(c) = ToSet(Requests[call[c].request])
      /\ call[c].status = None /\ call[c].cause = None
      /\ health \in [Processes -> [Sources -> BOOLEAN]]
  BY LookupEffect, NowKnown DEF Shaped, CallsShaped
<1>2. Track(c, Now(c), TRUE) \/ Track(c, Now(c), FALSE) \/ UNCHANGED health
  BY LookupEffect DEF Fails, Obtained
<1>3. \A d \in Processes \ {c} : call'[d] = call[d] /\ health'[d] = health[d]
  <2>1. \A d \in Processes \ {c} : call'[d] = call[d]
    BY <1>1, LookupEffect, FailsEffect, ObtainedEffect, MovesEffect
  <2>2. \A d \in Processes \ {c} : health'[d] = health[d]
    BY <1>1, <1>2, TrackTyped
  <2> QED
    BY <2>1, <2>2
<1>4. call'[c].request = call[c].request
  BY <1>1, LookupEffect, FailsEffect, ObtainedEffect, MovesEffect
<1>5. SUFFICES ASSUME call'[c].pc = "idle", ~Continues(call[c].request),
                      NEW part \in ToSet(Requests[call[c].request]), Tracked(part)
               PROVE  /\ call'[c].status = "answered" => health'[c][SourceOf[KeyOf(part)]]
                      /\ call'[c].cause = "source" => ~health'[c][SourceOf[KeyOf(part)]]
  BY <1>1, <1>3, <1>4, <1>5 DEF HealthFollowsAnswers, At, Parts
<1>6. Tracked(Now(c)) /\ SourceOf[KeyOf(part)] = SourceOf[KeyOf(Now(c))]
  BY <1>1, <1>5, OneSource
<1>7. None # "answered" /\ None # "source"
  BY InputsAssumption
<1>8. ASSUME NEW kind \in {"gap", "source", "cache", "unreadable"}, Fails(c, kind)
      PROVE  /\ call'[c].status # "answered"
             /\ call'[c].cause = "source" => ~health'[c][SourceOf[KeyOf(part)]]
  <2>1. Answers(c, "raised", kind) \/ Answers(c, "failed", kind)
    BY <1>5, <1>8 DEF Fails
  <2>2. call'[c].status \in {"raised", "failed"} /\ call'[c].cause = kind
    <3>1. call'[c] = Ended(c, "raised", kind) \/ call'[c] = Ended(c, "failed", kind)
      BY <1>1, <2>1, AnswersEffect
    <3> QED
      BY <3>1 DEF Ended
  <2>3. kind = "source" => health'[c][SourceOf[KeyOf(Now(c))]] = FALSE
    BY <1>1, <1>6, <1>8, TrackTyped DEF Fails
  <2> QED
    BY <1>6, <2>2, <2>3
<1>9. ASSUME NEW content \in Contents, NEW age \in 0..MaxTime, Obtained(c, content, age)
      PROVE  call'[c].cause # "source" /\ health'[c][SourceOf[KeyOf(part)]]
  <2>1. PICK new : call'[c] = Continued(c, new)
    BY <1>1, <1>9, ContinueEffect DEF Obtained
  <2>2. call'[c].cause = None /\ Tail(call[c].left) = <<>>
    BY <1>1, <1>5, <2>1 DEF Continued
  <2>3. Now(c) # "tickers"
    BY <1>1, <1>5, <2>2, NowKnown, OneSource
  <2>4. health'[c][SourceOf[KeyOf(Now(c))]] = TRUE
    BY <1>1, <1>6, <1>9, <2>3, TrackTyped DEF Obtained
  <2> QED
    BY <1>6, <1>7, <2>2, <2>4
<1>10. ASSUME NEW new, Moves(c, new) PROVE FALSE
  BY <1>1, <1>5, <1>10, MovesEffect DEF Moves
<1> QED
  BY <1>8, <1>9, <1>10, LookupEffect

LEMMA NextHealth == Shaped /\ HealthFollowsAnswers /\ [Next]_dataVars => HealthFollowsAnswers'
<1> SUFFICES ASSUME Shaped, HealthFollowsAnswers, [Next]_dataVars PROVE HealthFollowsAnswers'
  OBVIOUS
<1>1. CASE \E c \in Processes : LookupStep(c)
  BY <1>1, LookupHealth
<1>2. ASSUME NEW c \in Processes, Begin(c) PROVE HealthFollowsAnswers'
  <2>1. /\ \A d \in Processes \ {c} : call'[d] = call[d]
        /\ call'[c].pc = "gate" /\ health' = health
    BY <1>2 DEF Begin, Idle, Shaped, CallsShaped
  <2> QED
    BY <2>1 DEF HealthFollowsAnswers, At, Parts
<1>3. CASE UNCHANGED <<call, health>>
  BY <1>3 DEF HealthFollowsAnswers, At, Parts
<1> QED
  BY <1>1, <1>2, <1>3 DEF Next, Tick, Damage, EvictExpired, ClearSource, dataVars

-----------------------------------------------------------------------------
(* Theorems.                                                                 *)

DataInv ==
  Shaped /\ Fresh /\ FirstSourcesOnly /\ Accounted /\ HealthFollowsAnswers

\* The inductive invariant holds in every reachable state.
THEOREM DataInvariance == Spec => []DataInv
<1>1. Init => DataInv
  <2> SUFFICES ASSUME Init PROVE DataInv
    OBVIOUS
  <2>1. Shaped
    BY InitShaped
  <2>2. Fresh
    BY DEF Init, Fresh, AnswersAreCurrent, Delivered, Idle, Stored
  <2>3. \A c \in Processes : call[c].pc = "idle" /\ call[c].items = {} /\ call[c].request = None
    BY DEF Init, Idle
  <2>4. FirstSourcesOnly
    BY <2>3 DEF FirstSourcesOnly
  <2>5. Accounted /\ HealthFollowsAnswers
    BY <2>3, RequestDomain, InputsAssumption DEF Accounted, HealthFollowsAnswers
  <2> QED
    BY <2>1, <2>2, <2>4, <2>5 DEF DataInv
<1>2. DataInv /\ [Next]_dataVars => DataInv'
  BY NextShaped, NextFresh, NextFirstSources, NextAccounted, NextHealth DEF DataInv
<1> QED
  BY <1>1, <1>2, PTL DEF Spec

\* Every variable keeps its type, and a call what it is about.
THEOREM DataTypeCorrect == Spec => []DataTypeOK
<1>1. Shaped => DataTypeOK
  BY DEF Shaped, CallsShaped, CacheShaped, Call, DataTypeOK, At
<1> QED
  BY <1>1, DataInvariance, PTL DEF DataInv

\* No answer is damaged, expired or another key's, however the processes that
\* share the cache interleave.
THEOREM AnswersStayCurrent == Spec => []AnswersAreCurrent
<1>1. DataInv => AnswersAreCurrent
  BY DEF DataInv, Fresh
<1> QED
  BY <1>1, DataInvariance, PTL

\* A process in product mode asks no source and serves no entry that its
\* registry has not.
THEOREM ProductSourcesOnly == Spec => []FirstSourcesOnly
<1>1. DataInv => FirstSourcesOnly
  BY DEF DataInv
<1> QED
  BY <1>1, DataInvariance, PTL

\* A snapshot accounts for each of its parts, or was lost to the cache or to
\* an answer nobody can read.
THEOREM SnapshotsSurvive == Spec => []SnapshotSurvives
<1>1. DataInv => SnapshotSurvives
  <2> SUFFICES ASSUME DataInv, NEW c \in Processes, call[c].request = "get_market_snapshot",
                      At(c, "idle")
               PROVE  \/ /\ call[c].status = "answered"
                         /\ call[c].got + call[c].missed = Len(Requests["get_market_snapshot"])
                      \/ call[c].status = "raised" /\ call[c].cause \in {"cache", "unreadable"}
    BY DEF SnapshotSurvives
  <2>1. call[c].left = <<>> /\ call[c].got \in Nat /\ call[c].missed \in Nat
    BY DEF DataInv, Shaped, CallsShaped, Call, At
  <2>2. call[c].request # None
    BY RequestDomain, InputsAssumption
  <2> QED
    BY <2>1, <2>2 DEF DataInv, Accounted
<1> QED
  BY <1>1, DataInvariance, PTL

\* The health a process shows of a source agrees with the answer it last gave
\* in its name.
THEOREM HealthAgrees == Spec => []HealthFollowsAnswers
<1>1. DataInv => HealthFollowsAnswers
  BY DEF DataInv
<1> QED
  BY <1>1, DataInvariance, PTL
==============================================================================
