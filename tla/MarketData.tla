------------------------------ MODULE MarketData ------------------------------
(***************************************************************************)
(* The market data layer: DataAdapter over one adapter per source, and the *)
(* cache file that the processes of one user share.  A process runs one    *)
(* request at a time; a request looks up one datum or several.  For each   *)
(* it passes the gate of its data class, reads the cache, evicts what is   *)
(* damaged, asks the source where the cache has nothing, stores what came, *)
(* and keeps the health of the source.                                     *)
(*                                                                         *)
(* Reads, deletes and writes of the cache are separate commits, so that    *)
(* the processes interleave between them.  The content of a datum is the   *)
(* time at which its source delivered it.  There is one instrument: its    *)
(* quote is what get_quote, get_commodity, get_forex and get_index share.  *)
(* The counters and latencies of the health record are left out.           *)
(***************************************************************************)
EXTENDS Naturals, Sequences, FiniteSets, SequencesExt

CONSTANTS
  Processes,
  DevProcesses, \* those started with PAE_DEV_DATA=1
  Leftover,   \* keys that an earlier process left in the cache
  Issued,     \* bound: the requests that are made
  MaxRetries, \* attempts of a Yahoo fetch
  MaxTime,    \* bound: the clock
  MaxCalls,   \* bound: requests
  MaxDamage,  \* bound: entries damaged on disk
  None,
  Nothing,    \* the empty result of a search
  Garbage     \* what a damaged entry reads as

ASSUME DataAssumption ==
  /\ DevProcesses \subseteq Processes
  /\ MaxRetries \in Nat \ {0}
  /\ MaxTime \in Nat /\ MaxCalls \in Nat /\ MaxDamage \in Nat
  /\ {None, Nothing, Garbage} \cap Nat = {}

VARIABLES
  now,
  cache,    \* key -> entry, for the keys that have one
  health,   \* process -> source -> whether its last tracked request succeeded
  call,     \* process -> its request and, when idle, the answer
  fetched,  \* history: what sources delivered, as <<key, content>>
  calls, damaged

dataVars == <<now, cache, health, call, fetched, calls, damaged>>

-------------------------------------------------------------------------------
(* What is looked up, where, and for whom.                                   *)

Sources == {"yahoo", "french", "fred", "sec-edgar", "bank-of-canada", "eia"}
SourceOf ==
  [quote |-> "yahoo", history |-> "yahoo", found |-> "yahoo", factors |-> "french",
   series |-> "fred", tickers |-> "sec-edgar", facts |-> "sec-edgar",
   rates |-> "bank-of-canada", energy |-> "eia"]
Keys == DOMAIN SourceOf

\* Minutes, an hour, a day, a week.
Ttl ==
  [quote |-> 1, history |-> 2, rates |-> 2, energy |-> 2,
   factors |-> 3, series |-> 3, tickers |-> 3, facts |-> 3, found |-> 4]

\* A request is a sequence of lookups.
PriceRequests ==
  [get_quote |-> <<"quote">>, get_quotes |-> <<"quote", "quote">>, get_history |-> <<"history">>]
CommodityRequests ==
  [get_commodity |-> <<"commodity">>, get_forex |-> <<"forex">>, get_index |-> <<"index">>]
SearchRequest == [search |-> <<"search">>]
FactorRequests == [get_factors |-> <<"factors">>]
\* The server's decomposition of a portfolio asks the adapter for the factors itself.
DecompositionRequest == [factor_decomposition |-> <<"ff5">>]
SeriesRequests == [get_macro_series |-> <<"macro">>, get_risk_free_rate |-> <<"macro">>]
FactsRequest == [get_company_facts |-> <<"tickers", "facts">>]
FirstSourceRequests == [get_cad_series |-> <<"rates">>, get_energy_price |-> <<"energy">>]
SnapshotRequest == [get_market_snapshot |-> <<"quote", "commodity", "forex", "index", "macro">>]

Requests ==
  [request \in UNION {DOMAIN PriceRequests, DOMAIN CommodityRequests, DOMAIN SearchRequest,
                      DOMAIN FactorRequests, DOMAIN DecompositionRequest, DOMAIN SeriesRequests,
                      DOMAIN FactsRequest, DOMAIN FirstSourceRequests, DOMAIN SnapshotRequest} |->
    CASE request \in DOMAIN PriceRequests        -> PriceRequests[request]
      [] request \in DOMAIN CommodityRequests    -> CommodityRequests[request]
      [] request \in DOMAIN SearchRequest        -> SearchRequest[request]
      [] request \in DOMAIN FactorRequests       -> FactorRequests[request]
      [] request \in DOMAIN DecompositionRequest -> DecompositionRequest[request]
      [] request \in DOMAIN SeriesRequests       -> SeriesRequests[request]
      [] request \in DOMAIN FactsRequest         -> FactsRequest[request]
      [] request \in DOMAIN FirstSourceRequests  -> FirstSourceRequests[request]
      [] request \in DOMAIN SnapshotRequest      -> SnapshotRequest[request]]

ASSUME InputsAssumption ==
  /\ Leftover \subseteq Keys
  /\ Issued \subseteq DOMAIN Requests
  /\ None \notin DOMAIN Requests \cup {"answered", "source"}

\* The datum a lookup shares with others under another name.
Shared ==
  [commodity |-> "quote", forex |-> "quote", index |-> "quote", search |-> "found",
   ff5 |-> "factors", macro |-> "series"]

KeyOf(part) == IF part \in DOMAIN Shared THEN Shared[part] ELSE part

Tracked(part) == part \notin {"commodity", "forex", "index", "search", "ff5"}

\* The registry: prices and quotes_metadata have no compliant source; the
\* commodity provider is closed with them.
Gaps == {"quote", "history", "commodity", "forex", "index", "search"}

\* Refused by the adapter before the cache is read: an empty symbol, a series
\* off the allowlist, no key for EIA; a ticker that the mapping lacks.
Refusable == {"quote", "history", "macro", "energy", "facts"}

\* A failure of one lookup does not end these requests.
Continues(request) == request \in {"get_market_snapshot", "get_quotes", "search"}

\* Mutant: a snapshot catches only what its quotes raise.
EscapesSourceErrors(request, part, kind) ==
  \/ kind \in {"cache", "unreadable"}
  \/ kind = "source" /\ request = "get_market_snapshot" /\ part \in {"index", "macro"}

\* CacheError, and what an adapter raises on an answer it cannot read, are
\* caught only around the lists of commodities and forex of a snapshot.
Escapes(request, part, kind) ==
  /\ kind \in {"cache", "unreadable"}
  /\ ~(request = "get_market_snapshot" /\ part \in {"commodity", "forex"})

Contents == 0..MaxTime \cup {Nothing}

\* Mutant: every key gets the time to live of a quote, the default of put.
StoredAsQuote(k, content, time) ==
  [content |-> content, stored |-> time, expires |-> time + Ttl["quote"], intact |-> TRUE]

Stored(k, content, time) ==
  [content |-> content, stored |-> time, expires |-> time + Ttl[k], intact |-> TRUE]

Entry == [content : Contents, stored : 0..MaxTime, expires : Nat, intact : BOOLEAN]
Item == [key : Keys, content : Contents \cup {Garbage}, age : 0..MaxTime]

Idle == [pc |-> "idle", request |-> None, left |-> <<>>, attempt |-> 0, content |-> None,
         items |-> {}, got |-> 0, missed |-> 0, status |-> None, cause |-> None]

Init ==
  /\ now = 0
  /\ cache = [k \in Leftover |-> Stored(k, 0, 0)]
  /\ health = [c \in Processes |-> [s \in Sources |-> TRUE]]
  /\ call = [c \in Processes |-> Idle]
  /\ fetched = {<<k, 0>> : k \in Leftover}
  /\ calls = 0 /\ damaged = 0

-------------------------------------------------------------------------------
(* One lookup.                                                               *)

At(c, pc) == call[c].pc = pc
Now(c) == Head(call[c].left)
Goes(c, pc) == call' = [call EXCEPT ![c].pc = pc]
Without(k) == [x \in DOMAIN cache \ {k} |-> cache[x]]
Read(entry) == IF entry.intact THEN entry.content ELSE Garbage

Answers(c, status, cause) ==
  call' = [call EXCEPT ![c] = [@ EXCEPT !.pc = "idle", !.left = <<>>, !.attempt = 0,
             !.content = None, !.status = status, !.cause = cause]]

\* The next lookup, or the answer.
Continue(c, new) ==
  LET old == call[c]
      rest == Tail(old.left)
  IN  call' = [call EXCEPT ![c] = [old EXCEPT !.items = old.items \cup new,
                 !.got = old.got + Cardinality(new), !.missed = old.missed + 1 - Cardinality(new),
                 !.left = rest, !.attempt = 0, !.content = None,
                 !.pc = IF rest = <<>> THEN "idle" ELSE "gate",
                 !.status = IF rest = <<>> THEN "answered" ELSE old.status]]

\* Mutant: only failures are tracked, a success does not heal.
TrackFailures(c, part, ok) ==
  health' = IF Tracked(part) /\ ~ok
            THEN [health EXCEPT ![c][SourceOf[KeyOf(part)]] = FALSE] ELSE health

\* _track_request; the ticker mapping counts only when it fails.
Track(c, part, ok) ==
  health' = IF Tracked(part) /\ ~(part = "tickers" /\ ok)
            THEN [health EXCEPT ![c][SourceOf[KeyOf(part)]] = ok] ELSE health

Obtained(c, content, age) ==
  /\ Continue(c, {[key |-> KeyOf(Now(c)), content |-> content, age |-> age]})
  /\ Track(c, Now(c), TRUE)

\* kind: "gap", "source", "cache" or "unreadable".
Fails(c, kind) ==
  /\ IF Escapes(call[c].request, Now(c), kind) THEN Answers(c, "raised", kind)
     ELSE IF Continues(call[c].request)
          THEN Continue(c, {})
          ELSE Answers(c, "failed", kind)
  /\ IF kind = "source" THEN Track(c, Now(c), FALSE) ELSE UNCHANGED health

Begin(c) ==
  /\ At(c, "idle") /\ calls < MaxCalls
  /\ \E request \in Issued :
       call' = [call EXCEPT ![c] = [Idle EXCEPT !.pc = "gate", !.request = request,
                                                !.left = Requests[request]]]
  /\ calls' = calls + 1
  /\ UNCHANGED <<now, cache, health, fetched, damaged>>

\* Mutant: what the cache holds is served without asking the registry.
GateAfterCache(c) ==
  /\ At(c, "gate")
  /\ IF Now(c) \in Gaps /\ c \notin DevProcesses /\ KeyOf(Now(c)) \notin DOMAIN cache
     THEN Fails(c, "gap")
     ELSE Goes(c, "look") /\ UNCHANGED health
  /\ UNCHANGED <<now, cache, fetched, calls, damaged>>

Gate(c) ==
  /\ At(c, "gate")
  /\ IF Now(c) \in Gaps /\ c \notin DevProcesses THEN Fails(c, "gap")
     ELSE Goes(c, "look") /\ UNCHANGED health
  /\ UNCHANGED <<now, cache, fetched, calls, damaged>>

Refuse(c) ==
  /\ At(c, "look") /\ Now(c) \in Refusable
  /\ Fails(c, "source")
  /\ UNCHANGED <<now, cache, fetched, calls, damaged>>

\* Mutant: the checksum is not compared.
LookUnchecked(c) ==
  LET k == KeyOf(Now(c))
  IN  /\ At(c, "look")
      /\ IF k \in DOMAIN cache /\ cache[k].expires > now
         THEN Obtained(c, Read(cache[k]), now - cache[k].stored)
         ELSE Goes(c, "fetch") /\ UNCHANGED health
      /\ UNCHANGED <<now, cache, fetched, calls, damaged>>

\* DataCache.get: the key, not expired, with a checksum that matches.
Look(c) ==
  LET k == KeyOf(Now(c))
  IN  /\ At(c, "look")
      /\ IF k \in DOMAIN cache /\ cache[k].expires > now
         THEN IF cache[k].intact
              THEN Obtained(c, Read(cache[k]), now - cache[k].stored)
              ELSE Goes(c, "evict") /\ UNCHANGED health
         ELSE Goes(c, "fetch") /\ UNCHANGED health
      /\ UNCHANGED <<now, cache, fetched, calls, damaged>>

\* By now another process may have stored the key again.
Evict(c) ==
  /\ At(c, "evict")
  /\ cache' = Without(KeyOf(Now(c)))
  /\ Goes(c, "fetch")
  /\ UNCHANGED <<now, health, fetched, calls, damaged>>

Fetch(c) ==
  /\ At(c, "fetch")
  /\ call' = [call EXCEPT ![c] = [@ EXCEPT !.pc = "store", !.content = now]]
  /\ fetched' = fetched \cup {<<KeyOf(Now(c)), now>>}
  /\ UNCHANGED <<now, cache, health, calls, damaged>>

\* The download fails, or what came is no such file: the adapter's own error.
SourceFails(c) ==
  /\ At(c, "fetch") /\ SourceOf[KeyOf(Now(c))] # "yahoo"
  /\ Fails(c, "source")
  /\ UNCHANGED <<now, cache, fetched, calls, damaged>>

\* Mutant: the attempts are not counted.
YahooRetriesForever(c) ==
  /\ At(c, "fetch") /\ Now(c) # "search" /\ SourceOf[KeyOf(Now(c))] = "yahoo"
  /\ call' = [call EXCEPT ![c].attempt = (@ + 1) % MaxRetries]
  /\ UNCHANGED <<now, cache, health, fetched, calls, damaged>>

\* Yahoo is asked again, up to MaxRetries times.
YahooFails(c) ==
  /\ At(c, "fetch") /\ Now(c) # "search" /\ SourceOf[KeyOf(Now(c))] = "yahoo"
  /\ IF call[c].attempt + 1 < MaxRetries
     THEN call' = [call EXCEPT ![c].attempt = @ + 1] /\ UNCHANGED health
     ELSE Fails(c, "source")
  /\ UNCHANGED <<now, cache, fetched, calls, damaged>>

\* A search that fails has found nothing, and that is stored.
SearchFails(c) ==
  /\ At(c, "fetch") /\ Now(c) = "search"
  /\ call' = [call EXCEPT ![c] = [@ EXCEPT !.pc = "store", !.content = Nothing]]
  /\ UNCHANGED <<now, cache, health, fetched, calls, damaged>>

\* What came passes for an answer and cannot be converted.
FetchUnreadable(c) ==
  /\ At(c, "fetch") /\ Now(c) # "search"
  /\ Fails(c, "unreadable")
  /\ UNCHANGED <<now, cache, fetched, calls, damaged>>

\* DataCache.put.
Put(c) ==
  LET k == KeyOf(Now(c))
      entry == Stored(k, call[c].content, now)
  IN  /\ At(c, "store")
      /\ cache' = [x \in DOMAIN cache \cup {k} |-> IF x = k THEN entry ELSE cache[x]]
      /\ Obtained(c, call[c].content, 0)
      /\ UNCHANGED <<now, fetched, calls, damaged>>

\* A statement on the cache file fails; what was fetched is not returned.
CacheFails(c) ==
  /\ call[c].pc \in {"look", "evict", "store"}
  /\ Fails(c, "cache")
  /\ UNCHANGED <<now, cache, fetched, calls, damaged>>

-------------------------------------------------------------------------------
(* Around the requests.                                                      *)

Tick == now < MaxTime /\ now' = now + 1 /\ UNCHANGED <<cache, health, call, fetched, calls, damaged>>

Damage ==
  /\ damaged < MaxDamage
  /\ \E k \in DOMAIN cache : cache[k].intact /\ cache' = [cache EXCEPT ![k].intact = FALSE]
  /\ damaged' = damaged + 1
  /\ UNCHANGED <<now, health, call, fetched, calls>>

EvictExpired ==
  /\ \E k \in DOMAIN cache : cache[k].expires <= now
  /\ cache' = [k \in {x \in DOMAIN cache : cache[x].expires > now} |-> cache[k]]
  /\ UNCHANGED <<now, health, call, fetched, calls, damaged>>

ClearSource ==
  /\ \E k \in DOMAIN cache :
       cache' = [x \in {y \in DOMAIN cache : SourceOf[y] # SourceOf[k]} |-> cache[x]]
  /\ UNCHANGED <<now, health, call, fetched, calls, damaged>>

LookupStep(c) ==
  \/ Gate(c) \/ Refuse(c) \/ Look(c) \/ Evict(c)
  \/ Fetch(c) \/ SourceFails(c) \/ YahooFails(c) \/ SearchFails(c) \/ FetchUnreadable(c)
  \/ Put(c) \/ CacheFails(c)

Next ==
  \/ \E c \in Processes : Begin(c) \/ LookupStep(c)
  \/ Tick \/ Damage \/ EvictExpired \/ ClearSource

Spec == Init /\ [][Next]_dataVars

\* Every statement and every fetch returns or times out.
FairSpec == Spec /\ \A c \in Processes : WF_dataVars(LookupStep(c))

-------------------------------------------------------------------------------
(* Properties.                                                               *)

Parts(c) == IF call[c].request = None THEN {} ELSE ToSet(Requests[call[c].request])

\* Shape of the cache, of the calls and of their answers; a call in progress
\* has a lookup left and what it has seen so far is of its own request.
DataTypeOK ==
  /\ DOMAIN cache \subseteq Keys
  /\ \A k \in DOMAIN cache : cache[k] \in Entry /\ cache[k].expires = cache[k].stored + Ttl[k]
  /\ health \in [Processes -> [Sources -> BOOLEAN]]
  /\ \A c \in Processes :
       /\ call[c].items \subseteq Item
       /\ \A i \in call[c].items : \E part \in Parts(c) : i.key = KeyOf(part)
       /\ At(c, "idle") <=> call[c].left = <<>>
       /\ call[c].attempt \in 0..(MaxRetries - 1)

\* Whatever a request returns, its source delivered it for that very key, and
\* the cache had held it for less than its time to live: nothing damaged,
\* expired or of another key is served, however the processes interleave.
AnswersAreCurrent ==
  \A c \in Processes : \A i \in call[c].items :
    /\ \/ <<i.key, i.content>> \in fetched
       \/ i.key = "found" /\ i.content = Nothing
    /\ i.age < Ttl[i.key]

\* "Nothing in this layer ever falls back silently to a non-compliant source":
\* a process in product mode neither asks Yahoo nor serves what a development
\* process left in the cache they share.
FirstSourcesOnly ==
  \A c \in Processes \ DevProcesses :
    /\ \A i \in call[c].items : SourceOf[i.key] # "yahoo"
    /\ call[c].pc \in {"look", "evict", "fetch", "store"} => SourceOf[KeyOf(Now(c))] # "yahoo"

\* "Continues past individual failures": a snapshot accounts for every part of
\* it, with data or an error, and is lost only to the cache or to an answer
\* nobody can read, never to a source that fails.
SnapshotSurvives ==
  \A c \in Processes :
    call[c].request = "get_market_snapshot" /\ At(c, "idle") =>
      \/ call[c].status = "answered"
         /\ call[c].got + call[c].missed = Len(Requests["get_market_snapshot"])
      \/ call[c].status = "raised" /\ call[c].cause \in {"cache", "unreadable"}

\* What a request of one tracked source returned agrees with the health shown:
\* it answered and the source is healthy, or the source failed and is not.
HealthFollowsAnswers ==
  \A c \in Processes :
    At(c, "idle") /\ call[c].request # None /\ ~Continues(call[c].request) =>
      \A part \in Parts(c) :
        Tracked(part) =>
          /\ call[c].status = "answered" => health[c][SourceOf[KeyOf(part)]]
          /\ call[c].cause = "source" => ~health[c][SourceOf[KeyOf(part)]]

\* Every request ends, also while Yahoo keeps failing.
EveryCallEnds == \A c \in Processes : ~At(c, "idle") ~> At(c, "idle")
===============================================================================
