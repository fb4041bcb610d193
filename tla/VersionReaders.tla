---------------------------- MODULE VersionReaders ----------------------------
(***************************************************************************)
(* The requests that read the version store while others append to it:     *)
(* history, point-in-time snapshots, diffs of two snapshots and integrity  *)
(* reports.  Each takes the read lock of the index once per look at it,    *)
(* so a diff and an integrity report see the index at two moments, with    *)
(* appends in between.                                                     *)
(*                                                                         *)
(* A snapshot is kept as the version number it selects per entity: hash    *)
(* and content follow from it in an intact chain.                          *)
(***************************************************************************)
EXTENDS VersionStore

CONSTANTS
  Readers            \* concurrent read requests

VARIABLES
  rpc,        \* [Readers -> {"idle", "asked", "half"}]
  asked,      \* [Readers -> Query \cup {None}], the request being served
  half,       \* [Readers -> Partial \cup {None}], what the first look saw
  answer,     \* [Readers -> Result \cup {None}], the answer just given
  before,     \* history: [Readers -> SUBSET Record], acknowledged before the request
  audited,    \* history: [Instant -> Snapshot \cup {None}], first answer about a past
              \* instant, by an engine with its database, since power was lost
  setBack     \* history: was the clock ever set back?

readerVars == <<rpc, asked, half, answer, before, audited, setBack>>
allVars == <<vars, readerVars>>

Instant == 0..MaxClock
NoFilter == {}
Filter == {NoFilter} \cup {{t} : t \in Types}

\* The limit of a history: at MaxRequests, no chain is longer, so it is none.
Limit == 0..MaxRequests

Query ==
  [kind : {"history"}, engine : Engines, entity : Entities, limit : Limit]
    \cup [kind : {"latest", "integrity"}, engine : Engines, entity : Entities]
    \cup [kind : {"snapshot"}, engine : Engines, as_of : Instant, types : Filter]
    \cup [kind : {"diff"}, engine : Engines, from : Instant, to : Instant, types : Filter]

------------------------------------------------------------------------------
(* What one look at the index of engine g returns.                           *)

\* The versions of e a snapshot may select.
Eligible(g, e, as_of, types) ==
  {i \in 1..Len(records[g][e]) :
     /\ records[g][e][i].created_at <= as_of
     /\ types = NoFilter \/ records[g][e][i].type \in types}

\* snapshot_records: per entity, the last eligible version, if any.
SnapshotRecords(g, as_of, types) ==
  [e \in {d \in Entities : Eligible(g, d, as_of, types) # {}} |->
     Max(Eligible(g, e, as_of, types))]

\* SnapshotEngine::diff, once both snapshots are there.
Diff(old, new) ==
  [added    |-> DOMAIN new \ DOMAIN old,
   removed  |-> DOMAIN old \ DOMAIN new,
   modified |-> {<<e, old[e], new[e]>> :
                   e \in {d \in DOMAIN old \cap DOMAIN new : old[d] # new[d]}}]

------------------------------------------------------------------------------
ReaderInit ==
  /\ Init
  /\ rpc = [r \in Readers |-> "idle"]
  /\ asked = [r \in Readers |-> None]
  /\ half = [r \in Readers |-> None]
  /\ answer = [r \in Readers |-> None]
  /\ before = [r \in Readers |-> {}]
  /\ audited = [t \in Instant |-> None]
  /\ setBack = FALSE

\* What was acknowledged and has not been lost with the power since.
StillAcked == {a \in acked : losses = 0 \/ InTable(a)}

\* A read request reaches a serving engine.
BeginRead(r, q) ==
  /\ rpc[r] = "idle"
  /\ phase[q.engine] = "serving"
  /\ rpc' = [rpc EXCEPT ![r] = "asked"]
  /\ asked' = [asked EXCEPT ![r] = q]
  /\ answer' = [answer EXCEPT ![r] = None]
  /\ before' = [before EXCEPT ![r] = StillAcked]
  /\ UNCHANGED <<vars, half, audited, setBack>>

\* r looks at the index of g: it waits for the writer that holds the lock.
Looks(r, step, kind) ==
  /\ rpc[r] = step
  /\ asked[r].kind = kind
  /\ writer[asked[r].engine] = None

Answers(r, result) ==
  /\ rpc' = [rpc EXCEPT ![r] = "idle"]
  /\ asked' = [asked EXCEPT ![r] = None]
  /\ half' = [half EXCEPT ![r] = None]
  /\ answer' = [answer EXCEPT ![r] = [query |-> asked[r], result |-> result]]
  /\ UNCHANGED <<vars, before, setBack>>

KeepsHalf(r, x) ==
  /\ rpc' = [rpc EXCEPT ![r] = "half"]
  /\ half' = [half EXCEPT ![r] = x]
  /\ UNCHANGED <<vars, asked, answer, before, audited, setBack>>

\* get_history: the versions of the entity from the first one on, as many as
\* the limit lets through, or the last one alone (latest_only).
ReadHistory(r) ==
  LET chain == records[asked[r].engine][asked[r].entity]
  IN  /\ \/ /\ Looks(r, "asked", "history")
            /\ Answers(r, IF asked[r].limit < Len(chain)
                          THEN SubSeq(chain, 1, asked[r].limit)
                          ELSE chain)
         \/ /\ Looks(r, "asked", "latest")
            /\ Answers(r, IF chain = <<>> THEN <<>> ELSE <<chain[Len(chain)]>>)
      /\ UNCHANGED audited

\* The first unfiltered snapshot of an instant already past is remembered, if
\* the engine has its database.
Audits(q, s) ==
  audited' = IF /\ backend[q.engine]
                /\ q.types = NoFilter /\ q.as_of < now /\ audited[q.as_of] = None
               THEN [audited EXCEPT ![q.as_of] = s]
               ELSE audited

\* Mutant: the snapshot does not wait for the write lock.
ReadSnapshotUnlocked(r) ==
  /\ rpc[r] = "asked"
  /\ asked[r].kind = "snapshot"
  /\ LET s == SnapshotRecords(asked[r].engine, asked[r].as_of, asked[r].types)
     IN  Answers(r, s) /\ Audits(asked[r], s)

\* get_snapshot.
ReadSnapshot(r) ==
  /\ Looks(r, "asked", "snapshot")
  /\ LET s == SnapshotRecords(asked[r].engine, asked[r].as_of, asked[r].types)
     IN  Answers(r, s) /\ Audits(asked[r], s)

\* Mutant: the snapshot at "to" is taken before the one at "from".
ReadDiffToFirst(r) ==
  \/ /\ Looks(r, "asked", "diff")
     /\ KeepsHalf(r, SnapshotRecords(asked[r].engine, asked[r].to, asked[r].types))
  \/ /\ Looks(r, "half", "diff")
     /\ Answers(r, Diff(SnapshotRecords(asked[r].engine, asked[r].from, asked[r].types), half[r]))
     /\ UNCHANGED audited

\* get_diff takes the snapshot at "from" and then, under a lock taken again,
\* the one at "to".
ReadDiff(r) ==
  \/ /\ Looks(r, "asked", "diff")
     /\ KeepsHalf(r, SnapshotRecords(asked[r].engine, asked[r].from, asked[r].types))
  \/ /\ Looks(r, "half", "diff")
     /\ Answers(r, Diff(half[r], SnapshotRecords(asked[r].engine, asked[r].to, asked[r].types)))
     /\ UNCHANGED audited

\* Mutant: the versions are counted before the chain is verified.
ReadIntegrityCountFirst(r) ==
  LET chain == records[asked[r].engine][asked[r].entity]
  IN  \/ /\ Looks(r, "asked", "integrity")
         /\ KeepsHalf(r, Len(chain))
      \/ /\ Looks(r, "half", "integrity")
         /\ Answers(r, [chain_valid |-> VerifyChain(chain), verified |-> Len(chain),
                        total |-> half[r]])
         /\ UNCHANGED audited

\* verify_integrity verifies the chain and then, under a lock taken again,
\* counts its versions ("verified" is what the verdict was about).
ReadIntegrity(r) ==
  LET chain == records[asked[r].engine][asked[r].entity]
  IN  \/ /\ Looks(r, "asked", "integrity")
         /\ KeepsHalf(r, [chain_valid |-> VerifyChain(chain), verified |-> Len(chain)])
      \/ /\ Looks(r, "half", "integrity")
         /\ Answers(r, [chain_valid |-> half[r].chain_valid, verified |-> half[r].verified,
                        total |-> Len(chain)])
         /\ UNCHANGED audited

\* An engine that goes down takes its read requests with it.  (An answer is
\* kept only in the state it is given in.)
ReadersVanish ==
  LET cut == {r \in Readers : rpc[r] # "idle" /\ phase'[asked[r].engine] = "down"}
  IN  /\ rpc' = [r \in Readers |-> IF r \in cut THEN "idle" ELSE rpc[r]]
      /\ asked' = [r \in Readers |-> IF r \in cut THEN None ELSE asked[r]]
      /\ half' = [r \in Readers |-> IF r \in cut THEN None ELSE half[r]]
      /\ answer' = [r \in Readers |-> None]
      /\ setBack' = (setBack \/ now' < now)
      /\ audited' = IF losses' = losses THEN audited ELSE [t \in Instant |-> None]
      /\ UNCHANGED before

ReadStep(r) ==
  \/ \E q \in Query : BeginRead(r, q)
  \/ ReadHistory(r)
  \/ ReadSnapshot(r)
  \/ ReadDiff(r)
  \/ ReadIntegrity(r)

ReaderNext ==
  \/ Next /\ ReadersVanish
  \/ \E r \in Readers : ReadStep(r)

ReaderSpec == ReaderInit /\ [][ReaderNext]_allVars

------------------------------------------------------------------------------
(* Properties.                                                               *)

\* What was once answered about an instant already past is what would be
\* answered now, whatever was appended, failed or crashed in between
\* (snapshot.rs:16, "Prove that these were my holdings on date Z").  The
\* write lock is why: the clock is read under it and a snapshot waits for it,
\* so no version with an old timestamp can turn up later.  One engine at a
\* time over the database, a clock that is not set back, and no power lost in
\* between; an engine whose load failed answers from its own memory.
SnapshotRepeatable ==
  ~setBack => \A g \in Engines, t \in Instant :
    /\ phase[g] = "serving"
    /\ backend[g]
    /\ writer[g] = None
    /\ audited[t] # None
    => SnapshotRecords(g, t, NoFilter) = audited[t]

Answered(r, kind) == answer[r] # None /\ answer[r].query.kind = kind

\* A diff over a window that runs forwards removes nothing and never goes
\* back to an older version, although its two halves see the index at
\* different moments, types are filtered and the clock may have been set back
\* between versions (snapshot.rs:46, "removed is empty by construction").
DiffForward ==
  \A r \in Readers : Answered(r, "diff") =>
    LET q == answer[r].query
        d == answer[r].result
    IN  q.from <= q.to => /\ d.removed = {}
                          /\ \A m \in d.modified : m[2] < m[3]

\* An integrity report says the chain is valid and counts at least the
\* versions its verdict was about, none of them left out by the second look.
IntegrityReported ==
  \A r \in Readers : Answered(r, "integrity") =>
    answer[r].result.chain_valid /\ answer[r].result.verified <= answer[r].result.total

\* A history read after an append was acknowledged holds that version, if its
\* limit reaches it, and the latest version is that one or a later one; also
\* when the engine was stopped or killed and started again in between; after a
\* power loss this is so of those that were not lost.
HistoryHasAcked ==
  \A r \in Readers : answer[r] # None /\ backend[answer[r].query.engine] =>
    LET q == answer[r].query
        listed == answer[r].result
    IN  /\ q.kind = "history" =>
             \A a \in before[r] : a.entity = q.entity /\ a.version <= q.limit =>
               a.version \in 1..Len(listed) /\ listed[a.version] = a
        /\ q.kind = "latest" =>
             \A a \in before[r] : a.entity = q.entity =>
               Len(listed) = 1 /\ listed[1].version >= a.version
==============================================================================
