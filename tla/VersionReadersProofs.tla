------------------------- MODULE VersionReadersProofs -------------------------
(***************************************************************************)
(* Machine-checked facts about VersionReaders, for any number of requests  *)
(* that read and append, any engines and any bounds.                       *)
(***************************************************************************)
EXTENDS VersionReaders, VersionStoreProofs, WellFoundedInduction

-----------------------------------------------------------------------------
(* The greatest number of a set.                                             *)

\* Of numbers up to n there is a greatest.
LEMMA MaxOf ==
  ASSUME NEW n \in Nat, NEW S \in SUBSET (1..n), S # {}
  PROVE  Max(S) \in S /\ \A y \in S : Max(S) >= y
<1> DEFINE below == {n - x : x \in S}
<1>1. below \subseteq Nat /\ below # {}
  <2>1. \A x \in S : x \in 1..n /\ n - x \in Nat
    OBVIOUS
  <2> QED
    BY <2>1
<1>2. PICK d \in below : \A y \in below : ~(<<y, d>> \in OpToRel(<, Nat))
  BY <1>1, NatLessThanWellFounded, WFMin
<1>3. \A y \in below : ~(y < d)
  BY <1>1, <1>2 DEF OpToRel
<1>4. PICK x \in S : d = n - x
  OBVIOUS
<1>5. \A y \in S : x >= y
  <2> SUFFICES ASSUME NEW y \in S PROVE x >= y
    OBVIOUS
  <2>1. n - y \in below
    OBVIOUS
  <2>2. ~(n - y < n - x)
    BY <2>1, <1>3, <1>4
  <2> QED
    BY <2>2
<1> QED
  BY <1>5 DEF Max

-----------------------------------------------------------------------------
(* Indexes only grow while their engine lives.                               *)

Longer(chain, longer) ==
  Len(chain) <= Len(longer) /\ \A i \in 1..Len(chain) : longer[i] = chain[i]

LEMMA IndexGrows ==
  ASSUME IInv, [Next]_vars, NEW g \in Engines, phase[g] # "down", phase'[g] # "down",
         NEW e \in Entities
  PROVE  Longer(records[g][e], records'[g][e])
<1> USE DEF IInv
<1>1. records[g][e] \in Seq(Record)
  BY DEF TypeOK
<1>2. Longer(records[g][e], records[g][e])
  BY <1>1 DEF Longer
<1>3. CASE \E c \in Clients : IndexRecord(c)
  <2>1. PICK c \in Clients : IndexRecord(c)
    BY <1>3
  <2>2. pending[c] \in Record
    BY <2>1 DEF IndexRecord, TypeOK
  <2>3. records'[g][e] \in {records[g][e], Append(records[g][e], pending[c])}
    BY <2>1 DEF IndexRecord, TypeOK
  <2> QED
    BY <1>1, <1>2, <2>2, <2>3 DEF Longer
<1>4. CASE \E h \in Engines : Launch(h) \/ Exit(h) \/ Crash(h)
  <2>1. ASSUME NEW h \in Engines, Launch(h) PROVE records'[g] = records[g]
    BY <2>1 DEF Launch, TypeOK
  <2>2. ASSUME NEW h \in Engines, Vanish({h}) PROVE records'[g] = records[g]
    BY <2>2 DEF Vanish
  <2> QED
    BY <1>2, <1>4, <2>1, <2>2 DEF Exit, Crash
<1>5. CASE PowerLoss
  BY <1>5 DEF PowerLoss, Vanish
<1>6. CASE UNCHANGED records
  BY <1>2, <1>6
<1> QED
  BY <1>3, <1>4, <1>5, <1>6
     DEF Next, BeginAppend, HandlerStep, BuildRecord, PersistRecord, PersistFails, Respond,
         BindPort, RequestStop, Checkpoint, Tick, StepBack, vars

\* What is eligible for a snapshot in one chain.
EligibleIn(chain, at, types) ==
  {i \in 1..Len(chain) : /\ chain[i].created_at <= at
                         /\ types = NoFilter \/ chain[i].type \in types}

\* It stays eligible when the chain grows.
LEMMA EligibleGrows ==
  ASSUME NEW chain \in Seq(Record), NEW longer \in Seq(Record), Longer(chain, longer),
         NEW at, NEW types
  PROVE  EligibleIn(chain, at, types) \subseteq EligibleIn(longer, at, types)
  BY DEF Longer, EligibleIn

\* A snapshot selects, for the entities that have one, an eligible version
\* after which there is none.
LEMMA SnapshotSelects ==
  ASSUME TypeOK, NEW g \in Engines, NEW at, NEW types
  PROVE  /\ DOMAIN SnapshotRecords(g, at, types) \subseteq Entities
         /\ \A e \in Entities :
              Eligible(g, e, at, types) # {} => e \in DOMAIN SnapshotRecords(g, at, types)
         /\ \A e \in DOMAIN SnapshotRecords(g, at, types) :
              /\ SnapshotRecords(g, at, types)[e] \in Eligible(g, e, at, types)
              /\ \A i \in Eligible(g, e, at, types) : SnapshotRecords(g, at, types)[e] >= i
<1> SUFFICES ASSUME NEW e \in Entities, Eligible(g, e, at, types) # {}
             PROVE  /\ Max(Eligible(g, e, at, types)) \in Eligible(g, e, at, types)
                    /\ \A i \in Eligible(g, e, at, types) : Max(Eligible(g, e, at, types)) >= i
  BY DEF SnapshotRecords
<1>1. Len(records[g][e]) \in Nat
  BY DEF TypeOK
<1>2. Eligible(g, e, at, types) \subseteq 1..Len(records[g][e])
  BY DEF Eligible
<1> QED
  BY <1>1, <1>2, MaxOf

-----------------------------------------------------------------------------
(* The inductive invariant of the readers.                                   *)

\* A request in progress is a query, at an engine that lives.
Reading(r) == rpc[r] # "idle"

ReadersTyped ==
  /\ rpc \in [Readers -> {"idle", "asked", "half"}]
  /\ DOMAIN asked = Readers /\ DOMAIN half = Readers /\ DOMAIN answer = Readers
  /\ before \in [Readers -> SUBSET Record]
  /\ DOMAIN audited = Instant
  /\ setBack \in BOOLEAN
  /\ \A r \in Readers : Reading(r) => asked[r] \in Query /\ phase[asked[r].engine] # "down"

\* The first snapshot of a diff selected versions that are still eligible, and
\* the verdict of an integrity report was about versions that are still there.
HalfHolds ==
  \A r \in Readers : rpc[r] = "half" =>
    LET q == asked[r]
    IN  /\ q.kind = "diff" =>
             /\ DOMAIN half[r] \subseteq Entities
             /\ \A e \in DOMAIN half[r] : half[r][e] \in Eligible(q.engine, e, q.from, q.types)
        /\ q.kind = "integrity" =>
             /\ half[r].chain_valid
             /\ half[r].verified \in Nat
             /\ half[r].verified <= Len(records[q.engine][q.entity])

ReaderInv == IInv /\ ReadersTyped /\ HalfHolds /\ DiffForward /\ IntegrityReported

LEMMA QueryFields ==
  ASSUME NEW q \in Query
  PROVE  /\ q.engine \in Engines
         /\ q.kind \in {"history", "latest", "integrity"} => q.entity \in Entities
         /\ q.kind = "history" => q.limit \in Nat
         /\ q.kind = "snapshot" => q.as_of \in Instant
         /\ q.kind = "diff" => q.from \in Nat /\ q.to \in Nat
  BY BoundsAssumption DEF Query, Instant, Limit

LEMMA ReaderInitInv == ReaderInit => ReaderInv
<1> SUFFICES ASSUME ReaderInit PROVE ReaderInv
  OBVIOUS
<1>1. IInv
  BY InitIInv DEF ReaderInit
<1>2. ReadersTyped
  BY DEF ReaderInit, ReadersTyped, Reading
<1>3. HalfHolds /\ DiffForward /\ IntegrityReported
  BY DEF ReaderInit, HalfHolds, DiffForward, IntegrityReported, Answered
<1> QED
  BY <1>1, <1>2, <1>3 DEF ReaderInv

\* Appends, and engines that come and go: the readers of a dead engine are cut
\* off, the others find longer chains.
LEMMA StoreStepInv ==
  ASSUME ReaderInv, Next, ReadersVanish
  PROVE  ReaderInv'
<1> USE DEF ReaderInv
<1>1. IInv'
  BY NextIInv
<1>2. ASSUME NEW r \in Readers, rpc'[r] # "idle"
      PROVE  /\ rpc'[r] = rpc[r] /\ asked'[r] = asked[r] /\ half'[r] = half[r]
             /\ rpc[r] # "idle" /\ asked[r] \in Query
             /\ phase[asked[r].engine] # "down" /\ phase'[asked[r].engine] # "down"
  BY <1>2 DEF ReadersVanish, ReadersTyped, Reading
<1>3. ReadersTyped'
  <2>1. rpc' \in [Readers -> {"idle", "asked", "half"}]
    BY DEF ReadersVanish, ReadersTyped
  <2>2. DOMAIN asked' = Readers /\ DOMAIN half' = Readers /\ DOMAIN answer' = Readers
    BY DEF ReadersVanish
  <2>3. before' = before /\ DOMAIN audited' = Instant /\ setBack' \in BOOLEAN
    BY DEF ReadersVanish, ReadersTyped
  <2> QED
    BY <1>2, <2>1, <2>2, <2>3 DEF ReadersTyped, Reading
<1>4. HalfHolds'
  <2> SUFFICES ASSUME NEW r \in Readers, rpc[r] = "half", NEW q \in Query, q = asked[r],
                      phase[q.engine] # "down", phase'[q.engine] # "down"
               PROVE  /\ q.kind = "diff" =>
                           /\ DOMAIN half[r] \subseteq Entities
                           /\ \A e \in DOMAIN half[r] :
                                half[r][e] \in EligibleIn(records'[q.engine][e], q.from, q.types)
                      /\ q.kind = "integrity" =>
                           /\ half[r].chain_valid
                           /\ half[r].verified \in Nat
                           /\ half[r].verified <= Len(records'[q.engine][q.entity])
    <3>1. ASSUME NEW r \in Readers, rpc'[r] = "half"
          PROVE  /\ rpc[r] = "half" /\ asked'[r] = asked[r] /\ half'[r] = half[r]
                 /\ asked[r] \in Query
                 /\ phase[asked[r].engine] # "down" /\ phase'[asked[r].engine] # "down"
      BY <1>2, <3>1
    <3>2. \A g, e, at, types :
            /\ Eligible(g, e, at, types) = EligibleIn(records[g][e], at, types)
            /\ Eligible(g, e, at, types)' = EligibleIn(records'[g][e], at, types)
      BY DEF Eligible, EligibleIn
    <3> QED
      BY <3>1, <3>2 DEF HalfHolds
  <2>1. q.engine \in Engines
    BY QueryFields
  <2>2. \A e \in Entities : /\ records[q.engine][e] \in Seq(Record)
                            /\ records'[q.engine][e] \in Seq(Record)
    BY <1>1, <2>1 DEF IInv, TypeOK
  <2>3. \A e \in Entities : Longer(records[q.engine][e], records'[q.engine][e])
    BY <2>1, IndexGrows
  <2>4. ASSUME q.kind = "diff", NEW e \in DOMAIN half[r], DOMAIN half[r] \subseteq Entities
        PROVE  half[r][e] \in EligibleIn(records'[q.engine][e], q.from, q.types)
    <3>1. half[r][e] \in EligibleIn(records[q.engine][e], q.from, q.types)
      BY <2>4 DEF HalfHolds, Eligible, EligibleIn
    <3> QED
      BY <3>1, <2>2, <2>3, <2>4, EligibleGrows
  <2>5. ASSUME q.kind = "integrity", half[r].verified \in Nat,
               half[r].verified <= Len(records[q.engine][q.entity])
        PROVE  half[r].verified <= Len(records'[q.engine][q.entity])
    <3>1. q.entity \in Entities
      BY <2>5, QueryFields
    <3>2. Len(records[q.engine][q.entity]) <= Len(records'[q.engine][q.entity])
      BY <3>1, <2>3 DEF Longer
    <3>3. Len(records[q.engine][q.entity]) \in Nat /\ Len(records'[q.engine][q.entity]) \in Nat
      BY <3>1, <2>2
    <3>4. \A a, b, c \in Nat : a <= b /\ b <= c => a <= c
      OBVIOUS
    <3> QED
      BY <2>5, <3>2, <3>3, <3>4
  <2> QED
    BY <2>4, <2>5 DEF HalfHolds
<1>5. DiffForward' /\ IntegrityReported'
  BY DEF ReadersVanish, DiffForward, IntegrityReported, Answered
<1> QED
  BY <1>1, <1>3, <1>4, <1>5

\* Requests that read leave the store alone.
LEMMA ReadStepKeeps ==
  ASSUME IInv, ReadersTyped, NEW r \in Readers, ReadStep(r)
  PROVE  /\ IInv' /\ UNCHANGED vars /\ setBack' = setBack
         /\ \A o \in Readers \ {r} : /\ rpc'[o] = rpc[o] /\ asked'[o] = asked[o]
                                     /\ half'[o] = half[o] /\ answer'[o] = answer[o]
                                     /\ before'[o] = before[o]
<1>1. UNCHANGED vars /\ setBack' = setBack
  BY DEF ReadStep, BeginRead, ReadHistory, ReadSnapshot, ReadDiff, ReadIntegrity, Answers, KeepsHalf
<1>2. IInv'
  BY <1>1, StutterInv
<1>3. \A o \in Readers \ {r} : /\ rpc'[o] = rpc[o] /\ asked'[o] = asked[o]
                               /\ half'[o] = half[o] /\ answer'[o] = answer[o]
                               /\ before'[o] = before[o]
  <2> USE DEF ReadersTyped
  <2>1. CASE \E q \in Query : BeginRead(r, q)
    BY <2>1 DEF BeginRead
  <2>2. ASSUME NEW result, Answers(r, result)
        PROVE  \A o \in Readers \ {r} : /\ rpc'[o] = rpc[o] /\ asked'[o] = asked[o]
                                        /\ half'[o] = half[o] /\ answer'[o] = answer[o]
                                        /\ before'[o] = before[o]
    BY <2>2 DEF Answers
  <2>3. ASSUME NEW x, KeepsHalf(r, x)
        PROVE  \A o \in Readers \ {r} : /\ rpc'[o] = rpc[o] /\ asked'[o] = asked[o]
                                        /\ half'[o] = half[o] /\ answer'[o] = answer[o]
                                        /\ before'[o] = before[o]
    BY <2>3 DEF KeepsHalf
  <2> QED
    BY <2>1, <2>2, <2>3 DEF ReadStep, ReadHistory, ReadSnapshot, ReadDiff, ReadIntegrity
<1> QED
  BY <1>1, <1>2, <1>3

\* What the request r itself must show after its step.
OwnHolds(r) ==
  /\ rpc[r] \in {"idle", "asked", "half"}
  /\ Reading(r) => asked[r] \in Query /\ phase[asked[r].engine] # "down"
  /\ before[r] \in SUBSET Record
  /\ rpc[r] = "half" =>
       LET q == asked[r]
       IN  /\ q.kind = "diff" =>
                /\ DOMAIN half[r] \subseteq Entities
                /\ \A e \in DOMAIN half[r] : half[r][e] \in Eligible(q.engine, e, q.from, q.types)
           /\ q.kind = "integrity" =>
                /\ half[r].chain_valid
                /\ half[r].verified \in Nat
                /\ half[r].verified <= Len(records[q.engine][q.entity])
  /\ Answered(r, "diff") =>
       LET q == answer[r].query
           d == answer[r].result
       IN  q.from <= q.to => d.removed = {} /\ \A m \in d.modified : m[2] < m[3]
  /\ Answered(r, "integrity") =>
       answer[r].result.chain_valid /\ answer[r].result.verified <= answer[r].result.total

LEMMA OwnSuffices ==
  ASSUME ReaderInv, NEW r \in Readers, ReadStep(r), OwnHolds(r)'
  PROVE  ReaderInv'
<1> USE DEF ReaderInv
<1>1. /\ IInv' /\ UNCHANGED <<records, phase>> /\ setBack' = setBack
      /\ \A o \in Readers \ {r} : /\ rpc'[o] = rpc[o] /\ asked'[o] = asked[o]
                                  /\ half'[o] = half[o] /\ answer'[o] = answer[o]
                                  /\ before'[o] = before[o]
  BY ReadStepKeeps DEF vars
<1>2. /\ DOMAIN rpc' = Readers /\ DOMAIN before' = Readers /\ DOMAIN asked' = Readers
      /\ DOMAIN half' = Readers /\ DOMAIN answer' = Readers /\ DOMAIN audited' = Instant
      /\ rpc' = [o \in Readers |-> rpc'[o]] /\ before' = [o \in Readers |-> before'[o]]
  BY DEF ReadersTyped, ReadStep, BeginRead, ReadHistory, ReadSnapshot, ReadDiff, ReadIntegrity,
         Answers, KeepsHalf, Audits
<1>3. ASSUME NEW o \in Readers PROVE OwnHolds(o)'
  <2>1. CASE o # r
    <3>1. OwnHolds(o)
      BY DEF OwnHolds, ReadersTyped, HalfHolds, DiffForward, IntegrityReported
    <3>2. /\ rpc'[o] = rpc[o] /\ asked'[o] = asked[o] /\ half'[o] = half[o]
          /\ answer'[o] = answer[o] /\ before'[o] = before[o]
          /\ records' = records /\ phase' = phase
      BY <1>1, <2>1
    <3>3. \A h, e, at, types : Eligible(h, e, at, types)' = Eligible(h, e, at, types)
      BY <3>2 DEF Eligible
    <3> QED
      BY <3>1, <3>2, <3>3 DEF OwnHolds, Reading, Answered
  <2> QED
    BY <2>1
<1>4. ReadersTyped'
  BY <1>1, <1>2, <1>3 DEF ReadersTyped, OwnHolds
<1>5. HalfHolds'
  BY <1>3 DEF HalfHolds, OwnHolds
<1>6. DiffForward' /\ IntegrityReported'
  BY <1>3 DEF DiffForward, IntegrityReported, OwnHolds
<1> QED
  BY <1>1, <1>4, <1>5, <1>6

\* An answer or a first look by r, seen from r.
LEMMA OwnAnswer ==
  ASSUME ReadersTyped, NEW r \in Readers, NEW result, Answers(r, result)
  PROVE  /\ rpc'[r] = "idle" /\ before'[r] = before[r]
         /\ answer'[r].query = asked[r] /\ answer'[r].result = result
  BY DEF Answers, ReadersTyped

LEMMA OwnHalf ==
  ASSUME ReadersTyped, NEW r \in Readers, NEW x, KeepsHalf(r, x)
  PROVE  /\ rpc'[r] = "half" /\ half'[r] = x /\ asked'[r] = asked[r]
         /\ answer'[r] = answer[r] /\ before'[r] = before[r]
  BY DEF KeepsHalf, ReadersTyped

\* Requests whose answers are about neither diffs nor integrity.
LEMMA OwnBegin ==
  ASSUME ReaderInv, NEW r \in Readers, NEW q \in Query, BeginRead(r, q)
  PROVE  OwnHolds(r)'
<1>1. /\ rpc'[r] = "asked" /\ asked'[r] = q /\ answer'[r] = None /\ before'[r] = StillAcked
      /\ phase' = phase /\ phase[q.engine] = "serving"
  BY DEF BeginRead, ReaderInv, ReadersTyped, vars
<1> QED
  BY <1>1 DEF OwnHolds, Reading, Answered, StillAcked, ReaderInv, IInv, TypeOK

LEMMA OwnOther ==
  ASSUME ReaderInv, NEW r \in Readers, ReadHistory(r) \/ ReadSnapshot(r)
  PROVE  OwnHolds(r)'
<1>1. PICK result : Answers(r, result)
  BY DEF ReadHistory, ReadSnapshot
<1>2. asked[r].kind \in {"history", "latest", "snapshot"}
  BY DEF ReadHistory, ReadSnapshot, Looks
<1> QED
  BY <1>1, <1>2, OwnAnswer DEF OwnHolds, Reading, Answered, ReaderInv, ReadersTyped

\* What the first snapshot selected the second one selects again, or a later
\* version in its place.
LEMMA OwnDiff ==
  ASSUME ReaderInv, NEW r \in Readers, ReadDiff(r)
  PROVE  OwnHolds(r)'
<1> USE DEF ReaderInv
<1> DEFINE q == asked[r]
           g == q.engine
           old == half[r]
           new == SnapshotRecords(g, q.to, q.types)
<1>1. q \in Query /\ q.kind = "diff" /\ g \in Engines /\ phase[g] # "down"
  BY QueryFields DEF ReadDiff, Looks, ReadersTyped, Reading
<1>0. TypeOK
  BY DEF IInv
<1>2. UNCHANGED <<records, phase>>
  BY ReadStepKeeps DEF ReadStep, vars
<1>3. CASE KeepsHalf(r, SnapshotRecords(g, q.from, q.types))
  <2>1. /\ DOMAIN SnapshotRecords(g, q.from, q.types) \subseteq Entities
        /\ \A e \in DOMAIN SnapshotRecords(g, q.from, q.types) :
             SnapshotRecords(g, q.from, q.types)[e] \in Eligible(g, e, q.from, q.types)
    BY <1>0, <1>1, SnapshotSelects
  <2>3. /\ rpc'[r] = "half" /\ half'[r] = SnapshotRecords(g, q.from, q.types)
        /\ asked'[r] = q /\ answer'[r] = answer[r] /\ before'[r] = before[r]
    BY <1>3, OwnHalf
  <2>4. \A h, e, at, types : Eligible(h, e, at, types)' = Eligible(h, e, at, types)
    BY <1>2 DEF Eligible
  <2>5. /\ rpc'[r] \in {"idle", "asked", "half"} /\ before'[r] \in SUBSET Record
        /\ asked'[r] \in Query /\ phase'[asked'[r].engine] # "down"
    BY <1>1, <1>2, <2>3 DEF ReadersTyped
  <2>6. /\ asked'[r].kind = "diff" /\ DOMAIN half'[r] \subseteq Entities
        /\ \A e \in DOMAIN half'[r] :
             (half[r][e] \in Eligible(asked[r].engine, e, asked[r].from, asked[r].types))'
    BY <1>1, <2>1, <2>3, <2>4
  <2>7. /\ Answered(r, "diff")' <=> Answered(r, "diff")
        /\ Answered(r, "integrity")' <=> Answered(r, "integrity")
    BY <2>3 DEF Answered
  <2> QED
    BY <2>3, <2>5, <2>6, <2>7 DEF OwnHolds, Reading, DiffForward, IntegrityReported
<1>4. CASE rpc[r] = "half" /\ Answers(r, Diff(old, new))
  <2>1. ASSUME q.from <= q.to, NEW e \in DOMAIN old
        PROVE  e \in DOMAIN new /\ old[e] \in Nat /\ new[e] \in Nat /\ old[e] <= new[e]
    <3>1. e \in Entities /\ old[e] \in Eligible(g, e, q.from, q.types)
      BY <1>1, <1>4 DEF HalfHolds
    <3>2. records[g][e] \in Seq(Record)
      BY <1>1, <3>1 DEF IInv, TypeOK
    <3>3. q.from \in Nat /\ q.to \in Nat
      BY <1>1, QueryFields
    <3>4. old[e] \in Eligible(g, e, q.to, q.types)
      <4>1. \A i \in 1..Len(records[g][e]) : records[g][e][i].created_at \in Nat
        <5>1. \A i \in 1..Len(records[g][e]) : records[g][e][i] \in Record
          BY <3>2
        <5> QED
          BY <5>1 DEF Record
      <4>2. \A at \in Nat : at <= q.from => at <= q.to
        BY <2>1, <3>3
      <4> QED
        BY <3>1, <4>1, <4>2 DEF Eligible
    <3>5. e \in DOMAIN new /\ new[e] \in Eligible(g, e, q.to, q.types) /\ new[e] >= old[e]
      BY <1>0, <1>1, <3>1, <3>4, SnapshotSelects
    <3>6. Eligible(g, e, q.to, q.types) \subseteq Nat
      BY <3>2 DEF Eligible
    <3> QED
      BY <3>4, <3>5, <3>6
  <2>2. q.from <= q.to => /\ Diff(old, new).removed = {}
                          /\ \A m \in Diff(old, new).modified : m[2] < m[3]
    BY <2>1 DEF Diff
  <2> HIDE DEF new, old
  <2> QED
    BY <1>1, <1>4, <2>2, OwnAnswer DEF OwnHolds, Reading, Answered, ReadersTyped
<1> QED
  BY <1>3, <1>4 DEF ReadDiff, Looks

\* An intact chain is found valid, and is not shorter when it is counted.
LEMMA OwnIntegrity ==
  ASSUME ReaderInv, NEW r \in Readers, ReadIntegrity(r)
  PROVE  OwnHolds(r)'
<1> USE DEF ReaderInv
<1> DEFINE q == asked[r]
           chain == records[q.engine][q.entity]
<1>1. q \in Query /\ q.kind = "integrity" /\ phase[q.engine] # "down"
  BY DEF ReadIntegrity, Looks, ReadersTyped, Reading
<1>2. q.engine \in Engines /\ q.entity \in Entities
  BY <1>1, QueryFields
<1>3. UNCHANGED <<records, phase>>
  BY ReadStepKeeps DEF ReadStep, vars
<1>4. VerifyChain(chain) /\ Len(chain) \in Nat
  BY <1>2 DEF IInv, ChainIntact, Chained, TypeOK
<1>5. CASE KeepsHalf(r, [chain_valid |-> VerifyChain(chain), verified |-> Len(chain)])
  BY <1>1, <1>3, <1>4, <1>5, OwnHalf
     DEF OwnHolds, Reading, Answered, ReadersTyped, DiffForward, IntegrityReported
<1>6. CASE /\ rpc[r] = "half"
           /\ Answers(r, [chain_valid |-> half[r].chain_valid, verified |-> half[r].verified,
                          total |-> Len(chain)])
  BY <1>1, <1>6, OwnAnswer DEF OwnHolds, Reading, Answered, ReadersTyped, HalfHolds
<1> QED
  BY <1>5, <1>6 DEF ReadIntegrity, Looks

LEMMA ReaderNextInv == ReaderInv /\ [ReaderNext]_allVars => ReaderInv'
<1> SUFFICES ASSUME ReaderInv, [ReaderNext]_allVars PROVE ReaderInv'
  OBVIOUS
<1>1. CASE Next /\ ReadersVanish
  BY <1>1, StoreStepInv
<1>2. CASE \E r \in Readers : ReadStep(r)
  BY <1>2, OwnBegin, OwnOther, OwnDiff, OwnIntegrity, OwnSuffices DEF ReadStep
<1>3. CASE UNCHANGED allVars
  <2>1. IInv'
    BY <1>3, StutterInv DEF allVars, ReaderInv
  <2>2. ReadersTyped' /\ HalfHolds'
    BY <1>3 DEF allVars, readerVars, vars, ReaderInv, ReadersTyped, Reading, HalfHolds, Eligible
  <2>3. DiffForward' /\ IntegrityReported'
    BY <1>3 DEF allVars, readerVars, ReaderInv, DiffForward, IntegrityReported, Answered
  <2> QED
    BY <2>1, <2>2, <2>3 DEF ReaderInv
<1> QED
  BY <1>1, <1>2, <1>3 DEF ReaderNext

-----------------------------------------------------------------------------
(* One engine, however often it is started, with its database or without,    *)
(* and whatever is lost with the power.                                      *)

\* What a request in progress counts as acknowledged before it is stored.
BeforeStored ==
  \A r \in Readers : Reading(r) => \A a \in before[r] : InTable(a)

\* The snapshot of an index at an instant, unfiltered.
Until(chain, t) == {i \in 1..Len(chain) : chain[i].created_at <= t}
SnapshotOf(index, t) ==
  [e \in {d \in Entities : Until(index[d], t) # {}} |-> Max(Until(index[e], t))]

Unwritten(c) == pc[c] = "built"

\* What was answered about a past instant is what the table shows of it, and no
\* row on its way to the table is that old.
AuditFixed ==
  ~setBack => \A t \in Instant : audited[t] # None =>
    /\ t < now
    /\ audited[t] = SnapshotOf(table, t)
    /\ \A c \in Clients : Unwritten(c) => pending[c].created_at > t

SoleInv == ReaderInv /\ IndexComplete /\ BeforeStored /\ AuditFixed /\ HistoryHasAcked

LEMMA SnapshotIs ==
  ASSUME NEW g \in Engines, NEW t
  PROVE  SnapshotRecords(g, t, NoFilter) = SnapshotOf(records[g], t)
<1>1. \A e \in Entities : Eligible(g, e, t, NoFilter) = Until(records[g][e], t)
  BY DEF Eligible, Until
<1> QED
  BY <1>1 DEF SnapshotRecords, SnapshotOf

\* A version written later than an instant does not show in its snapshot.
LEMMA UntilKept ==
  ASSUME NEW chain \in Seq(Record), NEW r \in Record, NEW t \in Nat, r.created_at > t
  PROVE  Until(Append(chain, r), t) = Until(chain, t)
<1>1. /\ Len(Append(chain, r)) = Len(chain) + 1 /\ Len(chain) \in Nat
      /\ Append(chain, r)[Len(chain) + 1] = r
      /\ \A i \in 1..Len(chain) : Append(chain, r)[i] = chain[i]
  OBVIOUS
<1>2. ~(r.created_at <= t)
  BY DEF Record
<1>3. \A i \in 1..(Len(chain) + 1) : i \in 1..Len(chain) \/ i = Len(chain) + 1
  BY <1>1
<1>4. 1..Len(chain) \subseteq 1..(Len(chain) + 1)
  BY <1>1
<1> QED
  BY <1>1, <1>2, <1>3, <1>4 DEF Until

LEMMA SoleInit == ReaderInit => SoleInv
<1> SUFFICES ASSUME ReaderInit PROVE SoleInv
  OBVIOUS
<1>1. ReaderInv /\ IndexComplete
  BY ReaderInitInv, InitComplete DEF ReaderInit
<1>2. BeforeStored
  BY DEF ReaderInit, BeforeStored, Reading
<1>4. AuditFixed
  BY DEF ReaderInit, AuditFixed
<1>3. HistoryHasAcked
  BY DEF ReaderInit, HistoryHasAcked
<1> QED
  BY <1>1, <1>2, <1>3, <1>4 DEF SoleInv

\* A stored row is lost with the power or not at all.
LEMMA RowsStay ==
  ASSUME IInv, Next, ~PowerLoss, NEW a \in Record, InTable(a)
  PROVE  InTable(a)'
<1>1. TypeOK
  BY DEF IInv
<1>2. ASSUME NEW c \in Clients, PersistRecord(c)
      PROVE  InTable(a)'
  <2>1. pending[c] \in Record
    BY <1>1, <1>2 DEF PersistRecord, TypeOK
  <2>2. pending[c].entity \in Entities
    BY <2>1 DEF Record
  <2>3. table' = [table EXCEPT ![pending[c].entity] = Append(@, pending[c])]
    BY <1>2 DEF PersistRecord
  <2> QED
    BY <1>1, <2>1, <2>2, <2>3, StoredStays
<1>3. CASE \E c \in Clients : PersistRecord(c)
  BY <1>2, <1>3
<1>4. CASE UNCHANGED table
  BY <1>4 DEF InTable
<1> QED
  BY <1>3, <1>4
     DEF Next, BeginAppend, HandlerStep, BuildRecord, PersistFails, IndexRecord, Respond,
         Launch, BindPort, RequestStop, Exit, Crash, Checkpoint, Tick, StepBack

\* Steps of the store: no reader outlives a power loss.
LEMMA StoreStepBefore ==
  ASSUME ReaderInv, BeforeStored, Next, ReadersVanish
  PROVE  BeforeStored' /\ HistoryHasAcked'
<1> USE DEF ReaderInv
<1>1. HistoryHasAcked'
  BY DEF ReadersVanish, HistoryHasAcked
<1>2. ASSUME NEW r \in Readers, rpc'[r] # "idle", NEW a \in before'[r]
      PROVE  InTable(a)'
  <2>1. before'[r] = before[r] /\ rpc[r] # "idle" /\ phase'[asked[r].engine] # "down"
    BY <1>2 DEF ReadersVanish
  <2>2. asked[r].engine \in Engines
    BY <2>1, QueryFields DEF ReadersTyped, Reading
  <2>3. ~PowerLoss
    BY <2>1, <2>2 DEF PowerLoss, Vanish
  <2>4. a \in Record /\ InTable(a)
    BY <1>2, <2>1 DEF ReadersTyped, BeforeStored, Reading
  <2> QED
    BY <2>3, <2>4, RowsStay
<1>3. BeforeStored'
  BY <1>2 DEF BeforeStored, Reading
<1> QED
  BY <1>1, <1>3

\* Steps of the store: a row that is inserted now was stamped after every
\* instant that has been asked about.
LEMMA StoreStepFixed ==
  ASSUME ReaderInv, AuditFixed, Next, ReadersVanish
  PROVE  AuditFixed'
<1>1. TypeOK /\ PendingIsNext
  BY DEF ReaderInv, IInv
<1> SUFFICES ASSUME ~setBack', NEW t \in Instant, audited'[t] # None
             PROVE  /\ t < now'
                    /\ audited'[t] = SnapshotOf(table', t)
                    /\ \A c \in Clients : Unwritten(c)' => pending'[c].created_at > t
  BY DEF AuditFixed, SnapshotOf, Until
<1>2. ~PowerLoss
  BY <1>1 DEF PowerLoss, ReadersVanish, TypeOK
<1>3. audited'[t] = audited[t] /\ ~setBack /\ ~(now' < now)
  BY DEF ReadersVanish
<1>4. /\ t < now /\ t \in Nat
      /\ audited[t] = SnapshotOf(table, t)
      /\ \A c \in Clients : Unwritten(c) => pending[c].created_at > t
  BY <1>3, BoundsAssumption DEF AuditFixed, Instant
<1>5. now \in Nat /\ now' \in Nat
  BY <1>1, NextIInv DEF ReaderInv, IInv, TypeOK
<1>6. t < now'
  BY <1>3, <1>4, <1>5
<1>7. SnapshotOf(table', t) = SnapshotOf(table, t)
  <2>1. ASSUME NEW c \in Clients, PersistRecord(c)
        PROVE  \A e \in Entities : Until(table'[e], t) = Until(table[e], t)
    <3>1. pending[c] \in Record /\ pending[c].created_at > t
      BY <1>1, <1>4, <2>1 DEF PersistRecord, Unwritten, TypeOK
    <3>2. \A e \in Entities : /\ table[e] \in Seq(Record)
                              /\ table'[e] \in {table[e], Append(table[e], pending[c])}
      BY <1>1, <2>1 DEF PersistRecord, TypeOK
    <3> QED
      BY <1>4, <3>1, <3>2, UntilKept
  <2>2. CASE \E c \in Clients : PersistRecord(c)
    BY <2>1, <2>2 DEF SnapshotOf
  <2>3. CASE UNCHANGED table
    BY <2>3
  <2> QED
    BY <1>2, <2>2, <2>3
       DEF Next, BeginAppend, HandlerStep, BuildRecord, PersistFails, IndexRecord, Respond,
           Launch, BindPort, RequestStop, Exit, Crash, Checkpoint, Tick, StepBack
<1>8. ASSUME NEW c \in Clients, Unwritten(c)'
      PROVE  pending'[c].created_at > t
  <2>1. CASE BuildRecord(c)
    BY <1>1, <1>4, <1>5, <2>1 DEF BuildRecord, NewRecord, TypeOK
  <2>2. CASE Unwritten(c) /\ pending'[c] = pending[c]
    BY <1>4, <2>2
  <2>3. CASE \E d \in Clients, j \in Job : BeginAppend(d, j)
    BY <1>1, <1>8, <2>2, <2>3 DEF BeginAppend, Unwritten, TypeOK
  <2>4. CASE \E d \in Clients : HandlerStep(d)
    <3>1. PICK d \in Clients : HandlerStep(d)
      BY <2>4
    <3>2. CASE BuildRecord(d)
      BY <1>1, <1>8, <2>1, <2>2, <3>2 DEF BuildRecord, Unwritten, TypeOK
    <3>3. CASE PersistRecord(d)
      BY <1>1, <1>8, <2>2, <3>3 DEF PersistRecord, Unwritten, TypeOK
    <3>4. CASE PersistFails(d) \/ Respond(d)
      BY <1>1, <1>8, <2>2, <3>4 DEF PersistFails, Respond, Forget, Unwritten, TypeOK
    <3>5. CASE IndexRecord(d)
      BY <1>1, <1>8, <2>2, <3>5 DEF IndexRecord, Unwritten, TypeOK
    <3> QED
      BY <3>1, <3>2, <3>3, <3>4, <3>5 DEF HandlerStep
  <2>5. CASE \E g \in Engines : Vanish({g})
    BY <1>8, <2>2, <2>5 DEF Vanish, Unwritten
  <2>6. CASE UNCHANGED <<pc, pending>>
    BY <1>8, <2>2, <2>6 DEF Unwritten
  <2> QED
    BY <1>2, <2>3, <2>4, <2>5, <2>6
       DEF Next, Launch, BindPort, RequestStop, Exit, Crash, Checkpoint, Tick, StepBack, requestVars
<1> QED
  BY <1>3, <1>4, <1>6, <1>7, <1>8

\* When no append holds the lock the sole engine's index is the table, if it
\* has its database.
LEMMA LookSeesTable ==
  ASSUME SoleEngine, SoleInv, NEW g \in Engines, backend[g], writer[g] = None
  PROVE  /\ records[g] = table
         /\ \A c \in Clients : ~Unwritten(c)
<1>1. TypeOK /\ LockHeld
  BY DEF SoleInv, ReaderInv, IInv
<1>2. \A e \in Entities : records[g][e] = table[e]
  BY DEF SoleInv, IndexComplete, Unindexed
<1>3. \A c \in Clients : pc[c] = "built" => job[c].engine \in Engines /\ writer[job[c].engine] = c
  BY <1>1 DEF LockHeld, TypeOK, Job
<1>4. \A c \in Clients : Unwritten(c) => writer[g] = c
  BY <1>3 DEF Unwritten, SoleEngine
<1> QED
  BY <1>1, <1>2, <1>4, NoneAssumption DEF TypeOK

\* What a limit lets through of a chain.
LEMMA LimitReaches ==
  ASSUME NEW chain \in Seq(Record), NEW limit \in Nat, NEW v \in 1..Len(chain), v <= limit,
         NEW listed,
         listed = IF limit < Len(chain) THEN SubSeq(chain, 1, limit) ELSE chain
  PROVE  v \in 1..Len(listed) /\ listed[v] = chain[v]
<1>1. CASE limit < Len(chain)
  <2>1. listed = SubSeq(chain, 1, limit) /\ limit \in 1..Len(chain)
    BY <1>1
  <2> QED
    BY <2>1
<1>2. CASE ~(limit < Len(chain))
  BY <1>2
<1> QED
  BY <1>1, <1>2

LEMMA ReadStepSole ==
  ASSUME SoleEngine, SoleInv, NEW r \in Readers, ReadStep(r)
  PROVE  BeforeStored' /\ AuditFixed' /\ HistoryHasAcked'
<1> USE DEF SoleInv
<1>1. /\ UNCHANGED <<table, records, phase, backend, pc, pending, acked, losses, now, setBack>>
      /\ \A o \in Readers \ {r} : answer'[o] = answer[o] /\ before'[o] = before[o]
  BY ReadStepKeeps DEF vars, requestVars, boundVars, ReaderInv
<1>2. ReadersTyped /\ TypeOK
  BY DEF ReaderInv, IInv
<1>3. \/ before'[r] = before[r] /\ (rpc'[r] # "idle" => rpc[r] # "idle")
      \/ before'[r] = StillAcked
  BY <1>2 DEF ReadersTyped, ReadStep, BeginRead, ReadHistory, ReadSnapshot, ReadDiff, ReadIntegrity,
              Looks, Answers, KeepsHalf
<1>4. BeforeStored'
  <2>1. \A a \in StillAcked : InTable(a)
    BY DEF StillAcked, ReaderInv, IInv, AckedPersisted
  <2>2. \A a : InTable(a)' <=> InTable(a)
    BY <1>1 DEF InTable
  <2>3. \A o \in Readers \ {r} : rpc'[o] = rpc[o]
    BY ReadStepKeeps DEF ReaderInv
  <2> QED
    BY <1>1, <1>3, <2>1, <2>2, <2>3 DEF BeforeStored, Reading
<1>5. AuditFixed'
  <2>1. CASE UNCHANGED audited
    BY <1>1, <2>1 DEF AuditFixed, SnapshotOf, Until, Unwritten
  <2>2. CASE ReadSnapshot(r)
    <3> DEFINE q == asked[r]
    <3>1. q \in Query /\ q.kind = "snapshot" /\ writer[q.engine] = None
      BY <1>2, <2>2 DEF ReadSnapshot, Looks, ReadersTyped, Reading
    <3>2. q.engine \in Engines /\ q.as_of \in Instant
      BY <3>1, QueryFields
    <3>3. backend[q.engine] => records[q.engine] = table /\ \A c \in Clients : ~Unwritten(c)
      BY <3>1, <3>2, LookSeesTable
    <3>4. audited' \in {audited, [audited EXCEPT ![q.as_of] = SnapshotRecords(q.engine, q.as_of, q.types)]}
      BY <2>2 DEF ReadSnapshot, Audits
    <3>5. audited' # audited => backend[q.engine] /\ q.types = NoFilter /\ q.as_of < now
      BY <2>2 DEF ReadSnapshot, Audits
    <3>6. ASSUME audited' # audited, NEW t \in Instant, audited'[t] # None, ~setBack
          PROVE  t < now /\ audited'[t] = SnapshotOf(table, t)
      <4>1. CASE t = q.as_of
        BY <1>2, <3>2, <3>3, <3>4, <3>5, <3>6, <4>1, SnapshotIs DEF ReadersTyped
      <4>2. CASE t # q.as_of
        BY <1>2, <3>4, <3>6, <4>2 DEF ReadersTyped, AuditFixed
      <4> QED
        BY <4>1, <4>2
    <3> QED
      BY <1>1, <2>1, <3>3, <3>5, <3>6 DEF AuditFixed, SnapshotOf, Until, Unwritten
  <2> QED
    BY <2>1, <2>2 DEF ReadStep, BeginRead, ReadHistory, ReadDiff, ReadIntegrity, KeepsHalf
<1>6. HistoryHasAcked'
  <2> DEFINE q == answer'[r].query
             listed == answer'[r].result
  <2> SUFFICES ASSUME answer'[r] # None, backend'[q.engine], NEW a \in before'[r]
               PROVE  /\ q.kind = "history" /\ a.entity = q.entity /\ a.version <= q.limit =>
                           a.version \in 1..Len(listed) /\ listed[a.version] = a
                      /\ q.kind = "latest" /\ a.entity = q.entity =>
                           Len(listed) = 1 /\ listed[1].version >= a.version
    BY <1>1 DEF HistoryHasAcked
  <2>1. CASE \E result : Answers(r, result)
    <3>1. PICK result : Answers(r, result)
      BY <2>1
    <3>2. answer'[r].query = asked[r] /\ answer'[r].result = result /\ before'[r] = before[r]
      BY <1>2, <3>1, OwnAnswer
    <3> SUFFICES ASSUME q.kind \in {"history", "latest"}, a.entity = q.entity
                 PROVE  /\ q.kind = "history" /\ a.version <= q.limit =>
                             a.version \in 1..Len(listed) /\ listed[a.version] = a
                        /\ q.kind = "latest" =>
                             Len(listed) = 1 /\ listed[1].version >= a.version
      OBVIOUS
    <3> DEFINE chain == table[q.entity]
    <3>4. ReadHistory(r)
      BY <3>1, <3>2 DEF ReadStep, BeginRead, ReadSnapshot, ReadDiff, ReadIntegrity, Looks,
                        Answers, ReaderInv, ReadersTyped
    <3>5. q \in Query /\ backend[q.engine] /\ writer[q.engine] = None
      BY <1>1, <1>2, <3>2, <3>4 DEF ReadHistory, Looks, ReadersTyped, Reading
    <3>6. records[q.engine][q.entity] = chain
      BY <3>5, QueryFields, LookSeesTable
    <3>7. /\ q.kind = "history" =>
               listed = IF q.limit < Len(chain) THEN SubSeq(chain, 1, q.limit) ELSE chain
          /\ q.kind = "latest" => listed = IF chain = <<>> THEN <<>> ELSE <<chain[Len(chain)]>>
      <4>1. CASE Looks(r, "asked", "history")
        <5>1. Answers(r, IF q.limit < Len(chain) THEN SubSeq(chain, 1, q.limit) ELSE chain)
          BY <3>2, <3>4, <3>6, <4>1 DEF ReadHistory, Looks
        <5> QED
          BY <1>2, <3>2, <4>1, <5>1, OwnAnswer DEF Looks
      <4>2. CASE Looks(r, "asked", "latest")
        <5>1. Answers(r, IF chain = <<>> THEN <<>> ELSE <<chain[Len(chain)]>>)
          BY <3>2, <3>4, <3>6, <4>2 DEF ReadHistory, Looks
        <5> QED
          BY <1>2, <3>2, <4>2, <5>1, OwnAnswer DEF Looks
      <4> QED
        BY <3>4, <4>1, <4>2 DEF ReadHistory
    <3>8. InTable(a)
      BY <3>2, <3>4 DEF ReadHistory, Looks, BeforeStored, Reading
    <3>9. a.version \in 1..Len(chain) /\ chain[a.version] = a /\ chain \in Seq(Record)
      BY <1>2, <3>5, <3>8, QueryFields DEF InTable, TypeOK
    <3>10. q.kind = "history" /\ a.version <= q.limit =>
             a.version \in 1..Len(listed) /\ listed[a.version] = a
      <4> SUFFICES ASSUME q.kind = "history", a.version <= q.limit
                   PROVE  a.version \in 1..Len(listed) /\ listed[a.version] = a
        OBVIOUS
      <4>1. q.limit \in Nat
        BY <3>5, QueryFields
      <4>2. listed = IF q.limit < Len(chain) THEN SubSeq(chain, 1, q.limit) ELSE chain
        BY <3>7
      <4> HIDE DEF q, listed, chain
      <4> QED
        BY <3>9, <4>1, <4>2, LimitReaches
    <3>11. q.kind = "latest" => Len(listed) = 1 /\ listed[1].version >= a.version
      <4>1. chain[Len(chain)].version = Len(chain)
        BY <3>5, <3>9, QueryFields DEF ReaderInv, IInv, ChainIntact, Chained
      <4> QED
        BY <3>7, <3>9, <4>1
    <3> QED
      BY <3>10, <3>11
  <2>2. CASE \E x : KeepsHalf(r, x)
    <3>1. answer'[r] = answer[r] /\ before'[r] = before[r]
      BY <1>2, <2>2, OwnHalf
    <3> QED
      BY <1>1, <3>1 DEF HistoryHasAcked
  <2>3. CASE \E asks \in Query : BeginRead(r, asks)
    BY <1>2, <2>3 DEF BeginRead, ReadersTyped
  <2> QED
    BY <2>1, <2>2, <2>3 DEF ReadStep, ReadHistory, ReadSnapshot, ReadDiff, ReadIntegrity
<1> QED
  BY <1>4, <1>5, <1>6

LEMMA SoleNext == SoleEngine /\ SoleInv /\ [ReaderNext]_allVars => SoleInv'
<1> SUFFICES ASSUME SoleEngine, SoleInv, [ReaderNext]_allVars PROVE SoleInv'
  OBVIOUS
<1>1. ReaderInv'
  BY ReaderNextInv DEF SoleInv
<1>2. IndexComplete'
  <2>1. [Next]_vars
    BY ReadStepKeeps DEF ReaderNext, allVars, SoleInv, ReaderInv
  <2> QED
    BY <2>1, NextComplete DEF SoleInv, ReaderInv
<1>3. BeforeStored' /\ AuditFixed' /\ HistoryHasAcked'
  <2>1. CASE Next /\ ReadersVanish
    BY <2>1, StoreStepBefore, StoreStepFixed DEF SoleInv
  <2>2. CASE \E r \in Readers : ReadStep(r)
    BY <2>2, ReadStepSole
  <2>3. CASE UNCHANGED allVars
    BY <2>3 DEF allVars, vars, requestVars, boundVars, readerVars, SoleInv, BeforeStored, Reading,
                InTable, AuditFixed, SnapshotOf, Until, Unwritten, HistoryHasAcked
  <2> QED
    BY <2>1, <2>2, <2>3 DEF ReaderNext
<1> QED
  BY <1>1, <1>2, <1>3 DEF SoleInv

-----------------------------------------------------------------------------
(* Theorems.                                                                 *)

\* The inductive invariant of the readers holds in every reachable state.
THEOREM ReaderInvariance == ReaderSpec => []ReaderInv
  BY ReaderInitInv, ReaderNextInv, PTL DEF ReaderSpec

\* A diff whose window runs forwards removes nothing and never goes back to an
\* older version, for any engines, types, clocks, crashes and power losses
\* between its two looks.
THEOREM DiffsRunForward == ReaderSpec => []DiffForward
<1>1. ReaderInv => DiffForward
  BY DEF ReaderInv
<1> QED
  BY <1>1, ReaderInvariance, PTL

\* An integrity report never calls a chain broken, nor counts fewer versions
\* than it verified, whatever is appended between its two looks.
THEOREM IntegrityHolds == ReaderSpec => []IntegrityReported
<1>1. ReaderInv => IntegrityReported
  BY DEF ReaderInv
<1> QED
  BY <1>1, ReaderInvariance, PTL

\* The inductive invariant of a sole engine holds in every reachable state.
THEOREM SoleInvariance == SoleEngine => (ReaderSpec => []SoleInv)
<1> SUFFICES ASSUME SoleEngine PROVE ReaderSpec => []SoleInv
  OBVIOUS
<1>1. ReaderInit => SoleInv
  BY SoleInit
<1>2. SoleInv /\ [ReaderNext]_allVars => SoleInv'
  BY SoleNext
<1> QED
  BY <1>1, <1>2, PTL DEF ReaderSpec

\* A history read from a sole engine that has its database holds every version
\* acknowledged before it was asked for and not lost with the power, whatever
\* stops, kills, failed loads and power losses came between.
THEOREM HistoriesComplete == SoleEngine => (ReaderSpec => []HistoryHasAcked)
<1>1. SoleInv => HistoryHasAcked
  BY DEF SoleInv
<1> QED
  BY <1>1, SoleInvariance, PTL

\* What a sole engine answered about a past instant from its database it will
\* answer again, also after it was started without one in between, as long as
\* the clock is not set back and no power is lost.
THEOREM AuditsRepeat == SoleEngine => (ReaderSpec => []SnapshotRepeatable)
<1>1. ASSUME SoleInv, SoleEngine PROVE SnapshotRepeatable
  <2> SUFFICES ASSUME ~setBack, NEW g \in Engines, NEW t \in Instant, backend[g],
                      writer[g] = None, audited[t] # None
               PROVE  SnapshotRecords(g, t, NoFilter) = audited[t]
    BY DEF SnapshotRepeatable
  <2>1. records[g] = table
    BY <1>1, LookSeesTable
  <2>2. audited[t] = SnapshotOf(table, t)
    BY <1>1 DEF SoleInv, AuditFixed
  <2> QED
    BY <2>1, <2>2, SnapshotIs
<1> SUFFICES ASSUME SoleEngine PROVE ReaderSpec => []SnapshotRepeatable
  OBVIOUS
<1>2. SoleInv => SnapshotRepeatable
  BY <1>1
<1> QED
  BY <1>2, SoleInvariance, PTL
==============================================================================
