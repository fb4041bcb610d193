-------------------------- MODULE VersionStoreProofs --------------------------
(***************************************************************************)
(* Machine-checked facts about VersionStore, for every set of entities,    *)
(* contents, clients and engines and every value of the bounds.            *)
(***************************************************************************)
EXTENDS VersionStore, TLAPS, FiniteSetTheorems, SequenceTheorems

-----------------------------------------------------------------------------
(* Chains.                                                                   *)

\* A prefix, element by element.
LEMMA PrefixPointwise ==
  ASSUME NEW S, NEW s \in Seq(S), NEW t \in Seq(S)
  PROVE  IsPrefix(s, t) <=> /\ Len(s) <= Len(t)
                            /\ \A i \in 1..Len(s) : s[i] = t[i]
<1>1. Len(s) \in Nat /\ Len(t) \in Nat
  OBVIOUS
<1>2. SubSeq(s, 1, Len(s)) = s
  OBVIOUS
<1>3. ASSUME Len(s) <= Len(t), SubSeq(t, 1, Len(s)) = s
      PROVE  \A i \in 1..Len(s) : s[i] = t[i]
  BY <1>1, <1>3
<1>4. ASSUME Len(s) <= Len(t), \A i \in 1..Len(s) : s[i] = t[i]
      PROVE  SubSeq(t, 1, Len(s)) = s
  BY <1>1, <1>4
<1> QED
  BY <1>1, <1>2, <1>3, <1>4 DEF IsPrefix

\* The record append() builds from an intact chain is a record, and carries
\* the chain on.
LEMMA NewRecordExtends ==
  ASSUME NEW e \in Entities, NEW chain \in Seq(Record), Chained(e, chain),
         NEW j \in Job, j.entity = e, NEW at \in Nat
  PROVE  /\ NewRecord(chain, j, at) \in Record
         /\ NewRecord(chain, j, at).entity = e
         /\ NewRecord(chain, j, at).version = Len(chain) + 1
         /\ Append(chain, NewRecord(chain, j, at)) \in Seq(Record)
         /\ Chained(e, Append(chain, NewRecord(chain, j, at)))
<1> DEFINE r == NewRecord(chain, j, at)
           longer == Append(chain, r)
<1>1. Len(chain) \in Nat /\ Len(chain) + 1 \in Nat
  OBVIOUS
<1>2. ParentHash(chain) \in Hash \cup {None}
  <2>1. CASE chain = <<>>
    BY <2>1 DEF ParentHash
  <2>2. CASE chain # <<>>
    <3>1. Len(chain) \in 1..Len(chain)
      BY <2>2
    <3>2. chain[Len(chain)] \in Record
      BY <3>1
    <3> QED
      BY <3>2, <2>2 DEF ParentHash, Record
  <2> QED
    BY <2>1, <2>2
<1>3. ComputeHash(e, Len(chain) + 1, j.content) \in Hash
  BY <1>1 DEF ComputeHash, Hash, Job
<1>4. r \in Record
  BY <1>1, <1>2, <1>3 DEF NewRecord, Record, Job
<1>5. r.entity = e /\ r.version = Len(chain) + 1
  BY DEF NewRecord
<1>6. VerifyIntegrity(r)
  BY DEF NewRecord, VerifyIntegrity
<1>7. r.parent = IF Len(chain) + 1 = 1 THEN None ELSE chain[Len(chain)].hash
  BY <1>1 DEF NewRecord, ParentHash
<1>8. longer \in Seq(Record)
  BY <1>4
<1>9. /\ Len(longer) = Len(chain) + 1
      /\ \A i \in 1..Len(chain) : longer[i] = chain[i]
      /\ longer[Len(chain) + 1] = r
  BY <1>4, <1>1
<1>10. ASSUME NEW i \in 1..Len(longer)
       PROVE  /\ VerifyIntegrity(longer[i])
              /\ longer[i].parent = IF i = 1 THEN None ELSE longer[i-1].hash
              /\ longer[i].entity = e
              /\ longer[i].version = i
  <2>1. CASE i \in 1..Len(chain)
    <3>1. i - 1 \in 1..Len(chain) \/ i = 1
      BY <2>1, <1>1
    <3> QED
      BY <2>1, <3>1, <1>9 DEF Chained, VerifyChain
  <2>2. CASE i = Len(chain) + 1
    <3>1. i - 1 = Len(chain)
      BY <2>2, <1>1
    <3>2. i # 1 => Len(chain) \in 1..Len(chain)
      BY <2>2, <1>1
    <3>3. longer[i] = r
      BY <2>2, <1>9
    <3> QED
      BY <2>2, <3>1, <3>2, <3>3, <1>9, <1>5, <1>6, <1>7
  <2> QED
    BY <2>1, <2>2, <1>9, <1>1
<1> QED
  BY <1>4, <1>5, <1>8, <1>10 DEF Chained, VerifyChain

\* Cutting an intact chain anywhere leaves an intact chain.
LEMMA ChainedCut ==
  ASSUME NEW e, NEW chain \in Seq(Record), Chained(e, chain),
         NEW n \in Int, n <= Len(chain)
  PROVE  /\ SubSeq(chain, 1, n) \in Seq(Record)
         /\ Chained(e, SubSeq(chain, 1, n))
<1> DEFINE cut == SubSeq(chain, 1, n)
<1>1. cut \in Seq(Record)
  OBVIOUS
<1>2. /\ Len(cut) <= Len(chain)
      /\ \A i \in 1..Len(cut) : i \in 1..Len(chain) /\ cut[i] = chain[i]
  OBVIOUS
<1>3. \A i \in 1..Len(cut) : i # 1 => i - 1 \in 1..Len(cut)
  BY <1>1
<1> QED
  BY <1>1, <1>2, <1>3 DEF Chained, VerifyChain

\* A prefix stays a prefix when the longer sequence grows ...
LEMMA PrefixOfLonger ==
  ASSUME NEW S, NEW s \in Seq(S), NEW t \in Seq(S), NEW x \in S, IsPrefix(s, t)
  PROVE  IsPrefix(s, Append(t, x))
<1>1. /\ Append(t, x) \in Seq(S)
      /\ Len(Append(t, x)) = Len(t) + 1
      /\ \A i \in 1..Len(t) : Append(t, x)[i] = t[i]
  OBVIOUS
<1>2. Len(s) <= Len(t) /\ \A i \in 1..Len(s) : s[i] = t[i]
  BY PrefixPointwise
<1>3. Len(s) <= Len(Append(t, x)) /\ \A i \in 1..Len(s) : s[i] = Append(t, x)[i]
  BY <1>1, <1>2
<1> QED
  BY <1>1, <1>3, PrefixPointwise

\* ... and when it takes over the longer one's next element.
LEMMA PrefixGrows ==
  ASSUME NEW S, NEW s \in Seq(S), NEW t \in Seq(S), IsPrefix(s, t),
         Len(s) + 1 <= Len(t)
  PROVE  IsPrefix(Append(s, t[Len(s) + 1]), t)
<1> DEFINE u == Append(s, t[Len(s) + 1])
<1>0. t[Len(s) + 1] \in S
  BY ElementOfSeq
<1>1. /\ u \in Seq(S)
      /\ Len(u) = Len(s) + 1
      /\ \A i \in 1..Len(s) : u[i] = s[i]
      /\ u[Len(s) + 1] = t[Len(s) + 1]
  BY <1>0
<1>2. \A i \in 1..Len(s) : s[i] = t[i]
  BY PrefixPointwise
<1>3. \A i \in 1..Len(u) : i \in 1..Len(s) \/ i = Len(s) + 1
  BY <1>1
<1>4. \A i \in 1..Len(u) : u[i] = t[i]
  BY <1>1, <1>2, <1>3
<1> HIDE DEF u
<1>5. IsPrefix(u, t)
  BY <1>1, <1>4, PrefixPointwise
<1> QED
  BY <1>5 DEF u

\* A prefix that lacks no next element is the whole.
LEMMA PrefixIsAll ==
  ASSUME NEW S, NEW s \in Seq(S), NEW t \in Seq(S), IsPrefix(s, t),
         Len(s) + 1 \notin 1..Len(t)
  PROVE  s = t
<1>1. Len(s) <= Len(t) /\ \A i \in 1..Len(s) : s[i] = t[i]
  BY PrefixPointwise
<1>2. Len(s) \in Nat /\ Len(t) \in Nat
  OBVIOUS
<1>3. Len(s) = Len(t)
  BY <1>1, <1>2
<1> QED
  BY <1>1, <1>3, SeqEqual

-----------------------------------------------------------------------------
(* The invariant holds initially.                                            *)

LEMMA InitIInv == Init => IInv
<1> SUFFICES ASSUME Init
             PROVE  IInv
  OBVIOUS
<1> USE DEF Init, EmptyIndex
<1>1. TypeOK
  BY DEF TypeOK, Phases, Steps
<1>2. ChainIntact
  BY DEF ChainIntact, Chained, VerifyChain
<1>3. ServedIsPersisted
  BY DEF ServedIsPersisted
<1>4. LockHeld
  BY DEF LockHeld
<1>5. PendingIsNext /\ PersistedStored
  BY DEF PendingIsNext, PersistedStored
<1>6. AckedPersisted /\ ReplyNotBehind
  BY DEF AckedPersisted, ReplyNotBehind
<1> QED
  BY <1>1, <1>2, <1>3, <1>4, <1>5, <1>6 DEF IInv

-----------------------------------------------------------------------------
(* Requests.                                                                 *)

LEMMA BeginAppendInv ==
  ASSUME IInv, NEW c \in Clients, NEW j \in Job, BeginAppend(c, j)
  PROVE  IInv'
<1> USE DEF IInv, boundVars
<1>1. TypeOK'
  <2>1. j # None
    BY NoneAssumption
  <2>2. \A d \in Clients : (pc[d] = "idle" <=> job[d] = None)'
    BY <2>1 DEF TypeOK, BeginAppend
  <2>3. \A d \in Clients : (pc[d] \in {"idle", "arrived"} <=> pending[d] = None)'
    BY DEF TypeOK, BeginAppend
  <2> QED
    BY <2>2, <2>3 DEF TypeOK, BeginAppend, Steps
<1>2. ChainIntact' /\ ServedIsPersisted'
  BY DEF ChainIntact, Chained, ServedIsPersisted, BeginAppend
<1>3. LockHeld'
  BY DEF LockHeld, BeginAppend, TypeOK
<1>4. PendingIsNext' /\ PersistedStored'
  BY DEF PendingIsNext, PersistedStored, InTable, BeginAppend, TypeOK
<1>5. AckedPersisted' /\ ReplyNotBehind'
  BY DEF AckedPersisted, InTable, ReplyNotBehind, BeginAppend, TypeOK
<1> QED
  BY <1>1, <1>2, <1>3, <1>4, <1>5

LEMMA BuildRecordInv ==
  ASSUME IInv, NEW c \in Clients, BuildRecord(c)
  PROVE  IInv'
<1> USE DEF IInv, boundVars
<1> DEFINE g == job[c].engine
           e == job[c].entity
           r == NewRecord(records[g][e], job[c], now)
<1>1. /\ job[c] \in Job /\ g \in Engines /\ e \in Entities
      /\ records[g][e] \in Seq(Record) /\ now \in Nat
  BY DEF BuildRecord, TypeOK, Job
<1>2. Chained(e, records[g][e])
  BY <1>1 DEF ChainIntact
<1>3. r \in Record /\ r.created_at = now
  BY <1>1, <1>2, NewRecordExtends DEF NewRecord
<1>4. TypeOK'
  <2>1. r # None
    BY <1>3, NoneAssumption
  <2>2. \A d \in Clients : (pc[d] = "idle" <=> job[d] = None)'
    BY DEF TypeOK, BuildRecord
  <2>3. \A d \in Clients : (pc[d] \in {"idle", "arrived"} <=> pending[d] = None)'
    BY <2>1 DEF TypeOK, BuildRecord
  <2>4. pending' \in [Clients -> Record \cup {None}]
    BY <1>3 DEF TypeOK, BuildRecord
  <2> QED
    BY <1>1, <2>2, <2>3, <2>4 DEF TypeOK, BuildRecord, Steps
<1>5. ChainIntact' /\ ServedIsPersisted'
  BY DEF ChainIntact, Chained, ServedIsPersisted, BuildRecord
<1>6. LockHeld'
  <2>1. /\ writer' = [writer EXCEPT ![g] = c] /\ writer[g] = None /\ c # None
        /\ writer \in [Engines -> Clients \cup {None}]
        /\ pc' = [pc EXCEPT ![c] = "built"] /\ pc[c] = "arrived" /\ pc \in [Clients -> Steps]
        /\ phase' = phase /\ job' = job
    BY NoneAssumption DEF BuildRecord, TypeOK
  <2>2. /\ writer'[g] = c /\ \A h \in Engines \ {g} : writer'[h] = writer[h]
        /\ pc'[c] = "built" /\ \A d \in Clients \ {c} : pc'[d] = pc[d]
    BY <1>1, <2>1
  <2>3. \A d \in Clients : pc'[d] # "idle" => phase'[job'[d].engine] \in {"serving", "draining"}
    BY <2>1, <2>2 DEF LockHeld
  <2>4. ASSUME NEW d \in Clients, pc'[d] \in {"built", "persisted"}
        PROVE  writer'[job'[d].engine] = d
    <3>1. CASE d = c
      BY <2>1, <2>2, <3>1
    <3>2. CASE d # c
      <4>1. pc[d] \in {"built", "persisted"} /\ job[d] \in Job
        BY <2>2, <2>4, <3>2 DEF TypeOK
      <4>2. writer[job[d].engine] = d
        BY <4>1 DEF LockHeld
      <4>3. job[d].engine \in Engines /\ d # None
        BY <4>1, NoneAssumption DEF Job
      <4> QED
        BY <2>1, <2>2, <4>2, <4>3
    <3> QED
      BY <3>1, <3>2
  <2>5. ASSUME NEW h \in Engines, writer'[h] # None
        PROVE  pc'[writer'[h]] \in {"built", "persisted"} /\ job'[writer'[h]].engine = h
    <3>1. CASE h = g
      BY <2>1, <2>2, <3>1
    <3>2. CASE h # g
      <4>1. writer'[h] = writer[h] /\ writer[h] \in Clients
        BY <2>1, <2>2, <2>5, <3>2
      <4>2. pc[writer[h]] \in {"built", "persisted"} /\ job[writer[h]].engine = h
        BY <2>5, <4>1 DEF LockHeld
      <4>3. writer[h] # c
        BY <2>1, <4>2
      <4> QED
        BY <2>1, <2>2, <4>1, <4>2, <4>3
    <3> QED
      BY <3>1, <3>2
  <2> QED
    BY <2>3, <2>4, <2>5 DEF LockHeld
<1>7. PendingIsNext' /\ PersistedStored'
  <2>1. /\ pending' = [pending EXCEPT ![c] = r] /\ pending \in [Clients -> Record \cup {None}]
        /\ pc' = [pc EXCEPT ![c] = "built"] /\ pc \in [Clients -> Steps]
        /\ records' = records /\ job' = job /\ table' = table /\ backend' = backend
    BY DEF BuildRecord, TypeOK
  <2>2. /\ pending'[c] = r /\ pc'[c] = "built"
        /\ \A d \in Clients \ {c} : pending'[d] = pending[d] /\ pc'[d] = pc[d]
    BY <2>1
  <2>3. PendingIsNext'
    BY <1>3, <2>1, <2>2 DEF PendingIsNext
  <2>4. PersistedStored'
    <3> SUFFICES ASSUME NEW d \in Clients, pc'[d] \in {"persisted", "indexed"}
                 PROVE  /\ pc[d] = pc'[d] /\ pending'[d] = pending[d]
                        /\ job' = job /\ backend' = backend /\ records' = records
                        /\ \A x : InTable(x)' <=> InTable(x)
      BY DEF PersistedStored
    <3> QED
      BY <2>1, <2>2 DEF InTable
  <2> QED
    BY <2>3, <2>4
<1>8. AckedPersisted' /\ ReplyNotBehind'
  BY DEF AckedPersisted, InTable, ReplyNotBehind, BuildRecord
<1> QED
  BY <1>4, <1>5, <1>6, <1>7, <1>8

\* A row that is stored stays stored when rows are added.
LEMMA StoredStays ==
  ASSUME TypeOK, NEW e \in Entities, NEW x \in Record, NEW r \in Record, InTable(r),
         table' = [table EXCEPT ![e] = Append(@, x)]
  PROVE  InTable(r)'
<1>1. table[e] \in Seq(Record) /\ table[r.entity] \in Seq(Record) /\ r.entity \in Entities
  BY DEF TypeOK, Record
<1>2. CASE r.entity = e
  <2>1. table'[e] = Append(table[e], x)
    BY DEF TypeOK
  <2>2. /\ Len(Append(table[e], x)) = Len(table[e]) + 1
        /\ \A i \in 1..Len(table[e]) : Append(table[e], x)[i] = table[e][i]
    BY <1>1
  <2>3. r.version \in 1..Len(table[e]) /\ table[e][r.version] = r
    BY <1>2 DEF InTable
  <2>4. r.version \in 1..(Len(table[e]) + 1)
    BY <2>3, <1>1
  <2> QED
    BY <2>1, <2>2, <2>3, <2>4, <1>2 DEF InTable
<1>3. CASE r.entity # e
  <2>1. table'[r.entity] = table[r.entity]
    BY <1>1, <1>3 DEF TypeOK
  <2> QED
    BY <2>1 DEF InTable
<1> QED
  BY <1>2, <1>3

\* An index that the database does not contradict with a conflict is complete
\* for the entity, so the INSERT carries the stored chain on.
LEMMA PersistRecordInv ==
  ASSUME IInv, NEW c \in Clients, PersistRecord(c)
  PROVE  IInv'
<1> USE DEF IInv, boundVars
<1> DEFINE g == job[c].engine
           e == job[c].entity
           r == pending[c]
<1>1. /\ job[c] \in Job /\ g \in Engines /\ e \in Entities
      /\ records[g][e] \in Seq(Record) /\ table[e] \in Seq(Record)
      /\ r \in Record /\ backend[g]
  BY DEF PersistRecord, TypeOK, Job
<1>2. r = NewRecord(records[g][e], job[c], r.created_at) /\ r.created_at \in Nat
  BY <1>1 DEF PendingIsNext, PersistRecord, Record
<1>3. r.entity = e /\ r.version = Len(records[g][e]) + 1
  BY <1>2 DEF NewRecord
<1>4. IsPrefix(records[g][e], table[e])
  BY <1>1 DEF ServedIsPersisted
<1>5. Chained(e, table[e])
  BY <1>1 DEF ChainIntact
<1>6. records[g][e] = table[e]
  <2>1. ASSUME r.version \in 1..Len(table[e])
        PROVE  FALSE
    <3>1. table[e][r.version].entity = e /\ table[e][r.version].version = r.version
      BY <2>1, <1>5 DEF Chained
    <3>2. \A i \in 1..Len(table[e]) :
            ~(table[e][i].entity = r.entity /\ table[e][i].version = r.version)
      BY <1>1 DEF PersistRecord, Insertable
    <3> QED
      BY <2>1, <3>1, <3>2, <1>3, Zenon
  <2>2. Len(records[g][e]) + 1 \notin 1..Len(table[e])
    BY <1>3, <2>1
  <2> QED
    <3>1. PICK s \in Seq(Record), t \in Seq(Record) : s = records[g][e] /\ t = table[e]
      BY <1>1
    <3>2. IsPrefix(s, t) /\ Len(s) + 1 \notin 1..Len(t)
      BY <1>4, <2>2, <3>1, Zenon
    <3>3. s = t
      BY <3>2, PrefixIsAll
    <3> QED
      BY <3>1, <3>3, Zenon
<1>7. /\ Append(table[e], r) \in Seq(Record)
      /\ Chained(e, Append(table[e], r))
  BY <1>1, <1>2, <1>5, <1>6, NewRecordExtends
<1>8. /\ table' = [table EXCEPT ![e] = Append(@, r)]
      /\ table'[e] = Append(table[e], r)
      /\ \A d \in Entities : d # e => table'[d] = table[d]
  BY <1>1, <1>3 DEF PersistRecord, TypeOK
<1>9. TypeOK'
  <2>1. table' \in [Entities -> Seq(Record)]
    BY <1>7, <1>8, <1>1 DEF TypeOK
  <2>2. wal' \in Seq(Entities)
    BY <1>1, <1>3 DEF TypeOK, PersistRecord
  <2>3. \A d \in Clients : /\ (pc[d] = "idle" <=> job[d] = None)'
                           /\ (pc[d] \in {"idle", "arrived"} <=> pending[d] = None)'
    BY DEF TypeOK, PersistRecord
  <2> QED
    BY <2>1, <2>2, <2>3 DEF TypeOK, PersistRecord, Steps
<1>10. ChainIntact'
  <2>1. \A d \in Entities : Chained(d, table'[d])
    BY <1>7, <1>8 DEF ChainIntact
  <2>2. records' = records
    BY DEF PersistRecord
  <2> QED
    BY <2>1, <2>2 DEF ChainIntact
<1>11. ServedIsPersisted'
  <2> SUFFICES ASSUME NEW h \in Engines, backend[h], NEW d \in Entities
               PROVE  IsPrefix(records[h][d], table'[d])
    BY DEF ServedIsPersisted, PersistRecord
  <2>1. IsPrefix(records[h][d], table[d])
    BY DEF ServedIsPersisted
  <2>2. CASE d = e
    <3>1. records[h][e] \in Seq(Record)
      BY <1>1 DEF TypeOK
    <3> QED
      BY <2>1, <2>2, <3>1, <1>1, <1>8, PrefixOfLonger
  <2> QED
    BY <2>1, <2>2, <1>8
<1>12. LockHeld'
  BY DEF LockHeld, PersistRecord, TypeOK
<1>13. PendingIsNext'
  BY DEF PendingIsNext, PersistRecord, TypeOK
<1>14. InTable(r)'
  <2>1. Len(Append(table[e], r)) = Len(table[e]) + 1
        /\ Append(table[e], r)[Len(table[e]) + 1] = r
    BY <1>1
  <2>2. Len(table[e]) + 1 \in 1..(Len(table[e]) + 1)
    BY <1>1
  <2> QED
    BY <1>3, <1>6, <1>8, <2>1, <2>2 DEF InTable, PersistRecord
<1>15. PersistedStored'
  <2> SUFFICES ASSUME NEW d \in Clients
               PROVE  /\ pc'[d] = "persisted" => backend[job[d].engine] /\ InTable(pending[d])'
                      /\ pc'[d] = "indexed" =>
                           /\ backend[job[d].engine] => InTable(pending[d])'
                           /\ pending[d].entity = job[d].entity
                           /\ pending[d].version \in 1..Len(records[job[d].engine][job[d].entity])
    BY DEF PersistedStored, PersistRecord
  <2>1. CASE d = c
    BY <2>1, <1>1, <1>14 DEF PersistRecord, TypeOK
  <2>2. CASE d # c
    <3>1. pc'[d] = pc[d] /\ pending'[d] = pending[d]
      BY <2>2 DEF PersistRecord, TypeOK
    <3>2. ASSUME pc[d] \in {"persisted", "indexed"}, InTable(pending[d])
          PROVE  InTable(pending[d])'
      <4>1. pending[d] \in Record
        BY <3>2 DEF TypeOK
      <4>2. /\ pending[d].version \in 1..Len(table'[pending[d].entity])
            /\ table'[pending[d].entity][pending[d].version] = pending[d]
        BY <4>1, <3>2, <1>1, <1>8, StoredStays DEF InTable
      <4> QED
        BY <4>2, <3>1 DEF InTable
    <3> QED
      BY <3>1, <3>2 DEF PersistedStored
  <2> QED
    BY <2>1, <2>2
<1>16. AckedPersisted' /\ ReplyNotBehind'
  <2>1. losses' = losses /\ acked' = acked /\ reply' = reply
    BY DEF PersistRecord
  <2>2. \A x \in acked : InTable(x) => InTable(x)'
    BY <1>1, <1>8, StoredStays DEF TypeOK
  <2> QED
    BY <2>1, <2>2 DEF AckedPersisted, ReplyNotBehind
<1> QED
  BY <1>9, <1>10, <1>11, <1>12, <1>13, <1>15, <1>16

LEMMA PersistFailsInv ==
  ASSUME IInv, NEW c \in Clients, PersistFails(c)
  PROVE  IInv'
<1> USE DEF IInv, boundVars, Forget
<1>1. TypeOK'
  BY DEF TypeOK, PersistFails, Steps
<1>2. ChainIntact' /\ ServedIsPersisted'
  BY DEF ChainIntact, Chained, ServedIsPersisted, PersistFails
<1>3. LockHeld'
  BY DEF LockHeld, PersistFails, TypeOK
<1>4. PendingIsNext' /\ PersistedStored'
  BY DEF PendingIsNext, PersistedStored, InTable, PersistFails, TypeOK
<1>5. AckedPersisted' /\ ReplyNotBehind'
  BY DEF AckedPersisted, InTable, ReplyNotBehind, PersistFails
<1> QED
  BY <1>1, <1>2, <1>3, <1>4, <1>5

\* The record pushed is the one the database stored next, or, without a
\* database, simply the next one.
LEMMA IndexRecordInv ==
  ASSUME IInv, NEW c \in Clients, IndexRecord(c)
  PROVE  IInv'
<1> USE DEF IInv, boundVars
<1> DEFINE g == job[c].engine
           e == job[c].entity
           r == pending[c]
<1>1. /\ job[c] \in Job /\ g \in Engines /\ e \in Entities
      /\ records[g][e] \in Seq(Record) /\ table[e] \in Seq(Record)
      /\ r \in Record /\ pc[c] \in {"built", "persisted"}
  BY DEF IndexRecord, TypeOK, Job
<1>2. r = NewRecord(records[g][e], job[c], r.created_at) /\ r.created_at \in Nat
  BY <1>1 DEF PendingIsNext, Record
<1>3. r.entity = e /\ r.version = Len(records[g][e]) + 1
  BY <1>2 DEF NewRecord
<1>4. /\ Append(records[g][e], r) \in Seq(Record)
      /\ Chained(e, Append(records[g][e], r))
      /\ Len(Append(records[g][e], r)) = Len(records[g][e]) + 1
  <2>1. Chained(e, records[g][e])
    BY <1>1 DEF ChainIntact
  <2> QED
    BY <1>1, <1>2, <2>1, NewRecordExtends
<1>5. /\ records' = [records EXCEPT ![g][e] = Append(@, r)]
      /\ records'[g][e] = Append(records[g][e], r)
      /\ \A h \in Engines, d \in Entities :
           h # g \/ d # e => records'[h][d] = records[h][d]
  BY <1>1 DEF IndexRecord, TypeOK
<1>6. writer[g] = c
  BY <1>1 DEF LockHeld
<1>0. Len(records[g][e]) \in Nat
  <2>1. PICK s \in Seq(Record) : s = records[g][e]
    BY <1>1
  <2> QED
    BY <2>1
<1>7. TypeOK'
  <2>1. records' \in [Engines -> [Entities -> Seq(Record)]]
    BY <1>1, <1>4, <1>5 DEF TypeOK
  <2>2. \A d \in Clients : /\ (pc[d] = "idle" <=> job[d] = None)'
                           /\ (pc[d] \in {"idle", "arrived"} <=> pending[d] = None)'
    BY DEF TypeOK, IndexRecord
  <2> QED
    BY <2>1, <2>2 DEF TypeOK, IndexRecord, Steps
<1>8. ChainIntact'
  <2>1. \A h \in Engines, d \in Entities : Chained(d, records'[h][d])
    BY <1>4, <1>5 DEF ChainIntact
  <2>2. table' = table
    BY DEF IndexRecord
  <2> QED
    BY <2>1, <2>2 DEF ChainIntact
<1>9. ServedIsPersisted'
  <2> SUFFICES ASSUME NEW h \in Engines, backend[h], NEW d \in Entities
               PROVE  IsPrefix(records'[h][d], table[d])
    BY DEF ServedIsPersisted, IndexRecord
  <2>1. IsPrefix(records[h][d], table[d])
    BY DEF ServedIsPersisted
  <2>2. CASE h = g /\ d = e
    <3>1. InTable(r)
      BY <1>1, <2>2 DEF IndexRecord, PersistedStored
    <3>2. /\ Len(records[g][e]) + 1 \in 1..Len(table[e])
          /\ table[e][Len(records[g][e]) + 1] = r
      BY <3>1, <1>3 DEF InTable
    <3>3. Len(records[g][e]) + 1 <= Len(table[e])
      BY <3>2, <1>1
    <3>4. IsPrefix(Append(records[g][e], table[e][Len(records[g][e]) + 1]), table[e])
      BY <1>1, <2>1, <2>2, <3>3, PrefixGrows
    <3> QED
      BY <3>2, <3>4, <2>2, <1>5
  <2> QED
    BY <2>1, <2>2, <1>5
<1>10. LockHeld'
  BY <1>1, <1>6 DEF LockHeld, IndexRecord, TypeOK
<1>11. PendingIsNext'
  <2> SUFFICES ASSUME NEW d \in Clients, pc'[d] \in {"built", "persisted"}
               PROVE  (pending[d] = NewRecord(records[job[d].engine][job[d].entity],
                                             job[d], pending[d].created_at))'
    BY DEF PendingIsNext
  <2>1. d # c /\ pc[d] \in {"built", "persisted"}
    BY DEF IndexRecord, TypeOK
  <2>2. job[d] \in Job
    BY <2>1 DEF TypeOK
  <2>3. job[d].engine # g
    BY <2>1, <1>6 DEF LockHeld
  <2>4. records'[job[d].engine][job[d].entity] = records[job[d].engine][job[d].entity]
    BY <2>2, <2>3, <1>5 DEF Job
  <2> QED
    BY <2>1, <2>4 DEF PendingIsNext, IndexRecord
<1>12. PersistedStored'
  <2> SUFFICES ASSUME NEW d \in Clients
               PROVE  /\ pc'[d] = "persisted" => backend[job[d].engine] /\ InTable(pending[d])
                      /\ pc'[d] = "indexed" =>
                           /\ backend[job[d].engine] => InTable(pending[d])
                           /\ pending[d].entity = job[d].entity
                           /\ pending[d].version \in 1..Len(records'[job[d].engine][job[d].entity])
    BY DEF PersistedStored, IndexRecord, InTable
  <2>1. CASE d = c
    <3>1. pc'[c] = "indexed"
      BY DEF IndexRecord, TypeOK
    <3>2. backend[g] => InTable(r)
      BY <1>1 DEF IndexRecord, PersistedStored
    <3>3. Len(records[g][e]) + 1 \in 1..(Len(records[g][e]) + 1)
      BY <1>0
    <3>4. r.version \in 1..Len(records'[g][e])
      <4>1. Len(records'[g][e]) = Len(records[g][e]) + 1
        BY <1>4, <1>5, Zenon
      <4> QED
        BY <3>3, <4>1, <1>3, Zenon
    <3> QED
      BY <2>1, <3>1, <3>2, <3>4, <1>3
  <2>2. CASE d # c
    <3>1. pc'[d] = pc[d]
      BY <2>2 DEF IndexRecord, TypeOK
    <3>2. ASSUME pc[d] = "indexed"
          PROVE  pending[d].version \in 1..Len(records'[job[d].engine][job[d].entity])
      <4>1. job[d].engine \in Engines /\ job[d].entity \in Entities
        BY <3>2 DEF TypeOK, Job
      <4>2. pending[d].version \in 1..Len(records[job[d].engine][job[d].entity])
        BY <3>2 DEF PersistedStored
      <4>3. CASE job[d].engine = g /\ job[d].entity = e
        <5>1. pending[d].version \in 1..(Len(records[g][e]) + 1)
          BY <4>2, <4>3, <1>1
        <5> QED
          BY <5>1, <4>3, <1>4, <1>5
      <4> QED
        BY <4>1, <4>2, <4>3, <1>5
    <3> QED
      BY <3>1, <3>2 DEF PersistedStored
  <2> QED
    BY <2>1, <2>2
<1>13. AckedPersisted' /\ ReplyNotBehind'
  BY DEF AckedPersisted, InTable, ReplyNotBehind, IndexRecord
<1> QED
  BY <1>7, <1>8, <1>9, <1>10, <1>11, <1>12, <1>13

\* The index only grew since the push, so the version read for the answer is
\* the append's own or a later one.
LEMMA RespondInv ==
  ASSUME IInv, NEW c \in Clients, Respond(c)
  PROVE  IInv'
<1> USE DEF IInv, boundVars, Forget
<1> DEFINE g == job[c].engine
           e == job[c].entity
           r == pending[c]
           chain == records[g][e]
<1>1. /\ job[c] \in Job /\ g \in Engines /\ e \in Entities
      /\ chain \in Seq(Record) /\ r \in Record
  BY DEF Respond, TypeOK, Job
<1>2. r.version \in 1..Len(chain) /\ (backend[g] => InTable(r))
  BY DEF Respond, PersistedStored
<1>3. LatestVersion(g, e) = Len(chain)
  <2>1. Len(chain) \in 1..Len(chain)
    BY <1>1, <1>2
  <2>2. Chained(e, chain)
    BY <1>1 DEF ChainIntact
  <2> QED
    BY <2>1, <2>2 DEF Chained, LatestVersion
<1>4. /\ reply' = [reply EXCEPT ![c] = [record |-> r, version |-> Len(chain)]]
      /\ [record |-> r, version |-> Len(chain)] \in Answer
      /\ Len(chain) >= r.version
  BY <1>1, <1>2, <1>3 DEF Respond, Answer
<1>5. TypeOK'
  <2>1. reply' \in [Clients -> Answer \cup {None}]
    BY <1>4 DEF TypeOK
  <2>2. acked' \subseteq Record
    BY <1>1 DEF TypeOK, Respond
  <2> QED
    BY <2>1, <2>2 DEF TypeOK, Respond, Steps
<1>6. ChainIntact' /\ ServedIsPersisted'
  BY DEF ChainIntact, Chained, ServedIsPersisted, Respond
<1>7. LockHeld'
  BY DEF LockHeld, Respond, TypeOK
<1>8. PendingIsNext' /\ PersistedStored'
  BY DEF PendingIsNext, PersistedStored, InTable, Respond, TypeOK
<1>9. AckedPersisted'
  BY <1>2 DEF AckedPersisted, InTable, Respond
<1>10. ReplyNotBehind'
  BY <1>4 DEF ReplyNotBehind, TypeOK
<1> QED
  BY <1>5, <1>6, <1>7, <1>8, <1>9, <1>10

-----------------------------------------------------------------------------
(* Engine processes.                                                         *)

LEMMA LaunchInv ==
  ASSUME IInv, NEW g \in Engines, Launch(g)
  PROVE  IInv'
<1> USE DEF IInv, requestVars
<1>1. /\ phase[g] = "down" /\ table' = table
      /\ \A e \in Entities : table[e] \in Seq(Record)
      /\ \A e \in Entities : IsPrefix(table[e], table[e])
  BY DEF Launch, TypeOK, IsPrefix
<1>2. ASSUME NEW c \in Clients, pc[c] # "idle"
      PROVE  job[c] \in Job /\ job[c].engine # g
  <2>1. job[c] \in Job
    BY <1>2 DEF TypeOK
  <2>2. phase[job[c].engine] \in {"serving", "draining"}
    BY <1>2 DEF LockHeld
  <2> QED
    BY <1>1, <2>1, <2>2
<1>3. /\ records' \in [Engines -> [Entities -> Seq(Record)]]
      /\ \/ records'[g] = table
         \/ records'[g] = EmptyIndex /\ backend'[g] = FALSE
      /\ \A h \in Engines : h # g => records'[h] = records[h] /\ backend'[h] = backend[h]
  <2>1. /\ records \in [Engines -> [Entities -> Seq(Record)]]
        /\ backend \in [Engines -> BOOLEAN]
        /\ table \in [Entities -> Seq(Record)] /\ EmptyIndex \in [Entities -> Seq(Record)]
    BY DEF TypeOK, EmptyIndex
  <2>2. CASE records' = [records EXCEPT ![g] = table] /\ backend' = [backend EXCEPT ![g] = TRUE]
    BY <2>1, <2>2
  <2>3. CASE records' = [records EXCEPT ![g] = EmptyIndex] /\ backend' = [backend EXCEPT ![g] = FALSE]
    BY <2>1, <2>3
  <2> QED
    BY <2>2, <2>3 DEF Launch
<1>4. TypeOK'
  <2>1. backend' \in [Engines -> BOOLEAN] /\ phase' \in [Engines -> Phases]
    BY DEF Launch, TypeOK, Phases
  <2>2. launches' \in Nat
    BY DEF Launch, TypeOK
  <2> QED
    BY <1>3, <2>1, <2>2 DEF Launch, TypeOK
<1>5. ChainIntact'
  <2>1. \A e \in Entities : Chained(e, <<>>)
    BY DEF Chained, VerifyChain
  <2>2. ASSUME NEW h \in Engines, NEW e \in Entities
        PROVE  Chained(e, records'[h][e])
    <3>1. Chained(e, table[e]) /\ Chained(e, records[h][e])
      BY DEF ChainIntact
    <3>2. records'[h] \in {records[h], table, EmptyIndex}
      BY <1>3
    <3>3. EmptyIndex[e] = <<>>
      BY DEF EmptyIndex
    <3> QED
      BY <2>1, <3>1, <3>2, <3>3
  <2> QED
    BY <1>1, <2>2 DEF ChainIntact
<1>6. ServedIsPersisted'
  BY <1>1, <1>3 DEF ServedIsPersisted
<1>7. LockHeld'
  BY <1>2 DEF LockHeld, Launch, TypeOK
<1>8. PendingIsNext'
  <2> SUFFICES ASSUME NEW c \in Clients, pc[c] \in {"built", "persisted"}
               PROVE  pending[c] = NewRecord(records'[job[c].engine][job[c].entity],
                                             job[c], pending[c].created_at)
    BY DEF PendingIsNext, Launch
  <2>1. records'[job[c].engine] = records[job[c].engine]
    BY <1>2, <1>3 DEF Job
  <2> QED
    BY <2>1 DEF PendingIsNext
<1>9. PersistedStored'
  <2> SUFFICES ASSUME NEW c \in Clients
               PROVE  /\ pc[c] = "persisted" => backend'[job[c].engine] /\ InTable(pending[c])
                      /\ pc[c] = "indexed" =>
                           /\ backend'[job[c].engine] => InTable(pending[c])
                           /\ pending[c].entity = job[c].entity
                           /\ pending[c].version \in 1..Len(records'[job[c].engine][job[c].entity])
    BY DEF PersistedStored, InTable, Launch
  <2>1. pc[c] # "idle" => /\ records'[job[c].engine] = records[job[c].engine]
                          /\ backend'[job[c].engine] = backend[job[c].engine]
    BY <1>2, <1>3 DEF Job
  <2> QED
    BY <2>1 DEF PersistedStored
<1>10. AckedPersisted' /\ ReplyNotBehind'
  BY DEF AckedPersisted, InTable, ReplyNotBehind, Launch
<1> QED
  BY <1>4, <1>5, <1>6, <1>7, <1>8, <1>9, <1>10

\* Steps that only move an engine between phases in which requests may run,
\* or out of a phase in which none can.
LEMMA PhaseInv ==
  ASSUME IInv, NEW g \in Engines, BindPort(g) \/ RequestStop(g)
  PROVE  IInv'
<1> USE DEF IInv, requestVars, boundVars
<1>1. /\ phase' = [phase EXCEPT ![g] = "serving"] \/ phase' = [phase EXCEPT ![g] = "draining"]
      /\ UNCHANGED <<table, wal, records, backend, writer, pc, job, pending, reply, acked,
                     requests, now, launches, losses>>
  BY DEF BindPort, RequestStop
<1>2. TypeOK'
  BY <1>1 DEF TypeOK, Phases
<1>3. ChainIntact' /\ ServedIsPersisted'
  BY <1>1 DEF ChainIntact, Chained, ServedIsPersisted
<1>4. LockHeld'
  <2>1. \A h \in Engines : phase[h] \in {"serving", "draining"} => phase'[h] \in {"serving", "draining"}
    BY <1>1 DEF TypeOK
  <2>2. \A c \in Clients : pc[c] # "idle" => job[c].engine \in Engines
    BY DEF TypeOK, Job
  <2>3. \A c \in Clients : pc'[c] # "idle" => phase'[job'[c].engine] \in {"serving", "draining"}
    BY <1>1, <2>1, <2>2 DEF LockHeld
  <2> QED
    BY <1>1, <2>3 DEF LockHeld
<1>5. PendingIsNext' /\ PersistedStored'
  BY <1>1 DEF PendingIsNext, PersistedStored, InTable
<1>6. AckedPersisted' /\ ReplyNotBehind'
  BY <1>1 DEF AckedPersisted, InTable, ReplyNotBehind
<1> QED
  BY <1>2, <1>3, <1>4, <1>5, <1>6

\* What vanishes with some engines concerns only them and their requests.
LEMMA VanishInv ==
  ASSUME IInv, NEW G \in SUBSET Engines, Vanish(G),
         UNCHANGED <<table, boundVars>>, wal' \in Seq(Entities)
  PROVE  IInv'
<1> USE DEF IInv, boundVars
<1> DEFINE Gone(c) == \E g \in G : RunsOn(c, g)
<1>1. \A c \in Clients :
        pc[c] # "idle" /\ ~Gone(c) => job[c] \in Job /\ job[c].engine \in Engines \ G
  BY DEF RunsOn, TypeOK, Job
<1>2. \A c \in Clients : /\ pc'[c] = IF Gone(c) THEN "idle" ELSE pc[c]
                         /\ job'[c] = IF Gone(c) THEN None ELSE job[c]
                         /\ pending'[c] = IF Gone(c) THEN None ELSE pending[c]
  BY DEF Vanish
<1>3. \A g \in Engines \ G : /\ records'[g] = records[g] /\ backend'[g] = backend[g]
                             /\ writer'[g] = writer[g] /\ phase'[g] = phase[g]
  BY DEF Vanish
<1>4. \A g \in G : /\ records'[g] = EmptyIndex /\ backend'[g] = FALSE
                   /\ writer'[g] = None
  BY DEF Vanish
<1>5. TypeOK'
  <2>1. records' \in [Engines -> [Entities -> Seq(Record)]]
    BY DEF Vanish, TypeOK, EmptyIndex
  <2>2. /\ backend' \in [Engines -> BOOLEAN] /\ phase' \in [Engines -> Phases]
        /\ writer' \in [Engines -> Clients \cup {None}]
    BY DEF Vanish, TypeOK, Phases
  <2>3. /\ pc' \in [Clients -> Steps] /\ job' \in [Clients -> Job \cup {None}]
        /\ pending' \in [Clients -> Record \cup {None}]
    BY DEF Vanish, TypeOK, Steps
  <2>4. \A c \in Clients : /\ pc'[c] = "idle" <=> job'[c] = None
                           /\ pc'[c] \in {"idle", "arrived"} <=> pending'[c] = None
    BY <1>2 DEF TypeOK
  <2> QED
    BY <2>1, <2>2, <2>3, <2>4 DEF TypeOK, Vanish
<1>6. ChainIntact'
  <2>1. \A e \in Entities : Chained(e, <<>>)
    BY DEF Chained, VerifyChain
  <2>2. \A h \in Engines, e \in Entities : Chained(e, records'[h][e])
    BY <1>3, <1>4, <2>1 DEF ChainIntact, EmptyIndex
  <2> QED
    BY <2>2 DEF ChainIntact
<1>7. ServedIsPersisted'
  BY <1>3, <1>4 DEF ServedIsPersisted
<1>8. LockHeld'
  <2>1. \A c \in Clients : pc'[c] # "idle" => phase'[job'[c].engine] \in {"serving", "draining"}
    BY <1>1, <1>2, <1>3 DEF LockHeld
  <2>2. \A c \in Clients : pc'[c] \in {"built", "persisted"} => writer'[job'[c].engine] = c
    BY <1>1, <1>2, <1>3 DEF LockHeld
  <2>3. ASSUME NEW g \in Engines, writer'[g] # None
        PROVE  pc'[writer'[g]] \in {"built", "persisted"} /\ job'[writer'[g]].engine = g
    <3>1. g \in Engines \ G /\ writer'[g] = writer[g] /\ writer[g] \in Clients
      BY <2>3, <1>3, <1>4 DEF TypeOK
    <3>2. pc[writer[g]] \in {"built", "persisted"} /\ job[writer[g]].engine = g
      BY <2>3, <3>1 DEF LockHeld
    <3>3. ~Gone(writer[g])
      BY <3>1, <3>2 DEF RunsOn
    <3> QED
      BY <3>1, <3>2, <3>3, <1>2
  <2> QED
    BY <2>1, <2>2, <2>3 DEF LockHeld
<1>9. PendingIsNext'
  <2> SUFFICES ASSUME NEW c \in Clients, pc'[c] \in {"built", "persisted"}
               PROVE  pending'[c] = NewRecord(records'[job'[c].engine][job'[c].entity],
                                              job'[c], pending'[c].created_at)
    BY DEF PendingIsNext
  <2>1. ~Gone(c)
    BY <1>2
  <2>2. pc[c] \in {"built", "persisted"} /\ job'[c] = job[c] /\ pending'[c] = pending[c]
    BY <1>2, <2>1
  <2>3. records'[job[c].engine] = records[job[c].engine]
    BY <1>1, <1>3, <2>1, <2>2
  <2> QED
    BY <2>2, <2>3 DEF PendingIsNext
<1>10. PersistedStored'
  <2>1. ASSUME NEW c \in Clients, pc'[c] \in {"persisted", "indexed"}
        PROVE  /\ pc'[c] = pc[c] /\ job'[c] = job[c] /\ pending'[c] = pending[c]
               /\ records'[job[c].engine] = records[job[c].engine]
               /\ backend'[job[c].engine] = backend[job[c].engine]
    <3>1. ~Gone(c)
      BY <1>2, <2>1
    <3> QED
      BY <1>1, <1>2, <1>3, <2>1, <3>1
  <2>2. \A r : InTable(r) <=> InTable(r)'
    BY DEF InTable
  <2> QED
    BY <2>1, <2>2 DEF PersistedStored, InTable
<1>11. AckedPersisted' /\ ReplyNotBehind'
  BY DEF AckedPersisted, InTable, ReplyNotBehind, Vanish
<1> QED
  BY <1>5, <1>6, <1>7, <1>8, <1>9, <1>10, <1>11

LEMMA ExitInv ==
  ASSUME IInv, NEW g \in Engines, Exit(g) \/ Crash(g)
  PROVE  IInv'
<1>1. {g} \in SUBSET Engines
  OBVIOUS
<1>2. Vanish({g}) /\ UNCHANGED <<table, boundVars>>
  BY DEF Exit, Crash
<1>3. wal' \in Seq(Entities)
  <2>1. wal \in Seq(Entities) /\ <<>> \in Seq(Entities)
    BY DEF IInv, TypeOK
  <2>2. wal' = wal \/ wal' = <<>>
    BY DEF Exit, Crash
  <2> QED
    BY <2>1, <2>2
<1> QED
  BY <1>1, <1>2, <1>3, VanishInv

-----------------------------------------------------------------------------
(* The database, the machine and the clock.                                  *)

LEMMA CheckpointInv ==
  ASSUME IInv, Checkpoint
  PROVE  IInv'
<1> USE DEF IInv, requestVars, boundVars
<1>1. TypeOK'
  BY DEF TypeOK, Checkpoint
<1>2. ChainIntact' /\ ServedIsPersisted'
  BY DEF ChainIntact, Chained, ServedIsPersisted, Checkpoint
<1>3. LockHeld' /\ PendingIsNext' /\ PersistedStored'
  BY DEF LockHeld, PendingIsNext, PersistedStored, InTable, Checkpoint
<1>4. AckedPersisted' /\ ReplyNotBehind'
  BY DEF AckedPersisted, InTable, ReplyNotBehind, Checkpoint
<1> QED
  BY <1>1, <1>2, <1>3, <1>4

LEMMA CommitsBeyondType ==
  ASSUME TypeOK, NEW e \in Entities, NEW k \in 0..Len(wal)
  PROVE  CommitsBeyond(e, k) \in Nat
<1>1. Len(wal) \in Nat /\ k + 1 \in Int /\ Len(wal) \in Int
  BY DEF TypeOK
<1>2. IsFiniteSet((k+1)..Len(wal))
  BY <1>1, FS_Interval
<1>3. IsFiniteSet({i \in (k+1)..Len(wal) : wal[i] = e})
  BY <1>2, FS_Subset
<1> QED
  BY <1>3, FS_CardinalityType DEF CommitsBeyond

\* Rows are lost from the end of each chain only, and no process is left that
\* remembers more.
LEMMA PowerLossInv ==
  ASSUME IInv, PowerLoss
  PROVE  IInv'
<1> USE DEF IInv
<1>1. PICK k \in 0..Len(wal) :
        table' = [e \in Entities |-> SubSeq(table[e], 1, Len(table[e]) - CommitsBeyond(e, k))]
  BY DEF PowerLoss
<1>2. \A e \in Entities : table'[e] \in Seq(Record) /\ Chained(e, table'[e])
  <2> SUFFICES ASSUME NEW e \in Entities
               PROVE  table'[e] \in Seq(Record) /\ Chained(e, table'[e])
    OBVIOUS
  <2>1. table[e] \in Seq(Record) /\ Chained(e, table[e])
    BY DEF TypeOK, ChainIntact
  <2>2. CommitsBeyond(e, k) \in Nat
    BY CommitsBeyondType
  <2>3. /\ Len(table[e]) - CommitsBeyond(e, k) \in Int
        /\ Len(table[e]) - CommitsBeyond(e, k) <= Len(table[e])
    BY <2>1, <2>2
  <2> QED
    BY <1>1, <2>1, <2>3, ChainedCut
<1>3. \A c \in Clients : pc'[c] = "idle" /\ job'[c] = None /\ pending'[c] = None
  BY DEF PowerLoss, Vanish, RunsOn, TypeOK, Job
<1>4. \A g \in Engines : /\ records'[g] = EmptyIndex /\ backend'[g] = FALSE
                         /\ writer'[g] = None
  BY DEF PowerLoss, Vanish
<1>5. TypeOK'
  <2>1. table' \in [Entities -> Seq(Record)]
    BY <1>1, <1>2
  <2>2. records' \in [Engines -> [Entities -> Seq(Record)]]
    BY DEF PowerLoss, Vanish, EmptyIndex
  <2>3. /\ backend' \in [Engines -> BOOLEAN] /\ phase' \in [Engines -> Phases]
        /\ writer' \in [Engines -> Clients \cup {None}]
    BY DEF PowerLoss, Vanish, Phases
  <2>4. /\ pc' \in [Clients -> Steps] /\ job' \in [Clients -> Job \cup {None}]
        /\ pending' \in [Clients -> Record \cup {None}]
    BY DEF PowerLoss, Vanish, TypeOK, Steps
  <2>5. wal' \in Seq(Entities) /\ losses' \in Nat
    BY DEF PowerLoss, TypeOK
  <2> QED
    BY <1>3, <2>1, <2>2, <2>3, <2>4, <2>5 DEF TypeOK, PowerLoss, Vanish
<1>6. ChainIntact'
  <2>1. \A e \in Entities : Chained(e, <<>>)
    BY DEF Chained, VerifyChain
  <2> QED
    BY <1>2, <1>4, <2>1 DEF ChainIntact, EmptyIndex
<1>7. ServedIsPersisted' /\ LockHeld'
  BY <1>3, <1>4 DEF ServedIsPersisted, LockHeld
<1>8. PendingIsNext' /\ PersistedStored'
  BY <1>3 DEF PendingIsNext, PersistedStored
<1>9. AckedPersisted' /\ ReplyNotBehind'
  <2>1. losses' = losses + 1 /\ losses \in Nat /\ reply' = reply
    BY DEF PowerLoss, Vanish, TypeOK
  <2> QED
    BY <2>1 DEF AckedPersisted, ReplyNotBehind
<1> QED
  BY <1>5, <1>6, <1>7, <1>8, <1>9

LEMMA ClockInv ==
  ASSUME IInv, Tick \/ StepBack
  PROVE  IInv'
<1> USE DEF IInv, requestVars
<1>1. /\ now' \in Nat
      /\ UNCHANGED <<table, wal, records, backend, phase, writer, pc, job, pending, reply,
                     acked, requests, launches, losses>>
  BY DEF Tick, StepBack, TypeOK
<1>2. TypeOK'
  BY <1>1 DEF TypeOK
<1>3. ChainIntact' /\ ServedIsPersisted' /\ LockHeld'
  BY <1>1 DEF ChainIntact, Chained, ServedIsPersisted, LockHeld
<1>4. PendingIsNext' /\ PersistedStored'
  BY <1>1 DEF PendingIsNext, PersistedStored, InTable
<1>5. AckedPersisted' /\ ReplyNotBehind'
  BY <1>1 DEF AckedPersisted, InTable, ReplyNotBehind
<1> QED
  BY <1>2, <1>3, <1>4, <1>5

LEMMA StutterInv ==
  ASSUME IInv, UNCHANGED vars
  PROVE  IInv'
<1> USE DEF IInv, vars, requestVars, boundVars
<1>1. TypeOK'
  BY DEF TypeOK
<1>2. ChainIntact' /\ ServedIsPersisted' /\ LockHeld'
  BY DEF ChainIntact, Chained, ServedIsPersisted, LockHeld
<1>3. PendingIsNext' /\ PersistedStored'
  BY DEF PendingIsNext, PersistedStored, InTable
<1>4. AckedPersisted' /\ ReplyNotBehind'
  BY DEF AckedPersisted, InTable, ReplyNotBehind
<1> QED
  BY <1>1, <1>2, <1>3, <1>4

LEMMA NextIInv == IInv /\ [Next]_vars => IInv'
<1> SUFFICES ASSUME IInv, [Next]_vars
             PROVE  IInv'
  OBVIOUS
<1>1. CASE \E c \in Clients, j \in Job : BeginAppend(c, j)
  BY <1>1, BeginAppendInv
<1>2. CASE \E c \in Clients : HandlerStep(c)
  BY <1>2, BuildRecordInv, PersistRecordInv, PersistFailsInv, IndexRecordInv, RespondInv
     DEF HandlerStep
<1>3. CASE \E g \in Engines : Launch(g) \/ BindPort(g) \/ RequestStop(g) \/ Exit(g) \/ Crash(g)
  BY <1>3, LaunchInv, PhaseInv, ExitInv
<1>4. CASE Checkpoint \/ PowerLoss
  BY <1>4, CheckpointInv, PowerLossInv
<1>5. CASE Tick \/ StepBack
  BY <1>5, ClockInv
<1>6. CASE UNCHANGED vars
  BY <1>6, StutterInv
<1> QED
  BY <1>1, <1>2, <1>3, <1>4, <1>5, <1>6 DEF Next

-----------------------------------------------------------------------------
(* PendingUnacked is inductive, given IInv.                                  *)

LEMMA InitPendingUnacked == Init => PendingUnacked
  BY DEF Init, PendingUnacked, Unanswered

\* Steps after which no more requests wait with a stored version than before,
\* and nothing more is acknowledged.
LEMMA UnackedKept ==
  ASSUME PendingUnacked, acked' \subseteq acked, losses' = losses,
         \A c \in Clients : Unanswered(c)' => Unanswered(c) /\ pending'[c] = pending[c]
  PROVE  PendingUnacked'
  BY DEF PendingUnacked

\* The INSERT was accepted, so the version was not in the table; what waits
\* or was acknowledged is in the table.
LEMMA PersistUnacked ==
  ASSUME IInv, PendingUnacked, NEW c \in Clients, PersistRecord(c)
  PROVE  PendingUnacked'
<1> USE DEF IInv
<1>1. losses' = losses /\ acked' = acked /\ pending' = pending
  BY DEF PersistRecord, boundVars
<1>2. ASSUME NEW r \in Record, InTable(r)
      PROVE  r # pending[c]
  <2>1. r.entity \in Entities /\ r.version \in 1..Len(table[r.entity])
    BY <1>2 DEF InTable, Record
  <2>2. table[r.entity][r.version] = r
    BY <1>2 DEF InTable
  <2> QED
    BY <2>1, <2>2 DEF PersistRecord, Insertable
<1>3. ASSUME NEW d \in Clients, Unanswered(d)', d # c
      PROVE  Unanswered(d) /\ pending[d] # pending[c]
  <2>1. Unanswered(d)
    BY <1>3 DEF Unanswered, PersistRecord, TypeOK
  <2>2. pending[d] \in Record /\ InTable(pending[d])
    BY <2>1 DEF Unanswered, PersistedStored, TypeOK
  <2> QED
    BY <2>1, <2>2, <1>2
<1>4. losses = 0 => pending[c] \notin acked
  BY <1>2 DEF AckedPersisted, TypeOK
<1> QED
  BY <1>1, <1>3, <1>4 DEF PendingUnacked

\* The request that is answered stops waiting; the others wait with versions
\* of their own.
LEMMA RespondUnacked ==
  ASSUME IInv, PendingUnacked, NEW c \in Clients, Respond(c)
  PROVE  PendingUnacked'
<1> USE DEF IInv
<1>1. losses' = losses
  BY DEF Respond, boundVars
<1>2. ASSUME NEW d \in Clients, Unanswered(d)'
      PROVE  d # c /\ Unanswered(d) /\ pending'[d] = pending[d]
  BY <1>2 DEF Unanswered, Respond, Forget, TypeOK
<1>3. acked' = acked \/ (acked' = acked \cup {pending[c]} /\ Unanswered(c))
  BY DEF Respond, Unanswered
<1> QED
  BY <1>1, <1>2, <1>3 DEF PendingUnacked

LEMMA HandlerUnacked ==
  ASSUME IInv, PendingUnacked, NEW c \in Clients, HandlerStep(c)
  PROVE  PendingUnacked'
<1> USE DEF IInv
<1>1. CASE BuildRecord(c) \/ PersistFails(c) \/ IndexRecord(c)
  <2>1. acked' = acked /\ losses' = losses /\ backend' = backend
    BY <1>1 DEF BuildRecord, PersistFails, IndexRecord, Forget, boundVars
  <2>2. ASSUME NEW d \in Clients, Unanswered(d)'
        PROVE  Unanswered(d) /\ pending'[d] = pending[d]
    <3>1. CASE BuildRecord(c)
      BY <2>2, <3>1 DEF Unanswered, BuildRecord, TypeOK
    <3>2. CASE PersistFails(c)
      BY <2>2, <3>2 DEF Unanswered, PersistFails, Forget, TypeOK
    <3>3. CASE IndexRecord(c)
      BY <2>2, <3>3 DEF Unanswered, IndexRecord, TypeOK
    <3> QED
      BY <1>1, <3>1, <3>2, <3>3
  <2> QED
    BY <2>1, <2>2, UnackedKept
<1> QED
  BY <1>1, PersistUnacked, RespondUnacked DEF HandlerStep

\* Engines that start own no request, and engines that stop take theirs along.
LEMMA EngineUnacked ==
  ASSUME IInv, PendingUnacked, NEW g \in Engines,
         Launch(g) \/ BindPort(g) \/ RequestStop(g) \/ Exit(g) \/ Crash(g)
  PROVE  PendingUnacked'
<1> USE DEF IInv
<1>1. acked' = acked /\ losses' = losses
  BY DEF Launch, BindPort, RequestStop, Exit, Crash, Vanish, boundVars, requestVars
<1>2. ASSUME NEW d \in Clients, Unanswered(d)'
      PROVE  Unanswered(d) /\ pending'[d] = pending[d]
  <2>1. CASE Launch(g)
    <3>1. pc' = pc /\ job' = job /\ pending' = pending
      BY <2>1 DEF Launch, requestVars
    <3>2. phase[job[d].engine] \in {"serving", "draining"} /\ job[d].engine \in Engines
      BY <1>2, <3>1 DEF Unanswered, LockHeld, TypeOK, Job
    <3>3. backend'[job[d].engine] = backend[job[d].engine]
      BY <2>1, <3>2 DEF Launch, TypeOK
    <3> QED
      BY <1>2, <3>1, <3>3 DEF Unanswered
  <2>2. CASE BindPort(g) \/ RequestStop(g)
    BY <1>2, <2>2 DEF Unanswered, BindPort, RequestStop, requestVars
  <2>3. CASE Exit(g) \/ Crash(g)
    <3>1. Vanish({g})
      BY <2>3 DEF Exit, Crash
    <3>2. pc'[d] = pc[d] /\ job'[d] = job[d] /\ pending'[d] = pending[d] /\ ~RunsOn(d, g)
      BY <1>2, <3>1 DEF Vanish, Unanswered
    <3>3. job[d].engine \in Engines /\ job[d].engine # g
      BY <1>2, <3>2 DEF RunsOn, Unanswered, TypeOK, Job
    <3>4. backend'[job[d].engine] = backend[job[d].engine]
      BY <3>1, <3>3 DEF Vanish
    <3> QED
      BY <1>2, <3>2, <3>4 DEF Unanswered
  <2> QED
    BY <2>1, <2>2, <2>3
<1> QED
  BY <1>1, <1>2, UnackedKept

LEMMA NextPendingUnacked == IInv /\ PendingUnacked /\ [Next]_vars => PendingUnacked'
<1> SUFFICES ASSUME IInv, PendingUnacked, [Next]_vars
             PROVE  PendingUnacked'
  OBVIOUS
<1>1. CASE \E c \in Clients, j \in Job : BeginAppend(c, j)
  <2> USE DEF IInv, boundVars
  <2>1. PICK c \in Clients, j \in Job : BeginAppend(c, j)
    BY <1>1
  <2>2. acked' = acked /\ losses' = losses
    BY <2>1 DEF BeginAppend
  <2>3. \A d \in Clients : Unanswered(d)' => Unanswered(d) /\ pending'[d] = pending[d]
    BY <2>1 DEF Unanswered, BeginAppend, TypeOK
  <2> QED
    BY <2>2, <2>3, UnackedKept
<1>2. CASE \E c \in Clients : HandlerStep(c)
  BY <1>2, HandlerUnacked
<1>3. CASE \E g \in Engines : Launch(g) \/ BindPort(g) \/ RequestStop(g) \/ Exit(g) \/ Crash(g)
  BY <1>3, EngineUnacked
<1>4. CASE Checkpoint \/ Tick \/ StepBack \/ UNCHANGED vars
  BY <1>4 DEF PendingUnacked, Unanswered, Checkpoint, Tick, StepBack, vars, requestVars, boundVars
<1>5. CASE PowerLoss
  <2>1. losses' = losses + 1 /\ losses \in Nat
    BY <1>5 DEF PowerLoss, IInv, TypeOK
  <2> QED
    BY <2>1 DEF PendingUnacked
<1> QED
  BY <1>1, <1>2, <1>3, <1>4, <1>5 DEF Next

-----------------------------------------------------------------------------
(* Only an answer changes a reply into something, and it carries the version *)
(* its request waited with.                                                  *)

AckOnceStep ==
  losses = 0 => \A c \in Clients :
    /\ reply'[c] # reply[c]
    /\ reply'[c] # None
    /\ backend[job[c].engine]
    => reply'[c].record \notin acked

LEMMA RepliesComeFromRespond ==
  ASSUME IInv, [Next]_vars, NEW c \in Clients, reply'[c] # reply[c], reply'[c] # None
  PROVE  Respond(c)
<1> USE DEF IInv
<1>1. CASE \E d \in Clients, j \in Job : BeginAppend(d, j)
  BY <1>1 DEF BeginAppend, TypeOK
<1>2. CASE \E d \in Clients : HandlerStep(d)
  <2>1. PICK d \in Clients : HandlerStep(d)
    BY <1>2
  <2>2. CASE BuildRecord(d) \/ PersistRecord(d) \/ PersistFails(d) \/ IndexRecord(d)
    BY <2>2 DEF BuildRecord, PersistRecord, PersistFails, IndexRecord
  <2>3. CASE Respond(d)
    BY <2>3 DEF Respond, TypeOK
  <2> QED
    BY <2>1, <2>2, <2>3 DEF HandlerStep
<1>3. CASE \E g \in Engines : Launch(g) \/ BindPort(g) \/ RequestStop(g) \/ Exit(g) \/ Crash(g)
  BY <1>3 DEF Launch, BindPort, RequestStop, Exit, Crash, Vanish, requestVars
<1>4. CASE Checkpoint \/ PowerLoss \/ Tick \/ StepBack \/ UNCHANGED vars
  BY <1>4 DEF Checkpoint, PowerLoss, Tick, StepBack, Vanish, vars, requestVars
<1> QED
  BY <1>1, <1>2, <1>3, <1>4 DEF Next

LEMMA StepAcksOnce == IInv /\ PendingUnacked /\ [Next]_vars => AckOnceStep
<1> SUFFICES ASSUME IInv, PendingUnacked, [Next]_vars, losses = 0, NEW c \in Clients,
                    reply'[c] # reply[c], reply'[c] # None, backend[job[c].engine]
             PROVE  reply'[c].record \notin acked
  BY DEF AckOnceStep
<1>1. Respond(c)
  BY RepliesComeFromRespond
<1>2. Unanswered(c)
  BY <1>1 DEF Respond, Unanswered
<1>3. reply'[c].record = pending[c]
  BY <1>1 DEF Respond, IInv, TypeOK
<1> QED
  BY <1>2, <1>3 DEF PendingUnacked

-----------------------------------------------------------------------------
(* IndexComplete is inductive, given IInv, when there is one engine.         *)

LEMMA InitComplete == Init => IndexComplete
  BY DEF Init, IndexComplete

\* Steps that leave the table, the index and the row between them alone.
LEMMA CompleteKept ==
  ASSUME IndexComplete, table' = table, records' = records, backend' = backend,
         \A g \in Engines : backend[g] => Unindexed(g)' = Unindexed(g),
         \A g \in Engines : Unindexed(g) =>
           /\ writer'[g] = writer[g] /\ job'[writer[g]] = job[writer[g]]
           /\ pending'[writer[g]] = pending[writer[g]]
  PROVE  IndexComplete'
  BY DEF IndexComplete

LEMMA PersistComplete ==
  ASSUME SoleEngine, IInv, IndexComplete, NEW c \in Clients, PersistRecord(c)
  PROVE  IndexComplete'
<1> USE DEF IInv
<1> DEFINE g == job[c].engine
           e == job[c].entity
<1>1. /\ job[c] \in Job /\ g \in Engines /\ e \in Entities /\ writer[g] = c /\ writer' = writer
      /\ pc[c] = "built" /\ pc' = [pc EXCEPT ![c] = "persisted"] /\ job' = job /\ pending' = pending
      /\ records' = records /\ backend' = backend /\ c # None
  BY NoneAssumption DEF PersistRecord, LockHeld, TypeOK, Job
<1>2. pending[c].entity = e
  <2>1. pending[c] = NewRecord(records[g][e], job[c], pending[c].created_at)
    BY <1>1 DEF PendingIsNext
  <2> QED
    BY <2>1 DEF NewRecord
<1>3. table' = [table EXCEPT ![e] = Append(@, pending[c])]
  BY <1>2 DEF PersistRecord
<1>4. ~Unindexed(g) /\ Unindexed(g)'
  BY <1>1 DEF Unindexed, TypeOK
<1>5. \A d \in Entities : backend[g] => table[d] = records[g][d]
  BY <1>1, <1>4 DEF IndexComplete
<1>6. \A d \in Entities : table'[d] = IF d = e THEN Append(table[d], pending[c]) ELSE table[d]
  BY <1>3 DEF TypeOK
<1>7. \A h \in Engines : h = g
  BY <1>1 DEF SoleEngine
<1> QED
  BY <1>1, <1>4, <1>5, <1>6, <1>7 DEF IndexComplete

LEMMA IndexRecordComplete ==
  ASSUME SoleEngine, IInv, IndexComplete, NEW c \in Clients, IndexRecord(c)
  PROVE  IndexComplete'
<1> USE DEF IInv
<1> DEFINE g == job[c].engine
           e == job[c].entity
<1>1. /\ job[c] \in Job /\ g \in Engines /\ e \in Entities /\ writer[g] = c
      /\ writer' = [writer EXCEPT ![g] = None] /\ table' = table /\ backend' = backend
      /\ c # None /\ job' = job
  BY NoneAssumption DEF IndexRecord, LockHeld, TypeOK, Job
<1>2. ~Unindexed(g)'
  BY <1>1 DEF Unindexed, TypeOK
<1>3. ASSUME backend[g], NEW d \in Entities
      PROVE  table[d] = records'[g][d]
  <2>1. Unindexed(g)
    BY <1>1, <1>3 DEF Unindexed, IndexRecord
  <2>2. records'[g][d] = IF d = e THEN Append(records[g][d], pending[c]) ELSE records[g][d]
    BY <1>1 DEF IndexRecord, TypeOK
  <2> QED
    BY <1>1, <1>3, <2>1, <2>2 DEF IndexComplete
<1>4. \A h \in Engines : h = g
  BY <1>1 DEF SoleEngine
<1> QED
  BY <1>1, <1>2, <1>3, <1>4 DEF IndexComplete

LEMMA HandlerComplete ==
  ASSUME SoleEngine, IInv, IndexComplete, NEW c \in Clients, HandlerStep(c)
  PROVE  IndexComplete'
<1> USE DEF IInv, Unindexed
<1>1. CASE BuildRecord(c)
  BY <1>1, NoneAssumption, CompleteKept DEF BuildRecord, TypeOK, LockHeld, Job
<1>2. CASE PersistFails(c)
  <2>1. /\ pc[c] = "built" /\ job[c] \in Job /\ writer[job[c].engine] = c
    BY <1>2 DEF PersistFails, TypeOK, LockHeld
  <2> QED
    BY <1>2, <2>1, CompleteKept DEF PersistFails, Forget, TypeOK, LockHeld, Job
<1>3. CASE Respond(c)
  BY <1>3, CompleteKept DEF Respond, Forget, TypeOK, LockHeld
<1> QED
  BY <1>1, <1>2, <1>3, PersistComplete, IndexRecordComplete DEF HandlerStep

\* An engine starts with the table, or without a database behind it.
LEMMA LaunchComplete ==
  ASSUME SoleEngine, IInv, IndexComplete, NEW g \in Engines, Launch(g)
  PROVE  IndexComplete'
<1> USE DEF IInv
<1>1. writer[g] = None
  <2>1. ASSUME writer[g] # None PROVE FALSE
    <3>1. writer[g] \in Clients
      BY <2>1 DEF TypeOK
    <3>2. pc[writer[g]] # "idle" /\ job[writer[g]].engine = g
      BY <2>1 DEF LockHeld
    <3> QED
      BY <3>1, <3>2 DEF Launch, LockHeld
  <2> QED
    BY <2>1
<1>2. \A h \in Engines : h = g
  BY DEF SoleEngine
<1>3. table' = table /\ writer' = writer
  BY DEF Launch, requestVars
<1>4. backend'[g] => records'[g] = table
  BY DEF Launch, TypeOK
<1> QED
  BY <1>1, <1>2, <1>3, <1>4 DEF IndexComplete, Unindexed

LEMMA VanishComplete ==
  ASSUME SoleEngine, NEW g \in Engines, Vanish({g}) \/ Vanish(Engines)
  PROVE  IndexComplete'
<1>1. \A h \in Engines : backend'[h] = FALSE
  BY DEF Vanish, SoleEngine
<1> QED
  BY <1>1 DEF IndexComplete

LEMMA NextComplete == SoleEngine /\ IInv /\ IndexComplete /\ [Next]_vars => IndexComplete'
<1> SUFFICES ASSUME SoleEngine, IInv, IndexComplete, [Next]_vars
             PROVE  IndexComplete'
  OBVIOUS
<1>1. CASE \E c \in Clients, j \in Job : BeginAppend(c, j)
  BY <1>1, CompleteKept DEF BeginAppend, Unindexed, IInv, TypeOK
<1>2. CASE \E c \in Clients : HandlerStep(c)
  BY <1>2, HandlerComplete
<1>3. CASE \E g \in Engines : BindPort(g) \/ RequestStop(g)
  BY <1>3, CompleteKept DEF BindPort, RequestStop, requestVars, Unindexed
<1>4. CASE Checkpoint \/ Tick \/ StepBack \/ UNCHANGED vars
  BY <1>4, CompleteKept DEF Checkpoint, Tick, StepBack, vars, requestVars, Unindexed
<1>5. CASE \E g \in Engines : Launch(g) \/ Exit(g) \/ Crash(g)
  BY <1>5, LaunchComplete, VanishComplete DEF Exit, Crash
<1>6. CASE PowerLoss
  <2>1. \A g \in Engines : backend'[g] = FALSE
    BY <1>6 DEF PowerLoss, Vanish
  <2> QED
    BY <2>1 DEF IndexComplete
<1> QED
  BY <1>1, <1>2, <1>3, <1>4, <1>5, <1>6 DEF Next

-----------------------------------------------------------------------------
(* Theorems.                                                                 *)

\* The inductive invariant holds in every reachable state.
THEOREM Invariance == Spec => []IInv
  BY InitIInv, NextIInv, PTL DEF Spec

\* Every variable keeps its type and a finished request leaves nothing.
THEOREM TypeCorrect == Spec => []TypeOK
<1>1. IInv => TypeOK
  BY DEF IInv
<1> QED
  BY <1>1, Invariance, PTL

\* The stored history and every engine's index are hash chains without gaps
\* or forks, for any number of engines over one database, any crashes and any
\* power losses.
THEOREM ChainsIntact == Spec => []ChainIntact
<1>1. IInv => ChainIntact
  BY DEF IInv
<1> QED
  BY <1>1, Invariance, PTL

\* No engine backed by the database serves a version that is not stored.
THEOREM NothingServedUnstored == Spec => []ServedIsPersisted
<1>1. IInv => ServedIsPersisted
  BY DEF IInv
<1> QED
  BY <1>1, Invariance, PTL

\* Unless the machine loses power, what was acknowledged stays stored as it
\* was acknowledged.
THEOREM AcknowledgedStays == Spec => []AckedPersisted
<1>1. IInv => AckedPersisted
  BY DEF IInv
<1> QED
  BY <1>1, Invariance, PTL

\* The version an answer reports is the append's own or a later one.
THEOREM AnswersNotBehind == Spec => []ReplyNotBehind
<1>1. IInv => ReplyNotBehind
  BY DEF IInv
<1> QED
  BY <1>1, Invariance, PTL

\* A stored version that waits for its answer is nobody else's.
THEOREM WaitingAlone == Spec => []PendingUnacked
  BY InitPendingUnacked, NextPendingUnacked, Invariance, PTL DEF Spec

\* Until the machine loses power, no two appends are acknowledged with the
\* same version, whatever engines overlap and crash: the second of two racing
\* writers fails instead.
THEOREM NoVersionTwice == Spec => AckOnce
<1>1. IInv /\ PendingUnacked /\ [Next]_vars => [AckOnceStep]_vars
  BY StepAcksOnce
<1>2. Spec => [][AckOnceStep]_vars
  BY <1>1, Invariance, WaitingAlone, PTL DEF Spec
<1> QED
  BY <1>2 DEF AckOnce, AckOnceStep

\* The index of a sole engine is the table, short of the row it is about to push.
THEOREM SoleIndexComplete == SoleEngine => (Spec => []IndexComplete)
<1> SUFFICES ASSUME SoleEngine PROVE Spec => []IndexComplete
  OBVIOUS
<1>1. IInv /\ IndexComplete /\ [Next]_vars => IndexComplete'
  BY NextComplete
<1> QED
  BY <1>1, InitComplete, Invariance, PTL DEF Spec

\* An engine that has the database to itself serves the whole stored history
\* when no append is under way, after any stops, crashes and power losses.
THEOREM RestartsRestore == SoleEngine => (Spec => []HistoryRestored)
<1>1. ASSUME IInv, IndexComplete
      PROVE  HistoryRestored
  <2> SUFFICES ASSUME NEW g \in Engines, backend[g], writer[g] = None
               PROVE  records[g] = table
    BY DEF HistoryRestored
  <2>1. \A e \in Entities : table[e] = records[g][e]
    BY <1>1 DEF IndexComplete, Unindexed
  <2> QED
    BY <1>1, <2>1 DEF IInv, TypeOK
<1> QED
  BY <1>1, SoleIndexComplete, Invariance, PTL

-----------------------------------------------------------------------------
(* VersionStore implements AppendOnlyLog: the INSERT is the append, the      *)
(* answer is the acknowledgement, a power loss is the loss of a tail, and    *)
(* every other step of every process is invisible.                           *)

(* The contents of a chain.                                                  *)

LEMMA ContentsOfType ==
  ASSUME NEW chain \in Seq(Record)
  PROVE  /\ ContentsOf(chain) \in Seq(Contents)
         /\ Len(ContentsOf(chain)) = Len(chain)
         /\ \A i \in 1..Len(chain) : ContentsOf(chain)[i] = chain[i].content
<1>1. Len(chain) \in Nat
  OBVIOUS
<1>2. \A i \in 1..Len(chain) : chain[i] \in Record
  BY ElementOfSeq
<1>3. \A i \in 1..Len(chain) : chain[i].content \in Contents
  BY <1>2 DEF Record
<1>4. ContentsOf(chain) \in [1..Len(chain) -> Contents]
  BY <1>3 DEF ContentsOf
<1>5. ContentsOf(chain) \in Seq(Contents)
  BY <1>1, <1>4, SeqDef
<1>6. Len(ContentsOf(chain)) = Len(chain)
  BY <1>1, <1>4, <1>5, LenProperties
<1> QED
  BY <1>5, <1>6 DEF ContentsOf

LEMMA ContentsOfAppend ==
  ASSUME NEW chain \in Seq(Record), NEW r \in Record
  PROVE  ContentsOf(Append(chain, r)) = Append(ContentsOf(chain), r.content)
<1> DEFINE one == ContentsOf(Append(chain, r))
           two == Append(ContentsOf(chain), r.content)
<1>1. /\ Append(chain, r) \in Seq(Record)
      /\ Len(Append(chain, r)) = Len(chain) + 1
      /\ Append(chain, r)[Len(chain) + 1] = r
      /\ \A i \in 1..Len(chain) : Append(chain, r)[i] = chain[i]
      /\ Len(chain) \in Nat
  OBVIOUS
<1>2. r.content \in Contents
  BY DEF Record
<1>3. /\ one \in Seq(Contents)
      /\ Len(one) = Len(chain) + 1
      /\ \A i \in 1..(Len(chain) + 1) : one[i] = Append(chain, r)[i].content
  BY <1>1, ContentsOfType
<1>4. /\ ContentsOf(chain) \in Seq(Contents)
      /\ Len(ContentsOf(chain)) = Len(chain)
      /\ \A i \in 1..Len(chain) : ContentsOf(chain)[i] = chain[i].content
  BY ContentsOfType
<1>5. /\ two \in Seq(Contents)
      /\ Len(two) = Len(chain) + 1
      /\ two[Len(chain) + 1] = r.content
      /\ \A i \in 1..Len(chain) : two[i] = chain[i].content
  BY <1>2, <1>4
<1>6. \A i \in 1..(Len(chain) + 1) : i \in 1..Len(chain) \/ i = Len(chain) + 1
  BY <1>1
<1>7. \A i \in 1..Len(one) : one[i] = two[i]
  BY <1>1, <1>3, <1>5, <1>6
<1> QED
  BY <1>3, <1>5, <1>7, SeqEqual

LEMMA ContentsOfCut ==
  ASSUME NEW chain \in Seq(Record), NEW n \in Int, n <= Len(chain)
  PROVE  \E k \in Nat : /\ k <= Len(ContentsOf(chain))
                        /\ ContentsOf(SubSeq(chain, 1, n)) = SubSeq(ContentsOf(chain), 1, k)
<1> DEFINE cut == SubSeq(chain, 1, n)
           k == Len(cut)
           one == ContentsOf(cut)
           two == SubSeq(ContentsOf(chain), 1, k)
<1>1. /\ cut \in Seq(Record)
      /\ k \in Nat
      /\ k <= Len(chain)
      /\ \A i \in 1..k : i \in 1..Len(chain) /\ cut[i] = chain[i]
  OBVIOUS
<1> HIDE DEF cut, k
<1>2. /\ one \in Seq(Contents)
      /\ Len(one) = k
      /\ \A i \in 1..k : one[i] = cut[i].content
  BY <1>1, ContentsOfType DEF k
<1>3. /\ ContentsOf(chain) \in Seq(Contents)
      /\ Len(ContentsOf(chain)) = Len(chain)
      /\ \A i \in 1..Len(chain) : ContentsOf(chain)[i] = chain[i].content
  BY ContentsOfType
<1>4. /\ two \in Seq(Contents)
      /\ Len(two) = k
      /\ \A i \in 1..k : two[i] = ContentsOf(chain)[i]
  BY <1>1, <1>3
<1>5. \A i \in 1..Len(one) : one[i] = two[i]
  BY <1>1, <1>2, <1>3, <1>4
<1>6. one = two
  BY <1>2, <1>4, <1>5, SeqEqual
<1> QED
  BY <1>1, <1>3, <1>6 DEF cut

-----------------------------------------------------------------------------
(* Each step is a step of the log, or a stutter.                             *)

LEMMA AbsInit == Init => Abs!Init
<1>1. ContentsOf(<<>>) = <<>>
  BY DEF ContentsOf
<1> QED
  BY <1>1 DEF Init, EmptyIndex, Abs!Init

LEMMA AbsStutter ==
  ASSUME table' = table, acked' = acked, losses' = losses
  PROVE  UNCHANGED Abs!vars
  BY DEF Abs!vars

\* The INSERT appends the request's content to its entity's log.
LEMMA AbsAppend ==
  ASSUME IInv, NEW c \in Clients, PersistRecord(c)
  PROVE  Abs!Next
<1> USE DEF IInv
<1> DEFINE r == pending[c]
           e == r.entity
           x == r.content
<1>1. r \in Record /\ e \in Entities /\ x \in Contents
  <2>1. pc[c] = "built"
    BY DEF PersistRecord
  <2>2. r \in Record
    BY <2>1 DEF TypeOK
  <2> QED
    BY <2>2 DEF Record
<1>2. table[e] \in Seq(Record)
  BY <1>1 DEF TypeOK
<1>3. table' = [table EXCEPT ![e] = Append(table[e], r)] /\ acked' = acked /\ losses' = losses
  BY DEF PersistRecord, boundVars
<1>4. ContentsOf(table'[e]) = Append(ContentsOf(table[e]), x)
  BY <1>1, <1>2, <1>3, ContentsOfAppend DEF TypeOK
<1>5. \A d \in Entities : d # e => table'[d] = table[d]
  BY <1>3 DEF TypeOK
<1>6. [d \in Entities |-> ContentsOf(table'[d])] =
        [[d \in Entities |-> ContentsOf(table[d])] EXCEPT ![e] = Append(@, x)]
  BY <1>1, <1>4, <1>5
<1>7. Abs!AppendVersion(e, x)
  BY <1>3, <1>6 DEF Abs!AppendVersion
<1> QED
  BY <1>1, <1>7 DEF Abs!Next

\* The answer acknowledges a version that is in the log.
LEMMA AbsAcknowledge ==
  ASSUME IInv, NEW c \in Clients, Respond(c)
  PROVE  Abs!Next \/ UNCHANGED Abs!vars
<1> USE DEF IInv
<1> DEFINE r == pending[c]
           e == r.entity
           v == r.version
           log == [d \in Entities |-> ContentsOf(table[d])]
           Ack(s) == {<<a.entity, a.version, a.content>> : a \in s}
<1>1. table' = table /\ losses' = losses
  BY DEF Respond, boundVars
<1>2. CASE ~backend[job[c].engine]
  <2>1. acked' = acked
    BY <1>2 DEF Respond
  <2> QED
    BY <1>1, <2>1, AbsStutter
<1>3. CASE backend[job[c].engine]
  <2>1. acked' = acked \cup {r}
    BY <1>3 DEF Respond
  <2>2. r \in Record /\ e \in Entities /\ InTable(r)
    <3>1. pc[c] = "indexed"
      BY DEF Respond
    <3>2. pending[c] \in Record \cup {None} /\ pending[c] # None
      BY <3>1 DEF TypeOK
    <3>3. r \in Record
      BY <3>2
    <3>4. InTable(r)
      BY <3>1, <1>3 DEF PersistedStored
    <3>5. e \in Entities
      BY <3>3 DEF Record
    <3> QED
      BY <3>3, <3>4, <3>5
  <2>3. table[e] \in Seq(Record)
    BY <2>2 DEF TypeOK
  <2>4. v \in 1..Len(log[e]) /\ log[e][v] = r.content
    BY <2>2, <2>3, ContentsOfType DEF InTable
  <2>5. Ack(acked') = Ack(acked) \cup {<<e, v, log[e][v]>>}
    BY <2>1, <2>4
  <2>6. PICK d \in Entities : d = e
    BY <2>2
  <2>7. PICK i \in 1..Len(log[d]) : i = v
    BY <2>4, <2>6
  <2>8. Abs!Acknowledge(d, i)
    BY <1>1, <2>5, <2>6, <2>7 DEF Abs!Acknowledge
  <2> QED
    BY <2>8 DEF Abs!Next
<1> QED
  BY <1>2, <1>3

\* A power loss cuts the tail of each entity's log.
LEMMA AbsLoseTail ==
  ASSUME IInv, PowerLoss
  PROVE  Abs!Next
<1> USE DEF IInv
<1> DEFINE log == [e \in Entities |-> ContentsOf(table[e])]
           new == [e \in Entities |-> ContentsOf(table'[e])]
<1>1. PICK k \in 0..Len(wal) :
        table' = [e \in Entities |-> SubSeq(table[e], 1, Len(table[e]) - CommitsBeyond(e, k))]
  BY DEF PowerLoss
<1>2. ASSUME NEW e \in Entities
      PROVE  \E n \in 0..Len(log[e]) : new[e] = SubSeq(log[e], 1, n)
  <2>1. table[e] \in Seq(Record)
    BY DEF TypeOK
  <2>2. CommitsBeyond(e, k) \in Nat
    BY CommitsBeyondType
  <2>3. /\ Len(table[e]) - CommitsBeyond(e, k) \in Int
        /\ Len(table[e]) - CommitsBeyond(e, k) <= Len(table[e])
    BY <2>1, <2>2
  <2>4. table'[e] = SubSeq(table[e], 1, Len(table[e]) - CommitsBeyond(e, k))
    BY <1>1
  <2>5. PICK n \in Nat : /\ n <= Len(ContentsOf(table[e]))
                         /\ ContentsOf(table'[e]) = SubSeq(ContentsOf(table[e]), 1, n)
    BY <2>1, <2>3, <2>4, ContentsOfCut
  <2>6. Len(ContentsOf(table[e])) \in Nat
    BY <2>1, ContentsOfType
  <2>7. n \in 0..Len(ContentsOf(table[e]))
    BY <2>5, <2>6
  <2> QED
    BY <2>5, <2>7
<1>3. losses' = losses + 1 /\ acked' = acked
  BY DEF PowerLoss, Vanish
<1>4. Abs!LoseTail
  BY <1>2, <1>3 DEF Abs!LoseTail
<1> QED
  BY <1>4 DEF Abs!Next

LEMMA AbsStep == IInv /\ [Next]_vars => [Abs!Next]_Abs!vars
<1> SUFFICES ASSUME IInv, [Next]_vars
             PROVE  Abs!Next \/ UNCHANGED Abs!vars
  OBVIOUS
<1>1. CASE \E c \in Clients, j \in Job : BeginAppend(c, j)
  BY <1>1, AbsStutter DEF BeginAppend, boundVars
<1>2. CASE \E c \in Clients : HandlerStep(c)
  <2>1. PICK c \in Clients : HandlerStep(c)
    BY <1>2
  <2>2. CASE BuildRecord(c) \/ PersistFails(c) \/ IndexRecord(c)
    BY <2>2, AbsStutter DEF BuildRecord, PersistFails, IndexRecord, boundVars
  <2> QED
    BY <2>1, <2>2, AbsAppend, AbsAcknowledge DEF HandlerStep
<1>3. CASE \E g \in Engines : Launch(g) \/ BindPort(g) \/ RequestStop(g) \/ Exit(g) \/ Crash(g)
  BY <1>3, AbsStutter DEF Launch, BindPort, RequestStop, Exit, Crash, Vanish, requestVars, boundVars
<1>4. CASE Checkpoint \/ Tick \/ StepBack \/ UNCHANGED vars
  BY <1>4, AbsStutter DEF Checkpoint, Tick, StepBack, vars, requestVars, boundVars
<1>5. CASE PowerLoss
  BY <1>5, AbsLoseTail
<1> QED
  BY <1>1, <1>2, <1>3, <1>4, <1>5 DEF Next

-----------------------------------------------------------------------------
(* Theorem.                                                                  *)

\* Whatever processes run, overlap, fail and crash over the database, what
\* clients see is an append-only log per entity whose acknowledged positions
\* hold what was acknowledged, shortened only by a power loss.
THEOREM StoreIsLog == Spec => ImplementsLog
  BY AbsInit, AbsStep, Invariance, PTL DEF Spec, ImplementsLog, Abs!Spec
==============================================================================
