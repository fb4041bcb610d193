---------------------------- MODULE AppendOnlyLog ----------------------------
(***************************************************************************)
(* What the version store promises, with every mechanism left out: one     *)
(* append-only sequence of contents per entity, and a set of               *)
(* acknowledgements, each naming an entity, a position and the content at  *)
(* that position.  No engine, lock, index, hash or request appears here.   *)
(*                                                                         *)
(* Nothing but a loss of power, which is counted, shortens the log, and it *)
(* falls back to a prefix of itself, never to anything else.               *)
(***************************************************************************)
EXTENDS Naturals, Sequences

CONSTANTS
  Entities,     \* entity identifiers
  Contents      \* the opaque ciphertexts clients append

VARIABLES
  log,          \* [Entities -> Seq(Contents)]
  acked,        \* set of <<entity, position, content>>
  losses        \* power losses so far

vars == <<log, acked, losses>>

Init ==
  /\ log = [e \in Entities |-> <<>>]
  /\ acked = {}
  /\ losses = 0

\* One version becomes part of an entity's history.
AppendVersion(e, x) ==
  /\ log' = [log EXCEPT ![e] = Append(@, x)]
  /\ UNCHANGED <<acked, losses>>

\* A client is told the position its content has in the log.
Acknowledge(e, i) ==
  /\ i \in 1..Len(log[e])
  /\ acked' = acked \cup {<<e, i, log[e][i]>>}
  /\ UNCHANGED <<log, losses>>

\* Power is lost: every entity keeps a prefix of its history.
LoseTail ==
  /\ losses' = losses + 1
  /\ DOMAIN log' = Entities
  /\ \A e \in Entities : \E kept \in 0..Len(log[e]) : log'[e] = SubSeq(log[e], 1, kept)
  /\ UNCHANGED acked

Next ==
  \/ \E e \in Entities, x \in Contents : AppendVersion(e, x)
  \/ \E e \in Entities : \E i \in 1..Len(log[e]) : Acknowledge(e, i)
  \/ LoseTail

Spec == Init /\ [][Next]_vars
==============================================================================
