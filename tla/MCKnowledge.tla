----------------------------- MODULE MCKnowledge ------------------------------
(* A document of two passages, its edits, and one whose passages collide.    *)
EXTENDS Knowledge

P(h, t) == [head |-> h, tail |-> t, short |-> FALSE]

MCDocuments ==
  { <<P("h1", "t1"), P("h2", "t1")>>,
    <<P("h1", "t2"), [head |-> "h2", tail |-> "t2", short |-> TRUE]>>,
    <<P("h1", "t1"), P("h1", "t2")>> }
===============================================================================
