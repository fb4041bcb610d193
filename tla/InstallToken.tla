----------------------------- MODULE InstallToken -----------------------------
(***************************************************************************)
(* The per-install agent token and the two processes that resolve it when  *)
(* they start: the engine (once) and the analytics server (at start and    *)
(* again in every guarded call).  Whoever finds no token file creates it   *)
(* with create-new and writes a token of its own into it; the loser of     *)
(* that race reads the file again.  Creating the file and writing it are   *)
(* two steps, and a process can be stopped between them.                   *)
(*                                                                         *)
(* Tokens are numbered in the order they are drawn.  PAE_AGENT_TOKEN is    *)
(* not set: with it no file is involved.                                   *)
(***************************************************************************)
EXTENDS Integers

CONSTANTS
  Absent,          \* there is no token file; a process holds no token
  Empty,           \* the file is there, with nothing in it
  MaxDraws,        \* bound: tokens generated
  MaxKills,        \* bound: processes stopped
  OverlapStarts,   \* may the two processes resolve the token at the same time?
  WritesMayFail    \* may creating or writing the file fail?

ASSUME TokenAssumption ==
  /\ MaxDraws \in Nat
  /\ MaxKills \in Nat
  /\ OverlapStarts \in BOOLEAN
  /\ WritesMayFail \in BOOLEAN
  /\ Absent \notin Nat
  /\ Empty \notin Nat
  /\ Absent # Empty

VARIABLES
  file,       \* what the token file holds
  stage,      \* [Process -> Stages], how far each is in resolving the token
  token,      \* [Process -> the token it holds]
  serving,    \* the processes that have come up since they were started
  drawn,      \* tokens generated so far
  kills       \* bound: processes stopped

tokenVars == <<file, stage, token, serving, drawn, kills>>

Process == {"engine", "analytics"}
Stages  == {"down", "reading", "drawn", "created", "lost", "up"}
Token   == Nat \ {0}

TokenInit ==
  /\ file = Absent
  /\ stage = [p \in Process |-> "down"]
  /\ token = [p \in Process |-> Absent]
  /\ serving = {}
  /\ drawn = 0
  /\ kills = 0

Resolving(p) == stage[p] \notin {"down", "up"}

Goes(p, s) ==
  /\ stage' = [stage EXCEPT ![p] = s]
  /\ serving' = CASE s = "up" -> serving \cup {p} [] s = "down" -> serving \ {p} [] OTHER -> serving

Holds(p, t) == token' = [token EXCEPT ![p] = t]

\* The process starts; analytics also starts over in every guarded call.
Resolve(p) ==
  /\ \/ stage[p] = "down"
     \/ stage[p] = "up" /\ p = "analytics"
  /\ OverlapStarts \/ \A q \in Process : ~Resolving(q)
  /\ Goes(p, "reading")
  /\ UNCHANGED <<file, token, drawn, kills>>

\* A token in the file is the answer; otherwise the process draws one.
ReadFile(p) ==
  /\ stage[p] = "reading"
  /\ \/ /\ file \in Token
        /\ Goes(p, "up")
        /\ Holds(p, file)
        /\ UNCHANGED drawn
     \/ /\ file \notin Token
        /\ drawn < MaxDraws
        /\ Goes(p, "drawn")
        /\ Holds(p, drawn + 1)
        /\ drawn' = drawn + 1
  /\ UNCHANGED <<file, kills>>

\* Mutant: the file is created or truncated, whoever made it.
CreateOrTruncate(p) ==
  /\ stage[p] = "drawn"
  /\ file' = Empty
  /\ Goes(p, "created")
  /\ UNCHANGED <<token, drawn, kills>>

\* create-new succeeds only where there is no file.
CreateFile(p) ==
  /\ stage[p] = "drawn"
  /\ \/ /\ file = Absent
        /\ file' = Empty
        /\ Goes(p, "created")
     \/ /\ file # Absent
        /\ Goes(p, "lost")
        /\ UNCHANGED file
  /\ UNCHANGED <<token, drawn, kills>>

WriteFile(p) ==
  /\ stage[p] = "created"
  /\ file' = token[p]
  /\ Goes(p, "up")
  /\ UNCHANGED <<token, drawn, kills>>

\* The loser reads the winner's file.  The engine keeps its own token if it
\* finds nothing there; analytics takes what it finds, nothing included.
ReadAgain(p) ==
  /\ stage[p] = "lost"
  /\ Goes(p, "up")
  /\ Holds(p, IF p = "engine" /\ file \notin Token THEN token[p] ELSE file)
  /\ UNCHANGED <<file, drawn, kills>>

\* The directory or the disk does not let the file be created or written:
\* the engine keeps an ephemeral token; analytics does not come up, or, when
\* it serves, fails that call and accepts no token in it.
CannotWrite(p) ==
  /\ WritesMayFail
  /\ \/ stage[p] = "created"
     \/ stage[p] = "drawn" /\ file = Absent
  /\ \/ p = "engine" /\ Goes(p, "up") /\ UNCHANGED token
     \/ p = "analytics" /\ p \notin serving /\ Goes(p, "down") /\ Holds(p, Absent)
     \/ p = "analytics" /\ p \in serving /\ Goes(p, "up") /\ Holds(p, Empty)
  /\ UNCHANGED <<file, drawn, kills>>

\* A process is stopped, or dies, anywhere.
Kill(p) ==
  /\ stage[p] # "down"
  /\ kills < MaxKills
  /\ kills' = kills + 1
  /\ Goes(p, "down")
  /\ Holds(p, Absent)
  /\ UNCHANGED <<file, drawn>>

\* Rotation as SELF_HOST.md has it: both services stopped, the file deleted.
DeleteFile ==
  /\ \A p \in Process : stage[p] = "down"
  /\ file # Absent
  /\ file' = Absent
  /\ UNCHANGED <<stage, token, serving, drawn, kills>>

TokenStep(p) ==
  ReadFile(p) \/ CreateFile(p) \/ WriteFile(p) \/ ReadAgain(p) \/ CannotWrite(p)

TokenNext ==
  \/ \E p \in Process : Resolve(p) \/ TokenStep(p) \/ Kill(p)
  \/ DeleteFile

TokenSpec == TokenInit /\ [][TokenNext]_tokenVars

------------------------------------------------------------------------------
(* Properties.                                                               *)

TokenTypeOK ==
  /\ file \in Token \cup {Absent, Empty}
  /\ stage \in [Process -> Stages]
  /\ token \in [Process -> Token \cup {Absent, Empty}]
  /\ serving \subseteq Process
  /\ drawn \in Nat
  /\ kills \in Nat

\* While a process is up, the install's token is never replaced under it, by
\* any order of starts, restarts and races (auth.py:67, "two processes
\* starting together converge on the single token written by whichever
\* created the file first").
TokenNeverReplaced ==
  [][file' # file /\ file \in Token => \A p \in Process : stage'[p] = "down"]_tokenVars

\* Analytics accepts the install's token or, for want of one, none at all.
AnalyticsAgrees ==
  stage["analytics"] = "up" => token["analytics"] \in {file, Empty}

\* The engine accepts the install's token (main.rs:64, "creation is race-safe
\* (create-new, loser re-reads)").  Refuted: the loser may read the file
\* before the winner has written it.
EngineAgrees ==
  stage["engine"] = "up" /\ file \in Token => token["engine"] = file
==============================================================================
