----------------------------- MODULE ImageLoad -----------------------------
(***************************************************************************)
(* What loading a chunked image promises, whatever order the chunks are    *)
(* met in and however many copies there are: chunks arrive one at a time,  *)
(* none twice, and the load is reported done exactly when the last missing *)
(* chunk arrives; until then it may be given up.                           *)
(***************************************************************************)
EXTENDS Naturals

CONSTANT MaxChunks

VARIABLES size,      \* number of chunks, 0 until the first one is seen
          got,       \* chunks that arrived
          outcome    \* "busy", "loaded" or "failed"

loadVars == <<size, got, outcome>>

LoadInit == size = 0 /\ got = {} /\ outcome = "busy"

Get(i) ==
  /\ outcome = "busy"
  /\ IF size = 0 THEN size' \in 1 .. MaxChunks ELSE size' = size
  /\ i \in 0 .. size' - 1
  /\ i \notin got
  /\ got' = got \cup {i}
  /\ outcome' \in (IF got' = 0 .. size' - 1 THEN {"loaded"} ELSE {"busy", "failed"})

GiveUp ==
  /\ outcome = "busy"
  /\ outcome' = "failed"
  /\ got' = got
  /\ IF size = 0 THEN size' \in 0 .. MaxChunks ELSE size' = size

LoadNext == (\E i \in 0 .. MaxChunks - 1 : Get(i)) \/ GiveUp

LoadSpec == LoadInit /\ [][LoadNext]_loadVars
=============================================================================
