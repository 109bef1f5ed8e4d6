------------------------------ MODULE JobPool ------------------------------
(***************************************************************************)
(* What a pool of workers promises to those who give it jobs: jobs are     *)
(* started in the order they were pushed, each once, and each result comes *)
(* out at most once, in the order the jobs were finished.                  *)
(***************************************************************************)
EXTENDS Sequences

CONSTANT Jobs   \* the jobs that are pushed, each once

VARIABLES
  queued,      \* jobs pushed and not started, in order
  working,     \* jobs started and not finished
  finished,    \* jobs finished whose result nobody has taken, in order
  delivered    \* jobs whose result was taken, in order

poolVars == <<queued, working, finished, delivered>>

Elements(q) == {q[i] : i \in DOMAIN q}

Seen == Elements(queued) \cup working \cup Elements(finished) \cup Elements(delivered)

PoolInit == queued = <<>> /\ working = {} /\ finished = <<>> /\ delivered = <<>>

Push ==
  /\ \E j \in Jobs \ Seen : queued' = Append(queued, j)
  /\ UNCHANGED <<working, finished, delivered>>

Start ==
  /\ queued # <<>>
  /\ Head(queued) \notin working
  /\ working' = working \cup {Head(queued)}
  /\ queued' = Tail(queued)
  /\ UNCHANGED <<finished, delivered>>

Finish ==
  /\ \E j \in working :
       /\ working' = working \ {j}
       /\ finished' = Append(finished, j)
  /\ UNCHANGED <<queued, delivered>>

Deliver ==
  /\ finished # <<>>
  /\ delivered' = Append(delivered, Head(finished))
  /\ finished' = Tail(finished)
  /\ UNCHANGED <<queued, working>>

PoolNext == Push \/ Start \/ Finish \/ Deliver

PoolSpec == PoolInit /\ [][PoolNext]_poolVars

=============================================================================
