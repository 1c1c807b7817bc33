------------------------ MODULE TrackCompletionProofs ------------------------
(***************************************************************************)
(* Proofs about TrackCompletion, for every number of callers, stations,    *)
(* fetches and lost connections: what was fetched or computed for a queue  *)
(* is never published into the queue another device has put in its place.  *)
(*                                                                         *)
(* The code compares generations, the property speaks of lineages.  The    *)
(* argument: a generation that is still current has seen no new lineage.   *)
(***************************************************************************)
EXTENDS TrackCompletion, TLAPS, FiniteSetTheorems

\* The fields that records keep through EXCEPT.
IsRequest(r) ==
    r = [pc |-> r.pc, op |-> r.op, baseline |-> r.baseline, generation |-> r.generation,
         lineage |-> r.lineage, station |-> r.station, items |-> r.items, index |-> r.index,
         retried |-> r.retried, excuse |-> r.excuse]

Shape == call = [c \in Callers |-> call[c]] /\ \A c \in Callers : IsRequest(call[c])

\* What was taken down of a generation belongs to its lineage.
Recorded(r) ==
    /\ r.generation \in Nat /\ r.generation <= generation
    /\ r.generation = generation => r.lineage = lineage

Replenishing(r) == r.pc \in {"awaiting", "cancelled", "fetching", "refetching", "moving"}

CInv ==
    /\ Shape
    /\ generation \in Nat /\ lineage \in Nat
    /\ \A c \in Callers : Replenishing(call[c]) => Recorded(call[c])
    /\ Running => Recorded(task)

\* What a step of a caller leaves of its request: one that replenishes belongs to the
\* current generation, or is of the generation and lineage it was before.
Stays(r, c) ==
    Replenishing(r) =>
      \/ r.generation = generation /\ r.lineage = lineage
      \/ /\ Replenishing(call[c])
         /\ r.generation = call[c].generation /\ r.lineage = call[c].lineage

-----------------------------------------------------------------------------
\* The initial states satisfy CInv.
LEMMA InitCInv == Init => CInv
<1> SUFFICES ASSUME Init PROVE CInv
  OBVIOUS
<1>1. /\ generation = 3 /\ lineage = 1 /\ call = [c \in Callers |-> Nothing]
      /\ \A c \in Callers : call[c] = Nothing
  BY DEF Init
<1>2. IsRequest(Nothing) /\ ~Replenishing(Nothing)
  BY DEF Nothing, IsRequest, Replenishing
<1>3. Running => Recorded(task)
  <2>1. CASE task = NoTask
    BY <2>1 DEF Running, NoTask
  <2>2. CASE task = Fetch(queue, generation, lineage)
    BY <1>1, <2>2 DEF Fetch, Recorded
  <2> QED
    BY <2>1, <2>2 DEF Init
<1> QED
  BY <1>1, <1>2, <1>3 DEF CInv, Shape

\* Steps that leave the requests, the generation and the lineage alone, and start no
\* prefetch.
LEMMA Apart ==
  ASSUME CInv, UNCHANGED <<call, generation, lineage>>, task' \in {task, NoTask}
  PROVE  CInv'
<1>1. Running' => Running /\ task' = task
  BY DEF Running, NoTask
<1> QED
  BY <1>1 DEF CInv, Shape, IsRequest, Recorded

\* One request changes.
LEMMA OneRequest ==
  ASSUME CInv, NEW c \in Callers, NEW r, call' = [call EXCEPT ![c] = r], IsRequest(r),
         Stays(r, c), UNCHANGED <<generation, lineage>>, task' \in {task, NoTask}
  PROVE  CInv'
<1>1. Running' => Running /\ task' = task
  BY DEF Running, NoTask
<1>2. call' = [d \in Callers |-> call'[d]]
      /\ \A d \in Callers : call'[d] = IF d = c THEN r ELSE call[d]
  BY DEF CInv, Shape
<1>3. \A d \in Callers : IsRequest(call'[d])
  BY <1>2 DEF CInv, Shape
<1>4. ASSUME NEW d \in Callers, Replenishing(call'[d]) PROVE Recorded(call'[d])
  <2>1. CASE d = c
    BY <1>2, <1>4, <2>1 DEF CInv, Stays, Recorded
  <2>2. CASE d # c
    BY <1>2, <1>4, <2>2 DEF CInv
  <2> QED
    BY <2>1, <2>2
<1>5. Shape'
  BY <1>2, <1>3 DEF Shape, IsRequest
<1>6. \A d \in Callers : Replenishing(call[d])' => Recorded(call[d])'
  BY <1>4 DEF Recorded, Replenishing
<1>7. Running' => Recorded(task)'
  BY <1>1 DEF CInv, Recorded
<1> QED
  BY <1>5, <1>6, <1>7 DEF CInv

\* CInv through the end of a call.
LEMMA DoneKeeps ==
  ASSUME CInv, NEW c \in Callers, NEW outcome, NEW why, Done(c, outcome, why),
         UNCHANGED <<generation, lineage, task>>
  PROVE  CInv'
<1>1. call' = [call EXCEPT ![c] = Nothing]
  BY DEF Done
<1>2. IsRequest(Nothing) /\ Stays(Nothing, c)
  BY DEF Nothing, IsRequest, Stays, Replenishing
<1> QED
  BY <1>1, <1>2, OneRequest

\* A request that stays what it was, but for fields of no importance here.
LEMMA Continues ==
  ASSUME CInv, NEW c \in Callers, NEW r, call' = [call EXCEPT ![c] = r], IsRequest(r),
         ~Replenishing(r), UNCHANGED <<generation, lineage, task>>
  PROVE  CInv'
  BY OneRequest DEF Stays

\* A longer list is moved into, any other is fetched once more.
LEMMA ExpandKeeps ==
  ASSUME CInv, NEW c \in Callers, NEW request, NEW items, Expand(c, request, items),
         IsRequest(request), UNCHANGED <<generation, lineage, task>>,
         \/ request.generation = generation /\ request.lineage = lineage
         \/ request = call[c] /\ Replenishing(call[c])
  PROVE  CInv'
<1>1. PICK r : r = [request EXCEPT
                      !.pc = IF Len(items) > request.index THEN "moving" ELSE "refetching",
                      !.items = items]
  OBVIOUS
<1>2. call' = [call EXCEPT ![c] = r]
  BY <1>1 DEF Expand
<1>3. IsRequest(r) /\ r.generation = request.generation /\ r.lineage = request.lineage
  BY <1>1 DEF IsRequest
<1>4. Stays(r, c)
  BY <1>3 DEF Stays
<1> QED
  BY <1>2, <1>3, <1>4, OneRequest

-----------------------------------------------------------------------------
\* CInv through taking, awaiting or fetching a batch.
LEMMA ReplenishKeeps ==
  ASSUME CInv, NEW c \in Callers, Replenish(c), task' = task PROVE CInv'
<1>1. IsRequest(call[c])
  BY DEF CInv, Shape
<1>2. PICK request :
        request = [call[c] EXCEPT !.generation = generation, !.lineage = lineage,
                       !.station = Snapshot.station, !.items = Snapshot.items,
                       !.index = Size(Snapshot)]
  OBVIOUS
<1>3. /\ IsRequest(request)
      /\ request.generation = generation /\ request.lineage = lineage
  BY <1>1, <1>2 DEF IsRequest
<1>4. UNCHANGED <<generation, lineage>>
  BY DEF Replenish, clientVars
<1>5. CASE OfThisGeneration(prefetched)
  <2>1. Expand(c, request, prefetched.items)
    BY <1>2, <1>5 DEF Replenish
  <2> QED
    BY <1>3, <1>4, <2>1, ExpandKeeps
<1>6. CASE ~OfThisGeneration(prefetched)
  <2>1. PICK pc, excuse :
          call' = [call EXCEPT ![c] = [request EXCEPT !.pc = pc, !.excuse = excuse]]
    BY <1>2, <1>6 DEF Replenish
  <2>2. PICK r : r = [request EXCEPT !.pc = pc, !.excuse = excuse]
    OBVIOUS
  <2>3. IsRequest(r) /\ r.generation = generation /\ r.lineage = lineage
    BY <1>3, <2>2 DEF IsRequest
  <2>4. Stays(r, c)
    BY <2>3 DEF Stays
  <2> QED
    BY <1>4, <2>1, <2>2, <2>3, <2>4, OneRequest
<1> QED
  BY <1>5, <1>6

\* Every step of a caller.
LEMMA StepKeeps ==
  ASSUME CInv, NEW c \in Callers, Step(c) PROVE CInv'
<1>r. IsRequest(call[c])
  BY DEF CInv, Shape
<1>u. UNCHANGED <<generation, lineage>>
  BY DEF Step, Acquire, GiveUp, Check, Advance, AdvanceFails, Awaited, Cancelled, Fetched,
         FetchedNothing, Move, MoveFails, Replenish, Commit, clientVars
<1>t. UNCHANGED task
  BY DEF Step, Acquire, GiveUp, Check, Advance, AdvanceFails, Awaited, Cancelled, Fetched,
         FetchedNothing, Move, MoveFails, radioVars
<1>1. CASE Acquire(c)
  <2>1. CASE \E outcome, why : Done(c, outcome, why)
    BY <1>u, <1>t, <2>1, DoneKeeps
  <2>2. CASE call' = [call EXCEPT ![c].pc = "checking",
                        ![c].baseline = IF @ = None THEN Baseline ELSE @]
    <3>1. PICK r : r = [call[c] EXCEPT !.pc = "checking",
                          !.baseline = IF @ = None THEN Baseline ELSE @]
      OBVIOUS
    <3>2. IsRequest(r) /\ r.pc = "checking"
      BY <1>r, <3>1 DEF IsRequest
    <3>3. call' = [call EXCEPT ![c] = r]
      BY <2>2, <3>1 DEF CInv, Shape
    <3> QED
      BY <1>u, <1>t, <3>2, <3>3, Continues DEF Replenishing
  <2>3. ASSUME NEW i, call' = [call EXCEPT ![c].pc = "moving",
                          ![c].generation = generation, ![c].lineage = lineage, ![c].index = i]
        PROVE CInv'
    <3>1. PICK r : r = [call[c] EXCEPT !.pc = "moving", !.generation = generation,
                                       !.lineage = lineage, !.index = i]
      OBVIOUS
    <3>2. IsRequest(r) /\ r.generation = generation /\ r.lineage = lineage
      BY <1>r, <3>1 DEF IsRequest
    <3>3. call' = [call EXCEPT ![c] = r]
      BY <2>3, <3>1 DEF CInv, Shape
    <3>4. Stays(r, c)
      BY <3>2 DEF Stays
    <3> QED
      BY <1>u, <1>t, <3>2, <3>3, <3>4, OneRequest
  <2> QED
    BY <1>1, <2>1, <2>2, <2>3 DEF Acquire
<1>2. CASE GiveUp(c)
  BY <1>2, <1>u, <1>t, DoneKeeps DEF GiveUp
<1>3. CASE Check(c)
  <2>1. CASE call[c].baseline # Baseline
    BY <1>3, <1>u, <1>t, <2>1, DoneKeeps DEF Check
  <2>2. CASE call' = [call EXCEPT ![c].pc = "advancing"]
    <3>1. PICK r : r = [call[c] EXCEPT !.pc = "advancing"]
      OBVIOUS
    <3>2. IsRequest(r) /\ r.pc = "advancing"
      BY <1>r, <3>1 DEF IsRequest
    <3>3. call' = [call EXCEPT ![c] = r]
      BY <2>2, <3>1 DEF CInv, Shape
    <3> QED
      BY <1>u, <1>t, <3>2, <3>3, Continues DEF Replenishing
  <2> QED
    BY <1>3, <2>1, <2>2 DEF Check
<1>4. CASE Advance(c)
  <2>1. CASE Replenish(c)
    BY <1>t, <2>1, ReplenishKeeps
  <2>2. CASE \E outcome, why : Done(c, outcome, why)
    BY <1>u, <1>t, <2>2, DoneKeeps
  <2> QED
    BY <1>4, <2>1, <2>2 DEF Advance
<1>5. CASE AdvanceFails(c)
  <2>1. CASE Done(c, "failed", {"lost"})
    BY <1>u, <1>t, <2>1, DoneKeeps
  <2>2. CASE call' = [call EXCEPT ![c].retried = TRUE]
    <3>1. PICK r : r = [call[c] EXCEPT !.retried = TRUE]
      OBVIOUS
    <3>2. IsRequest(r) /\ r.pc = "advancing"
      BY <1>5, <1>r, <3>1 DEF IsRequest, AdvanceFails, Connected, Holds
    <3>3. call' = [call EXCEPT ![c] = r]
      BY <2>2, <3>1 DEF CInv, Shape
    <3> QED
      BY <1>u, <1>t, <3>2, <3>3, Continues DEF Replenishing
  <2> QED
    BY <1>5, <2>1, <2>2 DEF AdvanceFails
<1>6. CASE Awaited(c)
  <2>1. CASE \E outcome, why : Done(c, outcome, why)
    BY <1>u, <1>t, <2>1, DoneKeeps
  <2>2. CASE Expand(c, call[c], prefetched.items)
    <3>1. Replenishing(call[c])
      BY <1>6 DEF Awaited, Holds, Replenishing
    <3> QED
      BY <1>r, <1>u, <1>t, <2>2, <3>1, ExpandKeeps
  <2> QED
    BY <1>6, <2>1, <2>2 DEF Awaited
<1>7. CASE Cancelled(c)
  BY <1>7, <1>u, <1>t, DoneKeeps DEF Cancelled
<1>8. CASE Fetched(c)
  <2>1. CASE \E outcome, why : Done(c, outcome, why)
    BY <1>u, <1>t, <2>1, DoneKeeps
  <2>2. CASE \E items : Expand(c, call[c], items)
    <3>1. Replenishing(call[c])
      BY <1>8 DEF Fetched, Holds, Replenishing
    <3> QED
      BY <1>r, <1>u, <1>t, <2>2, <3>1, ExpandKeeps
  <2> QED
    BY <1>8, <2>1, <2>2 DEF Fetched
<1>9. CASE FetchedNothing(c)
  BY <1>9, <1>u, <1>t, DoneKeeps DEF FetchedNothing
<1>10. CASE Move(c)
  BY <1>10, <1>u, <1>t, DoneKeeps DEF Move
<1>11. CASE MoveFails(c)
  BY <1>11, <1>u, <1>t, DoneKeeps DEF MoveFails
<1> QED
  BY <1>1, <1>2, <1>3, <1>4, <1>5, <1>6, <1>7, <1>8, <1>9, <1>10, <1>11 DEF Step

\* CInv through the begin of a call.
LEMMA BeginKeeps ==
  ASSUME CInv, NEW c \in Callers, NEW op \in Kinds, Begin(c, op) PROVE CInv'
<1>1. PICK r : r = [Nothing EXCEPT !.pc = "queued", !.op = op,
                          !.baseline = IF op = "end" THEN Baseline ELSE None]
  OBVIOUS
<1>2. IsRequest(r) /\ r.pc = "queued"
  BY <1>1 DEF Nothing, IsRequest
<1>3. call' = [call EXCEPT ![c] = r] /\ UNCHANGED <<generation, lineage, task>>
  BY <1>1 DEF Begin, clientVars, radioVars
<1> QED
  BY <1>2, <1>3, Continues DEF Replenishing

\* CInv through the steps of the prefetch task.
LEMMA PrefetchKeeps ==
  ASSUME CInv, Prefetch PROVE CInv'
<1>1. CASE PrefetchArrives
  BY <1>1, Apart DEF PrefetchArrives, Commit, clientVars, callVars
<1>2. CASE PrefetchDropped
  BY <1>2, Apart DEF PrefetchDropped, clientVars, callVars
<1>3. CASE PrefetchFails
  <2>1. call' = [d \in Callers |-> call'[d]]
    BY <1>3 DEF PrefetchFails
  <2>2. ASSUME NEW d \in Callers
        PROVE  /\ IsRequest(call'[d])
               /\ Replenishing(call'[d]) <=> Replenishing(call[d])
               /\ Recorded(call'[d]) <=> Recorded(call[d])
    <3>1. PICK r : r = [call[d] EXCEPT !.excuse = @ \union {"api"}]
      OBVIOUS
    <3>2. IsRequest(call[d])
      BY DEF CInv, Shape
    <3>3. /\ IsRequest(r) /\ r.pc = call[d].pc
          /\ r.generation = call[d].generation /\ r.lineage = call[d].lineage
      BY <3>1, <3>2 DEF IsRequest
    <3>4. call'[d] \in {r, call[d]}
      BY <1>3, <3>1 DEF PrefetchFails
    <3> QED
      BY <3>2, <3>3, <3>4 DEF Replenishing, Recorded
  <2>3. UNCHANGED <<generation, lineage>> /\ task' = NoTask
    BY <1>3 DEF PrefetchFails, clientVars
  <2>4. ~Running'
    BY <2>3 DEF Running, NoTask
  <2>5. Shape'
    BY <2>1, <2>2 DEF Shape, IsRequest
  <2>6. \A d \in Callers : Replenishing(call[d])' => Recorded(call[d])'
    BY <2>2, <2>3 DEF CInv, Recorded, Replenishing
  <2> QED
    BY <2>3, <2>4, <2>5, <2>6 DEF CInv
<1> QED
  BY <1>1, <1>2, <1>3 DEF Prefetch

\* A frame begins a new lineage only together with a new generation.
LEMMA ParseAdvances ==
  ASSUME CInv, NEW f, Parse(f)
  PROVE  /\ generation' \in Nat /\ lineage' \in Nat
         /\ generation <= generation'
         /\ generation' = generation => lineage' = lineage
  BY DEF CInv, Parse

\* What was taken down before still is what it was after a frame.
LEMMA OldRecords ==
  ASSUME CInv, NEW f, Parse(f), NEW r, Recorded(r)
  PROVE  /\ r.generation \in Nat /\ r.generation <= generation'
         /\ r.generation = generation' => r.lineage = lineage'
<1>1. /\ generation \in Nat /\ generation' \in Nat
      /\ generation <= generation'
      /\ generation' = generation => lineage' = lineage
  BY ParseAdvances DEF CInv
<1> QED
  BY <1>1 DEF Recorded

\* CInv through a frame, which may end the generation.
LEMMA HandleFrameKeeps ==
  ASSUME CInv, HandleFrame PROVE CInv'
<1>1. PICK f : Parse(f)
  BY DEF HandleFrame
<1>2. /\ generation' \in Nat /\ lineage' \in Nat
  BY <1>1, ParseAdvances
<1>3. Running' => Recorded(task)'
  <2>1. CASE task' = task
    BY <1>1, <2>1, OldRecords DEF CInv, Running, Recorded
  <2>2. CASE task' = NoTask
    BY <2>2 DEF Running, NoTask
  <2>3. CASE task' = Fetch(queue', generation', lineage')
    BY <1>2, <2>3 DEF Fetch, Recorded
  <2> QED
    BY <2>1, <2>2, <2>3 DEF HandleFrame, MaybePrefetch, radioVars
<1>4. CASE UNCHANGED call
  <2>1. Shape'
    BY <1>4 DEF CInv, Shape, IsRequest
  <2>2. \A d \in Callers : Replenishing(call[d])' => Recorded(call[d])'
    BY <1>1, <1>4, OldRecords DEF CInv, Recorded, Replenishing
  <2> QED
    BY <1>2, <1>3, <2>1, <2>2 DEF CInv
<1>5. CASE call' = Cleared
  <2>1. call' = [d \in Callers |-> call'[d]]
    BY <1>5 DEF Cleared
  <2>2. ASSUME NEW d \in Callers
        PROVE  /\ IsRequest(call'[d])
               /\ Replenishing(call'[d]) <=> Replenishing(call[d])
               /\ call'[d].generation = call[d].generation
               /\ call'[d].lineage = call[d].lineage
    <3>1. PICK r : r = [call[d] EXCEPT !.pc = "cancelled"]
      OBVIOUS
    <3>2. IsRequest(call[d])
      BY DEF CInv, Shape
    <3>3. /\ IsRequest(r) /\ r.pc = "cancelled"
          /\ r.generation = call[d].generation /\ r.lineage = call[d].lineage
      BY <3>1, <3>2 DEF IsRequest
    <3>4. \/ call'[d] = call[d]
          \/ call'[d] = r /\ call[d].pc = "awaiting"
      BY <1>5, <3>1 DEF Cleared
    <3> QED
      BY <3>2, <3>3, <3>4 DEF Replenishing
  <2>3. Shape'
    BY <2>1, <2>2 DEF Shape, IsRequest
  <2>4. \A d \in Callers : Replenishing(call[d])' => Recorded(call[d])'
    BY <1>1, <2>2, OldRecords DEF CInv, Recorded, Replenishing
  <2> QED
    BY <1>2, <1>3, <2>3, <2>4 DEF CInv
<1> QED
  BY <1>4, <1>5 DEF HandleFrame

\* CInv through what happens outside.
LEMMA EnvironmentKeeps ==
  ASSUME CInv, Environment PROVE CInv'
<1>1. CASE Reconnects
  <2>1. /\ generation' = generation + 1
        /\ UNCHANGED <<lineage, call, task>>
    BY <1>1 DEF Reconnects, callVars, radioVars
  <2>2. Shape'
    BY <2>1 DEF CInv, Shape, IsRequest
  <2>3. \A d \in Callers : Replenishing(call[d])' => Recorded(call[d])'
    BY <2>1 DEF CInv, Recorded, Replenishing
  <2>4. Running' => Recorded(task)'
    BY <2>1 DEF CInv, Running, Recorded
  <2> QED
    BY <2>1, <2>2, <2>3, <2>4 DEF CInv
<1>2. CASE Loses \/ Settles \/ PeerPlays \/ PeerSwitches \/ Relay
  BY <1>2, Apart
     DEF Loses, Settles, PeerPlays, PeerSwitches, PeerAct, Relay, clientVars, callVars, radioVars
<1> QED
  BY <1>1, <1>2 DEF Environment

\* CInv through every step.
LEMMA NextCInv == CInv /\ [Next]_vars => CInv'
<1> SUFFICES ASSUME CInv, [Next]_vars PROVE CInv'
  OBVIOUS
<1>1. ASSUME NEW c \in Callers, Step(c) PROVE CInv'
  BY <1>1, StepKeeps
<1>2. ASSUME NEW c \in Callers, NEW op \in Kinds, Begin(c, op) PROVE CInv'
  BY <1>2, BeginKeeps
<1>3. CASE Prefetch
  BY <1>3, PrefetchKeeps
<1>4. CASE HandleFrame
  BY <1>4, HandleFrameKeeps
<1>5. CASE Environment
  BY <1>5, EnvironmentKeeps
<1>6. CASE UNCHANGED vars
  BY <1>6, Apart DEF vars, clientVars, callVars, radioVars
<1> QED
  BY <1>1, <1>2, <1>3, <1>4, <1>5, <1>6 DEF Next

\* A request, a prefetch or a computed index that is of the current generation is of the
\* current lineage too.
THEOREM Invariance == Spec => []CInv
<1> QED
  BY InitCInv, NextCInv, PTL DEF Spec

-----------------------------------------------------------------------------
\* The steps that send an edit.
LEMMA WhoPublishes ==
  ASSUME Next, edits' # edits
  PROVE  \/ \E c \in Callers : Move(c) \/ Advance(c)
         \/ PrefetchArrives
<1>1. ASSUME NEW c \in Callers, Step(c) PROVE Move(c) \/ Advance(c)
  BY <1>1 DEF Step, Acquire, GiveUp, Check, AdvanceFails, Awaited, Cancelled, Fetched,
              FetchedNothing, MoveFails, Breaks, bounds
<1>2. ASSUME NEW c \in Callers, NEW op \in Kinds PROVE ~Begin(c, op)
  BY DEF Begin
<1>3. Prefetch => PrefetchArrives
  BY DEF Prefetch, PrefetchDropped, PrefetchFails, Breaks, bounds
<1>4. ~HandleFrame
  BY DEF HandleFrame, bounds
<1>5. ~Environment
  BY DEF Environment, Loses, Reconnects, Settles, PeerPlays, PeerSwitches, PeerAct, Relay,
         Breaks, bounds
<1> QED
  BY <1>1, <1>2, <1>3, <1>4, <1>5 DEF Next

\* Whoever publishes does so for the lineage that is there.
LEMMA PublishesForItsQueue ==
  ASSUME CInv, Next
  PROVE  /\ \A c \in Callers : Moves(c) => call[c].lineage = lineage
         /\ Publishes => task.lineage = lineage
<1> SUFFICES ASSUME edits' # edits
             PROVE  /\ \A c \in Callers : Moves(c) => call[c].lineage = lineage
                    /\ Publishes => task.lineage = lineage
  BY DEF Moves, Publishes
<1>1. ASSUME NEW c \in Callers, Move(c)
      PROVE  /\ \A d \in Callers : Moves(d) => call[d].lineage = lineage
             /\ Publishes => task.lineage = lineage
  <2>1. generation = call[c].generation /\ call' = [call EXCEPT ![c] = Nothing]
    BY <1>1 DEF Move, Done, bounds
  <2>2. call[c].lineage = lineage
    BY <1>1, <2>1 DEF CInv, Recorded, Replenishing, Move, Connected, Holds
  <2>3. ASSUME NEW d \in Callers, Moves(d) PROVE d = c
    BY <2>1, <2>3 DEF Moves, CInv, Shape
  <2>4. ~Publishes
    BY <1>1 DEF Move, radioVars, Publishes, Running, NoTask
  <2> QED
    BY <2>2, <2>3, <2>4
<1>2. ASSUME NEW c \in Callers, Advance(c)
      PROVE  /\ \A d \in Callers : Moves(d) => call[d].lineage = lineage
             /\ Publishes => task.lineage = lineage
  <2>1. call' = [call EXCEPT ![c] = Nothing] /\ call[c].pc = "advancing"
    BY <1>2 DEF Advance, Replenish, Done, bounds, Connected, Holds
  <2>2. \A d \in Callers : ~Moves(d)
    BY <2>1 DEF Moves, CInv, Shape
  <2>3. ~Publishes
    BY <1>2 DEF Advance, Publishes, Running, NoTask
  <2> QED
    BY <2>2, <2>3
<1>3. CASE PrefetchArrives
  <2>1. UNCHANGED call /\ Running /\ generation = task.generation
    BY <1>3 DEF PrefetchArrives, callVars
  <2>2. \A d \in Callers : ~Moves(d)
    BY <2>1 DEF Moves
  <2> QED
    BY <2>1, <2>2 DEF CInv, Recorded
<1> QED
  BY <1>1, <1>2, <1>3, WhoPublishes

\* Neither a batch nor an index is published into a queue that has replaced the one it was
\* computed for (the generation checks of _do_prefetch, _complete_track and go_to_index).
THEOREM OnlyCurrentBatches == Spec => NoObsoleteBatch
<1>1. CInv /\ [Next]_vars =>
        [/\ \A c \in Callers : Moves(c) => call[c].lineage = lineage
         /\ Publishes => task.lineage = lineage]_vars
  BY PublishesForItsQueue
<1> QED
  BY <1>1, Invariance, PTL DEF Spec, NoObsoleteBatch
-----------------------------------------------------------------------------
(* Types.  The callers at work are those in the queue for the lock, and what *)
(* they and the prefetch hold comes from queues and from the rotor API.      *)

Playables == [station : Nat, n : Int]
Frames == [queue : Queues, active : BOOLEAN]
Pcs == {"idle", "queued", "checking", "advancing", "awaiting", "cancelled", "fetching",
        "refetching", "moving"}

RequestTyped(r) ==
    /\ r.pc \in Pcs /\ r.items \in Lists /\ r.excuse \subseteq Excuses
    /\ r.station \in Nat /\ r.index \in Int

ClientTyped ==
    /\ queue \in Queues /\ pending \in Queues \union {None} /\ active \in BOOLEAN
    /\ lastVersion \in Nat /\ navigation \in Nat /\ unadopted \in Nat
    /\ generation \in Nat /\ lineage \in Nat

NetTyped ==
    link \in {"down", "settling", "up"} /\ inbox \in Seq(Frames) /\ server \in Frames

CountsTyped ==
    /\ edits \in Nat /\ calls \in Nat /\ fetched \in Nat
    /\ peers \in Nat /\ drops \in Nat /\ relays \in Nat

CallsTyped ==
    /\ stream \in {"on", "ending", "off"} /\ stopped \in BOOLEAN
    /\ failure # None => failure \subseteq Excuses
    /\ \A c \in Callers : RequestTyped(call[c])

RadioTyped ==
    /\ prefetched # None => prefetched.items \in Lists
    /\ task.pc \in {"idle", "fetching"} /\ task.items \in Lists /\ task.station \in Nat

\* Each caller at work has one place in the queue for the lock.
Turns ==
    /\ lock \in Seq(Callers)
    /\ \A i, j \in 1 .. Len(lock) : lock[i] = lock[j] => i = j
    /\ \A c \in Callers : AtWork(c) <=> \E i \in 1 .. Len(lock) : lock[i] = c

TInv ==
    ClientTyped /\ NetTyped /\ CountsTyped /\ CallsTyped /\ RadioTyped /\ Turns

-----------------------------------------------------------------------------
\* The positions that the logical order names are integers.
LEMMA OrderTyped == ASSUME NEW q \in Queues PROVE Order(q) \in Seq(Int)
<1>1. q.items \in Seq(Playables) /\ q.order \in Seq(Int)
  BY DEF Queues, Lists, Playables
<1>2. Size(q) \in Nat
  BY <1>1 DEF Size
<1>3. Sequential(Size(q)) \in Seq(Int)
  BY <1>2 DEF Sequential
<1> QED
  BY <1>1, <1>3 DEF Order

\* So are the neighbours of the current item.
LEMMA RelativeTyped ==
  ASSUME NEW q \in Queues, NEW offset, NEW wrap, NEW x \in Relative(q, offset, wrap)
  PROVE  x \in Int
<1>1. Order(q) \in Seq(Int)
  BY OrderTyped
<1>2. PICK t : t \in 1 .. Len(Order(q)) /\ x = Order(q)[t]
  BY DEF Relative
<1> QED
  BY <1>1, <1>2

\* A queue that is moved in is a queue.
LEMMA IndexTyped ==
  ASSUME NEW q \in Queues, NEW index \in Int PROVE [q EXCEPT !.current = index] \in Queues
  BY DEF Queues

\* A player state whose status is left out.
IsBase(b) == b = [queue |-> b.queue, status |-> None] /\ b.queue \in Queues

\* What an edit starts from is a queue with its size and station.
LEMMA BaseTyped ==
  ASSUME ClientTyped
  PROVE  /\ Snapshot \in Queues /\ IsBase(Base) /\ Base.queue = Snapshot
         /\ Size(Snapshot) \in Nat /\ Snapshot.items \in Lists /\ Snapshot.station \in Nat
<1>1. Snapshot \in Queues
  BY DEF ClientTyped, Snapshot
<1>2. Snapshot.items \in Lists /\ Snapshot.station \in Nat
  BY <1>1 DEF Queues
<1>3. Size(Snapshot) \in Nat
  BY <1>2 DEF Size, Lists
<1> QED
  BY <1>1, <1>2, <1>3 DEF Base, IsBase

\* So is what a planned navigation leaves ...
LEMMA NavigateTyped ==
  ASSUME NEW b, IsBase(b), NEW natural, NEW v
  PROVE  Navigate(b, natural, v).queue \in Queues
<1>1. CASE Outcome(b.queue, natural) = "radio"
  BY <1>1 DEF Navigate, IsBase
<1>2. CASE Outcome(b.queue, natural) = "stop"
  <2>1. Navigate(b, natural, v) = [b EXCEPT !.status = Finished(v)]
    BY <1>2 DEF Navigate
  <2> QED
    BY <2>1 DEF IsBase
<1>3. CASE Outcome(b.queue, natural) \notin {"radio", "stop"}
  <2> DEFINE index == CHOOSE i \in PlannedIndex(b.queue, natural) : TRUE
  <2>1. PlannedIndex(b.queue, natural) # {}
    BY <1>3 DEF Outcome
  <2>2. index \in PlannedIndex(b.queue, natural)
    BY <2>1
  <2>3. b.queue.current \in Int
    BY DEF IsBase, Queues
  <2>4. index \in Int
    BY <2>2, <2>3, RelativeTyped DEF IsBase, PlannedIndex, NextIndex
  <2>5. Navigate(b, natural, v) = [b EXCEPT !.queue.current = index, !.status = Beginning(v)]
    BY <1>3 DEF Navigate
  <2> HIDE DEF index
  <2>6. Navigate(b, natural, v).queue = [b.queue EXCEPT !.current = index]
    BY <2>5 DEF IsBase
  <2> QED
    BY <2>4, <2>6, IndexTyped DEF IsBase
<1> QED
  BY <1>1, <1>2, <1>3

\* ... an append, with its trim in front or its longer shuffle list ...
LEMMA ReplaceTyped ==
  ASSUME NEW b, IsBase(b), NEW items \in Lists
  PROVE  /\ ReplaceItems(b, items).queue \in Queues
         /\ IsBase(ReplaceItems(b, items))
         /\ Dropped(b.queue, items) \in Nat
<1>1. PICK q \in Queues : q = b.queue
  BY DEF IsBase
<1>b. b = [queue |-> q, status |-> None]
  BY <1>1 DEF IsBase
<1>2. /\ q.items \in Lists /\ q.order \in Seq(Int) /\ q.current \in Int
      /\ q.shuffled \in BOOLEAN
  BY DEF Queues
<1>3. PICK n \in Nat, m \in Nat : n = Size(q) /\ m = Len(items)
  BY <1>2 DEF Size, Lists
<1>4. PICK d \in Nat : d = Dropped(q, items)
  BY <1>2, <1>3, WindowAssumption DEF Dropped, Least, Most
<1>5. CASE q.shuffled
  <2> DEFINE order == InsertShuffleIndices(q.order, n, m - n)
             moved == [i \in 1 .. Len(q.order) |->
                         IF q.order[i] >= n THEN q.order[i] + (m - n) ELSE q.order[i]]
             new == [i \in 1 .. (m - n) |-> n + i - 1]
  <2>1. order = moved \o new
    BY DEF InsertShuffleIndices
  <2>2. moved \in Seq(Int)
    BY <1>2
  <2>3. new \in Seq(Int)
    <3>1. CASE m - n \in Nat
      BY <3>1
    <3>2. CASE m - n \notin Nat
      <4>1. 1 .. (m - n) = 1 .. 0
        BY <3>2
      <4>2. [i \in 1 .. 0 |-> n + i - 1] \in Seq(Int)
        OBVIOUS
      <4> QED
        BY <4>1, <4>2
    <3> QED
      BY <3>1, <3>2
  <2>4. ReplaceItems(b, items) = [b EXCEPT !.queue.items = items, !.queue.order = order]
    BY <1>1, <1>3, <1>5 DEF ReplaceItems
  <2> HIDE DEF moved, new, order
  <2>5. order \in Seq(Int)
    <3>1. ASSUME NEW x \in Seq(Int), NEW y \in Seq(Int) PROVE x \o y \in Seq(Int)
      OBVIOUS
    <3> QED
      BY <2>1, <2>2, <2>3, <3>1
  <2>6. PICK edited \in Queues : edited = [q EXCEPT !.items = items, !.order = order]
    <3>1. [q EXCEPT !.items = items, !.order = order] \in Queues
      BY <2>5 DEF Queues
    <3> QED
      BY <3>1
  <2>7. [b EXCEPT !.queue.items = items, !.queue.order = order] = [b EXCEPT !.queue = edited]
    BY <1>1, <1>b, <2>6
  <2> QED
    BY <1>1, <1>4, <1>b, <2>4, <2>7 DEF IsBase
<1>6. CASE ~q.shuffled
  <2>1. PICK list \in Lists : list = SubSeq(items, d + 1, m)
    <3>1. items \in Seq(Playables) /\ Lists = Seq(Playables)
      BY DEF Lists, Playables
    <3>2. SubSeq(items, d + 1, m) \in Seq(Playables)
      BY <1>3, <3>1
    <3> QED
      BY <3>1, <3>2
  <2>2. PICK i \in Int : i = q.current - d
    BY <1>2
  <2>3. ReplaceItems(b, items) = [b EXCEPT !.queue.items = list, !.queue.current = i]
    BY <1>1, <1>3, <1>4, <1>6, <2>1, <2>2 DEF ReplaceItems
  <2>4. PICK edited \in Queues : edited = [q EXCEPT !.items = list, !.current = i]
    <3>1. [q EXCEPT !.items = list, !.current = i] \in Queues
      BY DEF Queues
    <3> QED
      BY <3>1
  <2>5. [b EXCEPT !.queue.items = list, !.queue.current = i] = [b EXCEPT !.queue = edited]
    BY <1>1, <1>b, <2>4
  <2> QED
    BY <1>1, <1>4, <1>b, <2>3, <2>5 DEF IsBase
<1> QED
  BY <1>2, <1>5, <1>6

\* ... and a move to an index, in the list or in a longer one.
LEMMA MovedTyped ==
  ASSUME ClientTyped, NEW c \in Callers, RequestTyped(call[c])
  PROVE  Moved(c).queue \in Queues
<1>1. ASSUME NEW b, IsBase(b), NEW index \in Int PROVE SetIndex(b, index, None).queue \in Queues
  <2>1. SetIndex(b, index, None).queue = [b.queue EXCEPT !.current = index]
    BY <1>1 DEF SetIndex, IsBase
  <2> QED
    BY <1>1, <2>1, IndexTyped DEF IsBase
<1>2. call[c].index \in Int /\ call[c].items \in Lists
  BY DEF RequestTyped
<1>3. IsBase(Base)
  BY BaseTyped
<1>4. CASE call[c].items = <<>>
  BY <1>1, <1>2, <1>3, <1>4 DEF Moved
<1>5. CASE call[c].items # <<>>
  <2>1. IsBase(ReplaceItems(Base, call[c].items))
    BY <1>2, <1>3, ReplaceTyped
  <2>2. PICK index \in Int : index = call[c].index - Dropped(Base.queue, call[c].items)
    BY <1>2, <1>3, ReplaceTyped
  <2>3. Moved(c) = SetIndex(ReplaceItems(Base, call[c].items), index, None)
    BY <1>5, <2>2 DEF Moved, SetIndexIn
  <2> QED
    BY <1>1, <2>1, <2>2, <2>3
<1> QED
  BY <1>4, <1>5

\* What the rotor API returns makes a list longer.
LEMMA BatchTyped ==
  ASSUME CountsTyped, NEW station \in Nat, NEW list \in Lists, NEW items \in Batches(station, list)
  PROVE  items \in Lists /\ Len(items) - Len(list) \in Nat /\ Len(items) > Len(list)
<1>1. PICK n \in BatchSizes : items = list \o [i \in 1 .. n |-> Track(station, fetched + i)]
  BY DEF Batches
<1>2. n \in Nat \ {0} /\ fetched \in Nat
  BY BatchAssumption DEF CountsTyped
<1> DEFINE batch == [i \in 1 .. n |-> Track(station, fetched + i)]
<1>3. batch \in Lists /\ Len(batch) = n
  <2>1. \A i \in 1 .. n : Track(station, fetched + i) \in Playables
    BY <1>2 DEF Track, Playables
  <2>2. Lists = Seq(Playables)
    BY DEF Lists, Playables
  <2> QED
    BY <1>2, <2>1, <2>2
<1> HIDE DEF batch
<1>4. items \in Lists /\ Len(items) = Len(list) + Len(batch)
  <2>1. items = list \o batch
    BY <1>1 DEF batch
  <2>2. Lists = Seq(Playables)
    BY DEF Lists, Playables
  <2>3. ASSUME NEW x \in Seq(Playables), NEW y \in Seq(Playables)
        PROVE  x \o y \in Seq(Playables) /\ Len(x \o y) = Len(x) + Len(y)
    OBVIOUS
  <2>4. list \in Seq(Playables) /\ batch \in Seq(Playables)
    BY <1>3, <2>2
  <2>5. items \in Seq(Playables) /\ Len(items) = Len(list) + Len(batch)
    BY <2>1, <2>3, <2>4
  <2> QED
    BY <2>2, <2>5
<1>5. Len(list) \in Nat
  BY DEF Lists
<1> QED
  BY <1>2, <1>3, <1>4, <1>5

\* A queue that is started is a queue.
LEMMA StartedTyped ==
  ASSUME NEW s \in Starts, NEW station \in Nat PROVE Started(s, station) \in Queues
<1>1. s.size \in Nat /\ s.current \in Nat /\ s.radio \in BOOLEAN /\ s.shuffled \in BOOLEAN
  BY StartsAssumption
<1>2. [i \in 1 .. s.size |-> Track(station, i - s.size)] \in Lists
  <2>1. \A i \in 1 .. s.size : Track(station, i - s.size) \in Playables
    BY <1>1 DEF Track, Playables
  <2>2. Lists = Seq(Playables)
    BY DEF Lists, Playables
  <2> QED
    BY <1>1, <2>1, <2>2
<1>3. PICK order \in Seq(Int) :
        order = IF s.shuffled THEN [i \in 1 .. s.size |-> s.size - i] ELSE <<>>
  <2>1. [i \in 1 .. s.size |-> s.size - i] \in Seq(Int)
    BY <1>1
  <2>2. <<>> \in Seq(Int)
    OBVIOUS
  <2> QED
    BY <2>1, <2>2
<1>4. PICK items \in Lists : items = [i \in 1 .. s.size |-> Track(station, i - s.size)]
  BY <1>2
<1>5. Started(s, station)
        = [items |-> items, current |-> s.current, shuffled |-> s.shuffled, order |-> order,
           repeat |-> "NONE", radio |-> s.radio, station |-> station, version |-> 0]
  BY <1>3, <1>4 DEF Started
<1> QED
  BY <1>1, <1>5 DEF Queues, RepeatModes

-----------------------------------------------------------------------------
(* What the parts of a step leave                                            *)

\* An edit is a new version of a queue.
LEMMA CommitTyped ==
  ASSUME ClientTyped, NetTyped, CountsTyped, NEW ps, ps.queue \in Queues, NEW moves \in BOOLEAN,
         NEW more \in Nat, Commit(ps, moves, more)
  PROVE  ClientTyped' /\ NetTyped' /\ CountsTyped'
<1>1. edits \in Nat /\ edits + 1 \in Nat
  BY DEF CountsTyped
<1>2. PICK sent \in Queues : sent = [ps.queue EXCEPT !.version = edits + 1]
  <2>1. [ps.queue EXCEPT !.version = edits + 1] \in Queues
    BY <1>1 DEF Queues
  <2> QED
    BY <2>1
<1>3. /\ edits' = edits + 1 /\ pending' = sent /\ lastVersion' = edits'
      /\ navigation' \in {navigation, edits'} /\ unadopted' \in {unadopted, edits'}
      /\ server' = [server EXCEPT !.queue = sent] /\ inbox' = Append(inbox, server')
      /\ fetched' = fetched + more
      /\ UNCHANGED <<queue, active, generation, lineage, link, calls, peers, drops, relays>>
  BY <1>2 DEF Commit
<1>4. ClientTyped'
  BY <1>1, <1>3 DEF ClientTyped
<1>5. server' \in Frames
  BY <1>3 DEF NetTyped, Frames
<1>6. NetTyped'
  BY <1>3, <1>5 DEF NetTyped
<1>7. CountsTyped'
  BY <1>1, <1>3 DEF CountsTyped
<1> QED
  BY <1>4, <1>6, <1>7

\* Types of wire and counters through a lost connection.
LEMMA BreaksTyped ==
  ASSUME NetTyped, CountsTyped, Breaks, fetched' \in Nat, UNCHANGED relays
  PROVE  NetTyped' /\ CountsTyped'
<1>1. <<>> \in Seq(Frames)
  OBVIOUS
<1>2. NetTyped'
  BY <1>1 DEF NetTyped, Breaks
<1>3. CountsTyped'
  BY DEF CountsTyped, Breaks
<1> QED
  BY <1>2, <1>3

\* The types of the five groups of variables through a step that leaves them alone.
LEMMA SameClient == ASSUME ClientTyped, UNCHANGED clientVars PROVE ClientTyped'
  BY DEF ClientTyped, clientVars

\* See SameClient.
LEMMA SameNet == ASSUME NetTyped, UNCHANGED netVars PROVE NetTyped'
<1>1. UNCHANGED <<link, inbox, server>>
  BY DEF netVars
<1> QED
  BY <1>1 DEF NetTyped

\* See SameClient.
LEMMA SameCounts == ASSUME CountsTyped, UNCHANGED bounds PROVE CountsTyped'
  BY DEF CountsTyped, bounds

\* See SameClient.
LEMMA SameCalls ==
  ASSUME CallsTyped, Turns, UNCHANGED callVars PROVE CallsTyped' /\ Turns'
<1>1. UNCHANGED <<stream, stopped, lock, call, failure>>
  BY DEF callVars
<1>2. CallsTyped'
  BY <1>1 DEF CallsTyped, RequestTyped
<1>3. Turns'
  BY <1>1 DEF Turns, AtWork
<1> QED
  BY <1>2, <1>3

\* See SameClient.
LEMMA SameRadio == ASSUME RadioTyped, UNCHANGED radioVars PROVE RadioTyped'
  BY DEF RadioTyped, radioVars

\* A call that ends hands the lock to the next caller in line.
LEMMA DoneTyped ==
  ASSUME Shape, CallsTyped, Turns, NEW c \in Callers, lock # <<>>, Head(lock) = c,
         NEW outcome, NEW why \in SUBSET Excuses, Done(c, outcome, why)
  PROVE  CallsTyped' /\ Turns'
<1>1. /\ lock' = Tail(lock) /\ call' = [call EXCEPT ![c] = Nothing]
      /\ failure' = IF outcome = "failed" THEN call[c].excuse \union why ELSE None
      /\ stopped' \in BOOLEAN
      /\ stream' \in {stream, "off", "on"}
  BY DEF Done, CallsTyped
<1>2. call'[c] = Nothing /\ \A d \in Callers \ {c} : call'[d] = call[d]
  BY <1>1 DEF Shape
<1>3. RequestTyped(Nothing) /\ Nothing.pc = "idle"
  <2>1. <<>> \in Lists
    BY DEF Lists
  <2> QED
    BY <2>1 DEF RequestTyped, Nothing, Pcs
<1>4. CallsTyped'
  <2>1. \A d \in Callers : RequestTyped(call'[d])
    BY <1>2, <1>3 DEF CallsTyped
  <2>2. call[c].excuse \subseteq Excuses
    BY DEF CallsTyped, RequestTyped
  <2>3. failure' # None => failure' \subseteq Excuses
    BY <1>1, <2>2
  <2>4. \A d \in Callers : RequestTyped(call[d])'
    BY <2>1 DEF RequestTyped
  <2> QED
    BY <1>1, <2>3, <2>4 DEF CallsTyped
<1>5. Turns'
  <2>1. /\ lock \in Seq(Callers) /\ lock' \in Seq(Callers) /\ Len(lock') = Len(lock) - 1
        /\ Len(lock) \in Nat \ {0} /\ lock[1] = c
        /\ \A i \in 1 .. Len(lock') : lock'[i] = lock[i + 1]
    BY <1>1 DEF Turns
  <2>2. \A i, j \in 1 .. Len(lock') : lock'[i] = lock'[j] => i = j
    <3> SUFFICES ASSUME NEW i \in 1 .. Len(lock'), NEW j \in 1 .. Len(lock'), lock'[i] = lock'[j]
                 PROVE  i = j
      OBVIOUS
    <3>1. lock[i + 1] = lock[j + 1] /\ i + 1 \in 1 .. Len(lock) /\ j + 1 \in 1 .. Len(lock)
      BY <2>1
    <3>2. i + 1 = j + 1
      BY <3>1 DEF Turns
    <3> QED
      BY <3>2
  <2>3. ASSUME NEW d \in Callers PROVE AtWork(d)' <=> \E i \in 1 .. Len(lock') : lock'[i] = d
    <3>1. CASE d = c
      <4>1. ~AtWork(d)'
        BY <1>2, <1>3, <3>1 DEF AtWork
      <4>2. ASSUME NEW i \in 1 .. Len(lock'), lock'[i] = c PROVE FALSE
        <5>1. lock[i + 1] = lock[1] /\ i + 1 \in 1 .. Len(lock) /\ 1 \in 1 .. Len(lock)
          BY <2>1, <4>2
        <5>2. i + 1 = 1
          BY <5>1 DEF Turns
        <5> QED
          BY <5>2
      <4> QED
        BY <3>1, <4>1, <4>2
    <3>2. CASE d # c
      <4>1. AtWork(d)' <=> AtWork(d)
        BY <1>2, <3>2 DEF AtWork
      <4>2. ASSUME NEW i \in 1 .. Len(lock), lock[i] = d
            PROVE  \E j \in 1 .. Len(lock') : lock'[j] = d
        <5>1. i - 1 \in 1 .. Len(lock') /\ lock'[i - 1] = d
          BY <2>1, <3>2, <4>2
        <5> QED
          BY <5>1
      <4>3. ASSUME NEW j \in 1 .. Len(lock'), lock'[j] = d
            PROVE  \E i \in 1 .. Len(lock) : lock[i] = d
        <5>1. j + 1 \in 1 .. Len(lock) /\ lock[j + 1] = d
          BY <2>1, <4>3
        <5> QED
          BY <5>1
      <4> QED
        BY <4>1, <4>2, <4>3 DEF Turns
    <3> QED
      BY <3>1, <3>2
  <2> QED
    BY <2>1, <2>2, <2>3 DEF Turns
<1> QED
  BY <1>4, <1>5

\* A request goes on at another place.
LEMMA WorkingTyped ==
  ASSUME Shape, CallsTyped, Turns, NEW c \in Callers, AtWork(c), NEW r, RequestTyped(r),
         r.pc # "idle", call' = [call EXCEPT ![c] = r], Working(c)
  PROVE  CallsTyped' /\ Turns'
<1>1. /\ call'[c] = r /\ \A d \in Callers \ {c} : call'[d] = call[d]
      /\ UNCHANGED <<stream, stopped, lock, failure>>
  BY DEF Shape, Working
<1>2. CallsTyped'
  <2>1. \A d \in Callers : RequestTyped(call'[d])
    BY <1>1 DEF CallsTyped
  <2>2. \A d \in Callers : RequestTyped(call[d])'
    BY <2>1 DEF RequestTyped
  <2> QED
    BY <1>1, <2>2 DEF CallsTyped
<1>3. \A d \in Callers : AtWork(d)' <=> AtWork(d)
  BY <1>1 DEF AtWork
<1> QED
  BY <1>1, <1>2, <1>3 DEF Turns

\* A call that goes on to publish tracks keeps its place in the lock.
LEMMA ExpandTyped ==
  ASSUME Shape, CallsTyped, Turns, NEW c \in Callers, AtWork(c), NEW request,
         IsRequest(request), RequestTyped(request), NEW items \in Lists,
         Expand(c, request, items)
  PROVE  CallsTyped' /\ Turns'
<1>1. PICK r : r = [request EXCEPT
                      !.pc = IF Len(items) > request.index THEN "moving" ELSE "refetching",
                      !.items = items]
  OBVIOUS
<1>2. call' = [call EXCEPT ![c] = r] /\ Working(c)
  BY <1>1 DEF Expand
<1>3. /\ r.pc \in {"moving", "refetching"} /\ r.items = items
      /\ r.excuse = request.excuse /\ r.station = request.station /\ r.index = request.index
  BY <1>1 DEF IsRequest
<1>4. RequestTyped(r) /\ r.pc # "idle"
  BY <1>3 DEF RequestTyped, Pcs
<1> QED
  BY <1>2, <1>4, WorkingTyped

-----------------------------------------------------------------------------
\* The initial states have the types.
LEMMA InitTInv == Init => TInv
<1> SUFFICES ASSUME Init PROVE TInv
  OBVIOUS
<1>0. <<>> \in Lists /\ <<>> \in Seq(Int) /\ <<>> \in Seq(Frames) /\ <<>> \in Seq(Callers)
  BY DEF Lists
<1>1. PICK s \in Starts : queue = Started(s, 1)
  BY DEF Init
<1>2. s.size \in Nat /\ s.current \in Nat /\ s.radio \in BOOLEAN /\ s.shuffled \in BOOLEAN
  BY StartsAssumption
<1>3. queue \in Queues
  BY <1>1, <1>2, StartedTyped
<1>4. queue.items \in Lists /\ queue.station \in Nat
  BY <1>3 DEF Queues
<1>5. ClientTyped
  BY <1>3 DEF Init, ClientTyped
<1>6. NetTyped
  BY <1>0, <1>3 DEF Init, NetTyped, Frames
<1>7. CountsTyped
  BY DEF Init, CountsTyped
<1>8. \A c \in Callers : call[c] = Nothing
  BY DEF Init
<1>9. CallsTyped
  <2>1. RequestTyped(Nothing)
    BY <1>0 DEF RequestTyped, Nothing, Pcs
  <2> QED
    BY <1>8, <2>1 DEF Init, CallsTyped
<1>10. RadioTyped
  <2>1. CASE task = NoTask
    BY <1>0, <2>1 DEF Init, RadioTyped, NoTask
  <2>2. CASE task = Fetch(queue, generation, lineage)
    BY <1>4, <2>2 DEF Init, RadioTyped, Fetch
  <2> QED
    BY <2>1, <2>2 DEF Init
<1>11. Turns
  <2>1. lock = <<>> /\ Len(lock) = 0
    BY DEF Init
  <2>2. \A c \in Callers : ~AtWork(c)
    BY <1>8 DEF AtWork, Nothing
  <2> QED
    BY <1>0, <2>1, <2>2 DEF Turns
<1> QED
  BY <1>5, <1>6, <1>7, <1>9, <1>10, <1>11 DEF TInv

\* The types through the begin of a call, which joins the line for the lock.
LEMMA BeginTyped ==
  ASSUME CInv, TInv, NEW c \in Callers, NEW op \in Kinds, Begin(c, op) PROVE TInv'
<1>0. ClientTyped /\ NetTyped /\ CountsTyped /\ CallsTyped /\ RadioTyped /\ Turns /\ Shape
  BY DEF TInv, CInv
<1>1. PICK r : r = [Nothing EXCEPT !.pc = "queued", !.op = op,
                          !.baseline = IF op = "end" THEN Baseline ELSE None]
  OBVIOUS
<1>2. /\ call' = [call EXCEPT ![c] = r] /\ lock' = Append(lock, c) /\ ~AtWork(c)
      /\ stream' \in {stream, "ending"} /\ calls' = calls + 1
      /\ UNCHANGED <<clientVars, stopped, failure, radioVars, netVars, edits, fetched, peers,
                     drops, relays>>
  BY <1>1 DEF Begin
<1>3. RequestTyped(r) /\ r.pc = "queued"
  <2>1. <<>> \in Lists
    BY DEF Lists
  <2> QED
    BY <1>1, <2>1 DEF Nothing, RequestTyped, Pcs
<1>4. call'[c] = r /\ \A d \in Callers \ {c} : call'[d] = call[d]
  BY <1>0, <1>2 DEF Shape
<1>5. CallsTyped'
  <2>1. \A d \in Callers : RequestTyped(call'[d])
    BY <1>0, <1>3, <1>4 DEF CallsTyped
  <2>2. \A d \in Callers : RequestTyped(call[d])'
    BY <2>1 DEF RequestTyped
  <2> QED
    BY <1>0, <1>2, <2>2 DEF CallsTyped
<1>6. Turns'
  <2>1. /\ lock' \in Seq(Callers) /\ Len(lock') = Len(lock) + 1 /\ Len(lock) \in Nat
        /\ lock'[Len(lock) + 1] = c /\ \A i \in 1 .. Len(lock) : lock'[i] = lock[i]
    BY <1>0, <1>2 DEF Turns
  <2>2. \A i \in 1 .. Len(lock) : lock[i] # c
    BY <1>0, <1>2 DEF Turns
  <2>3. \A i, j \in 1 .. Len(lock') : lock'[i] = lock'[j] => i = j
    <3> SUFFICES ASSUME NEW i \in 1 .. Len(lock'), NEW j \in 1 .. Len(lock'), lock'[i] = lock'[j]
                 PROVE  i = j
      OBVIOUS
    <3>1. CASE i \in 1 .. Len(lock) /\ j \in 1 .. Len(lock)
      <4>1. lock[i] = lock[j]
        BY <2>1, <3>1
      <4> QED
        BY <1>0, <3>1, <4>1 DEF Turns
    <3>2. CASE i = Len(lock) + 1 \/ j = Len(lock) + 1
      BY <2>1, <2>2, <3>2
    <3> QED
      BY <2>1, <3>1, <3>2
  <2>4. ASSUME NEW d \in Callers PROVE AtWork(d)' <=> \E i \in 1 .. Len(lock') : lock'[i] = d
    <3>1. CASE d = c
      <4>1. AtWork(d)'
        BY <1>3, <1>4, <3>1 DEF AtWork
      <4>2. Len(lock) + 1 \in 1 .. Len(lock')
        BY <2>1
      <4> QED
        BY <2>1, <3>1, <4>1, <4>2
    <3>2. CASE d # c
      <4>1. AtWork(d)' <=> AtWork(d)
        BY <1>4, <3>2 DEF AtWork
      <4>2. (\E i \in 1 .. Len(lock') : lock'[i] = d) <=> \E i \in 1 .. Len(lock) : lock[i] = d
        BY <2>1, <3>2
      <4> QED
        BY <1>0, <4>1, <4>2 DEF Turns
    <3> QED
      BY <3>1, <3>2
  <2> QED
    BY <2>1, <2>3, <2>4 DEF Turns
<1>7. CountsTyped'
  BY <1>0, <1>2 DEF CountsTyped
<1> QED
  BY <1>0, <1>2, <1>5, <1>6, <1>7, SameClient, SameNet, SameRadio DEF TInv

-----------------------------------------------------------------------------
(* The steps of a caller                                                     *)

\* One that holds the lock is at work, and its request is typed.
LEMMA HolderTyped ==
  ASSUME CInv, TInv, NEW c \in Callers, NEW pcs, Holds(c, pcs), "idle" \notin pcs
  PROVE  /\ Shape /\ ClientTyped /\ NetTyped /\ CountsTyped /\ CallsTyped /\ RadioTyped /\ Turns
         /\ lock # <<>> /\ Head(lock) = c /\ AtWork(c)
         /\ IsRequest(call[c]) /\ RequestTyped(call[c])
  BY DEF CInv, Shape, TInv, CallsTyped, Holds, AtWork

\* The types through each step of a call.
LEMMA AcquireTyped == ASSUME CInv, TInv, NEW c \in Callers, Acquire(c) PROVE TInv'
<1>0. /\ Shape /\ ClientTyped /\ NetTyped /\ CountsTyped /\ CallsTyped /\ RadioTyped /\ Turns
      /\ lock # <<>> /\ Head(lock) = c /\ AtWork(c)
      /\ IsRequest(call[c]) /\ RequestTyped(call[c])
  BY HolderTyped DEF Acquire
<1>1. UNCHANGED <<clientVars, radioVars, netVars, bounds>>
  BY DEF Acquire
<1>2. CallsTyped' /\ Turns'
  <2>1. CASE \E outcome : \E why \in SUBSET Excuses : Done(c, outcome, why)
    BY <1>0, <2>1, DoneTyped
  <2>2. CASE /\ Working(c)
             /\ call' = [call EXCEPT ![c].pc = "checking",
                           ![c].baseline = IF @ = None THEN Baseline ELSE @]
    <3>1. PICK r : r = [call[c] EXCEPT !.pc = "checking",
                          !.baseline = IF @ = None THEN Baseline ELSE @]
      OBVIOUS
    <3>2. /\ r.pc = "checking" /\ r.items = call[c].items /\ r.excuse = call[c].excuse
          /\ r.station = call[c].station /\ r.index = call[c].index
      BY <1>0, <3>1 DEF IsRequest
    <3>3. call' = [call EXCEPT ![c] = r]
      BY <1>0, <2>2, <3>1 DEF Shape
    <3>4. RequestTyped(r)
      BY <1>0, <3>2 DEF RequestTyped, Pcs
    <3> QED
      BY <1>0, <2>2, <3>2, <3>3, <3>4, WorkingTyped
  <2>3. ASSUME NEW i \in Int, Working(c),
               call' = [call EXCEPT ![c].pc = "moving", ![c].generation = generation,
                                    ![c].lineage = lineage, ![c].index = i]
        PROVE  CallsTyped' /\ Turns'
    <3>1. PICK r : r = [call[c] EXCEPT !.pc = "moving", !.generation = generation,
                                       !.lineage = lineage, !.index = i]
      OBVIOUS
    <3>2. /\ r.pc = "moving" /\ r.items = call[c].items /\ r.excuse = call[c].excuse
          /\ r.station = call[c].station /\ r.index = i
      BY <1>0, <3>1 DEF IsRequest
    <3>3. call' = [call EXCEPT ![c] = r]
      BY <1>0, <2>3, <3>1 DEF Shape
    <3>4. RequestTyped(r)
      BY <1>0, <3>2 DEF RequestTyped, Pcs
    <3> QED
      BY <1>0, <2>3, <3>2, <3>3, <3>4, WorkingTyped
  <2>4. ASSUME PreviousIndex(Snapshot) # {}
        PROVE  (CHOOSE i \in PreviousIndex(Snapshot) : TRUE) \in Int
    <3>1. (CHOOSE i \in PreviousIndex(Snapshot) : TRUE) \in PreviousIndex(Snapshot)
      BY <2>4
    <3>2. Snapshot \in Queues
      BY <1>0, BaseTyped
    <3> QED
      BY <3>1, <3>2, RelativeTyped DEF PreviousIndex
  <2>5. {"lost"} \in SUBSET Excuses /\ {} \in SUBSET Excuses
    BY DEF Excuses
  <2> QED
    BY <2>1, <2>2, <2>3, <2>4, <2>5 DEF Acquire
<1> QED
  BY <1>0, <1>1, <1>2, SameClient, SameNet, SameCounts, SameRadio DEF TInv

\* See AcquireTyped.
LEMMA GiveUpTyped == ASSUME CInv, TInv, NEW c \in Callers, GiveUp(c) PROVE TInv'
<1>0. /\ Shape /\ ClientTyped /\ NetTyped /\ CountsTyped /\ CallsTyped /\ RadioTyped /\ Turns
      /\ lock # <<>> /\ Head(lock) = c
  BY HolderTyped DEF GiveUp
<1>1. UNCHANGED <<clientVars, task, netVars, bounds>> /\ prefetched' \in {None, prefetched}
  BY DEF GiveUp
<1>2. {IF stopped THEN "stopped" ELSE "lost"} \in SUBSET Excuses
  BY DEF Excuses
<1>3. CallsTyped' /\ Turns'
  BY <1>0, <1>2, DoneTyped DEF GiveUp
<1>4. RadioTyped'
  BY <1>0, <1>1 DEF RadioTyped
<1> QED
  BY <1>0, <1>1, <1>3, <1>4, SameClient, SameNet, SameCounts DEF TInv

\* See AcquireTyped.
LEMMA CheckTyped == ASSUME CInv, TInv, NEW c \in Callers, Check(c) PROVE TInv'
<1>0. /\ Shape /\ ClientTyped /\ NetTyped /\ CountsTyped /\ CallsTyped /\ RadioTyped /\ Turns
      /\ lock # <<>> /\ Head(lock) = c /\ AtWork(c)
      /\ IsRequest(call[c]) /\ RequestTyped(call[c])
  BY HolderTyped DEF Check, Connected
<1>1. UNCHANGED <<clientVars, radioVars>>
  BY DEF Check
<1>2. CallsTyped' /\ Turns'
  <2>1. CASE call[c].baseline # Baseline
    <3>1. {} \in SUBSET Excuses
      OBVIOUS
    <3> QED
      BY <1>0, <2>1, <3>1, DoneTyped DEF Check
  <2>2. CASE call[c].baseline = Baseline
    <3>1. PICK r : r = [call[c] EXCEPT !.pc = "advancing"]
      OBVIOUS
    <3>2. /\ r.pc = "advancing" /\ r.items = call[c].items /\ r.excuse = call[c].excuse
          /\ r.station = call[c].station /\ r.index = call[c].index
      BY <1>0, <3>1 DEF IsRequest
    <3>3. call' = [call EXCEPT ![c] = r] /\ Working(c)
      BY <1>0, <2>2, <3>1 DEF Check, Shape
    <3>4. RequestTyped(r)
      BY <1>0, <3>2 DEF RequestTyped, Pcs
    <3> QED
      BY <1>0, <3>2, <3>3, <3>4, WorkingTyped
  <2> QED
    BY <2>1, <2>2
<1>3. NetTyped' /\ CountsTyped'
  <2>1. CASE UNCHANGED <<netVars, bounds>>
    BY <1>0, <2>1, SameNet, SameCounts
  <2>2. CASE /\ relays' = relays + 1 /\ inbox' = Append(inbox, server)
             /\ UNCHANGED <<link, server, edits, calls, fetched, peers, drops>>
    <3>1. inbox' \in Seq(Frames)
      BY <1>0, <2>2 DEF NetTyped
    <3> QED
      BY <1>0, <2>2, <3>1 DEF NetTyped, CountsTyped
  <2>3. CASE Breaks /\ UNCHANGED <<fetched, relays>>
    <3>1. fetched' \in Nat
      BY <1>0, <2>3 DEF CountsTyped
    <3> QED
      BY <1>0, <2>3, <3>1, BreaksTyped
  <2> QED
    BY <2>1, <2>2, <2>3 DEF Check
<1> QED
  BY <1>0, <1>1, <1>2, <1>3, SameClient, SameRadio DEF TInv

\* What is fetched or taken for a RADIO queue is a list of its station.
LEMMA ReplenishTyped ==
  ASSUME Shape, ClientTyped, CallsTyped, RadioTyped, Turns, NEW c \in Callers, AtWork(c),
         Replenish(c), task' = task
  PROVE  CallsTyped' /\ Turns' /\ RadioTyped'
<1>1. IsRequest(call[c]) /\ RequestTyped(call[c])
  BY DEF Shape, CallsTyped
<1>2. PICK request :
        request = [call[c] EXCEPT !.generation = generation, !.lineage = lineage,
                       !.station = Snapshot.station, !.items = Snapshot.items,
                       !.index = Size(Snapshot)]
  OBVIOUS
<1>3. /\ IsRequest(request) /\ request.pc = call[c].pc /\ request.excuse = call[c].excuse
      /\ request.station = Snapshot.station /\ request.items = Snapshot.items
      /\ request.index = Size(Snapshot)
  BY <1>1, <1>2 DEF IsRequest
<1>4. Snapshot.station \in Nat /\ Snapshot.items \in Lists /\ Size(Snapshot) \in Int
  BY BaseTyped
<1>5. RequestTyped(request)
  BY <1>1, <1>3, <1>4 DEF RequestTyped
<1>6. RadioTyped'
  BY DEF RadioTyped, Replenish
<1>7. CallsTyped' /\ Turns'
  <2>1. CASE OfThisGeneration(prefetched)
    <3>1. prefetched.items \in Lists
      BY <2>1 DEF OfThisGeneration, RadioTyped
    <3>2. Expand(c, request, prefetched.items)
      BY <1>2, <2>1 DEF Replenish
    <3> QED
      BY <1>3, <1>5, <3>1, <3>2, ExpandTyped
  <2>2. CASE ~OfThisGeneration(prefetched)
    <3>1. PICK pc \in {"awaiting", "fetching"}, more \in SUBSET Excuses :
            /\ call' = [call EXCEPT ![c] = [request EXCEPT !.pc = pc,
                                                          !.excuse = @ \union more]]
            /\ Working(c)
      <4>1. {"behind"} \in SUBSET Excuses /\ {} \in SUBSET Excuses
        BY DEF Excuses
      <4> QED
        BY <1>2, <2>2, <4>1 DEF Replenish
    <3>2. PICK r : r = [request EXCEPT !.pc = pc, !.excuse = @ \union more]
      OBVIOUS
    <3>3. /\ r.pc = pc /\ r.items = request.items /\ r.excuse = request.excuse \union more
          /\ r.station = request.station /\ r.index = request.index
      BY <1>3, <3>2 DEF IsRequest
    <3>4. RequestTyped(r) /\ r.pc # "idle"
      BY <1>5, <3>3 DEF RequestTyped, Pcs
    <3>5. call' = [call EXCEPT ![c] = r] /\ Working(c)
      BY <3>1, <3>2
    <3> QED
      BY <3>4, <3>5, WorkingTyped
  <2> QED
    BY <2>1, <2>2
<1> QED
  BY <1>6, <1>7

\* See AcquireTyped.
LEMMA AdvanceTyped == ASSUME CInv, TInv, NEW c \in Callers, Advance(c) PROVE TInv'
<1>0. /\ Shape /\ ClientTyped /\ NetTyped /\ CountsTyped /\ CallsTyped /\ RadioTyped /\ Turns
      /\ lock # <<>> /\ Head(lock) = c /\ AtWork(c)
  BY HolderTyped DEF Advance, Connected
<1>1. UNCHANGED task
  BY DEF Advance
<1>2. CASE Replenish(c)
  <2>1. UNCHANGED <<clientVars, netVars, bounds>>
    BY <1>2 DEF Replenish
  <2> QED
    BY <1>0, <1>1, <1>2, <2>1, ReplenishTyped, SameClient, SameNet, SameCounts DEF TInv
<1>3. CASE ~Replenish(c)
  <2> DEFINE outcome == Outcome(Snapshot, call[c].op = "end")
             planned == Navigate(Base, call[c].op = "end", None)
  <2>1. /\ prefetched' = None
        /\ \/ Done(c, "superseded", {}) /\ UNCHANGED <<clientVars, netVars, bounds>>
           \/ Commit(planned, outcome = "change", 0) /\ Done(c, outcome, {})
    BY <1>3 DEF Advance, Base
  <2>2. planned.queue \in Queues
    BY <1>0, BaseTyped, NavigateTyped
  <2>3. (outcome = "change") \in BOOLEAN /\ 0 \in Nat /\ {} \in SUBSET Excuses
    OBVIOUS
  <2> HIDE DEF outcome, planned
  <2>4. CallsTyped' /\ Turns'
    BY <1>0, <2>1, <2>3, DoneTyped
  <2>5. ClientTyped' /\ NetTyped' /\ CountsTyped'
    BY <1>0, <2>1, <2>2, <2>3, CommitTyped, SameClient, SameNet, SameCounts
  <2>6. RadioTyped'
    BY <1>0, <1>1, <2>1 DEF RadioTyped
  <2> QED
    BY <2>4, <2>5, <2>6 DEF TInv
<1> QED
  BY <1>2, <1>3

\* See AcquireTyped.
LEMMA AdvanceFailsTyped == ASSUME CInv, TInv, NEW c \in Callers, AdvanceFails(c) PROVE TInv'
<1>0. /\ Shape /\ ClientTyped /\ NetTyped /\ CountsTyped /\ CallsTyped /\ RadioTyped /\ Turns
      /\ lock # <<>> /\ Head(lock) = c /\ AtWork(c)
      /\ IsRequest(call[c]) /\ RequestTyped(call[c]) /\ call[c].pc = "advancing"
  BY HolderTyped DEF AdvanceFails, Connected, Holds
<1>1. /\ Breaks /\ UNCHANGED <<clientVars, task, fetched, relays>>
      /\ prefetched' \in {None, prefetched}
  BY DEF AdvanceFails
<1>2. CallsTyped' /\ Turns'
  <2>1. CASE Done(c, "failed", {"lost"})
    <3>1. {"lost"} \in SUBSET Excuses
      BY DEF Excuses
    <3> QED
      BY <1>0, <2>1, <3>1, DoneTyped
  <2>2. CASE call' = [call EXCEPT ![c].retried = TRUE] /\ Working(c)
    <3>1. PICK r : r = [call[c] EXCEPT !.retried = TRUE]
      OBVIOUS
    <3>2. /\ r.pc = "advancing" /\ r.items = call[c].items /\ r.excuse = call[c].excuse
          /\ r.station = call[c].station /\ r.index = call[c].index
      BY <1>0, <3>1 DEF IsRequest
    <3>3. call' = [call EXCEPT ![c] = r]
      BY <1>0, <2>2, <3>1 DEF Shape
    <3>4. RequestTyped(r)
      BY <1>0, <3>2 DEF RequestTyped, Pcs
    <3> QED
      BY <1>0, <2>2, <3>2, <3>3, <3>4, WorkingTyped
  <2> QED
    BY <2>1, <2>2 DEF AdvanceFails
<1>3. fetched' \in Nat
  BY <1>0, <1>1 DEF CountsTyped
<1>4. NetTyped' /\ CountsTyped'
  BY <1>0, <1>1, <1>3, BreaksTyped
<1>5. RadioTyped'
  BY <1>0, <1>1 DEF RadioTyped
<1> QED
  BY <1>0, <1>1, <1>2, <1>4, <1>5, SameClient DEF TInv

\* See AcquireTyped.
LEMMA AwaitedTyped == ASSUME CInv, TInv, NEW c \in Callers, Awaited(c) PROVE TInv'
<1>0. /\ Shape /\ ClientTyped /\ NetTyped /\ CountsTyped /\ CallsTyped /\ RadioTyped /\ Turns
      /\ lock # <<>> /\ Head(lock) = c /\ AtWork(c)
      /\ IsRequest(call[c]) /\ RequestTyped(call[c])
  BY HolderTyped DEF Awaited
<1>1. UNCHANGED <<clientVars, task, netVars, bounds>> /\ prefetched' = None
  BY DEF Awaited
<1>2. CallsTyped' /\ Turns'
  <2>1. CASE \E outcome : Done(c, outcome, {})
    <3>1. {} \in SUBSET Excuses
      OBVIOUS
    <3> QED
      BY <1>0, <2>1, <3>1, DoneTyped
  <2>2. CASE prefetched # None /\ Expand(c, call[c], prefetched.items)
    <3>1. prefetched.items \in Lists
      BY <1>0, <2>2 DEF RadioTyped
    <3> QED
      BY <1>0, <2>2, <3>1, ExpandTyped
  <2> QED
    BY <2>1, <2>2 DEF Awaited
<1>3. RadioTyped'
  BY <1>0, <1>1 DEF RadioTyped
<1> QED
  BY <1>0, <1>1, <1>2, <1>3, SameClient, SameNet, SameCounts DEF TInv

\* See AcquireTyped.
LEMMA FetchedTyped == ASSUME CInv, TInv, NEW c \in Callers, Fetched(c) PROVE TInv'
<1>0. /\ Shape /\ ClientTyped /\ NetTyped /\ CountsTyped /\ CallsTyped /\ RadioTyped /\ Turns
      /\ lock # <<>> /\ Head(lock) = c /\ AtWork(c)
      /\ IsRequest(call[c]) /\ RequestTyped(call[c])
  BY HolderTyped DEF Fetched
<1>1. UNCHANGED <<clientVars, radioVars, netVars, edits, calls, peers, drops, relays>>
  BY DEF Fetched
<1>2. PICK items \in Batches(call[c].station, call[c].items) :
        /\ fetched' = fetched + Len(items) - Len(call[c].items)
        /\ \/ \E outcome, why : Done(c, outcome, why) /\ why \in {{"replaced"}, TooShort(call[c])}
           \/ Expand(c, call[c], items)
  BY DEF Fetched
<1>3. call[c].station \in Nat /\ call[c].items \in Lists
  BY <1>0 DEF RequestTyped
<1>4. items \in Lists /\ Len(items) - Len(call[c].items) \in Nat
  BY <1>0, <1>3, BatchTyped
<1>5. CallsTyped' /\ Turns'
  <2>1. TooShort(call[c]) \in SUBSET Excuses /\ {"replaced"} \in SUBSET Excuses
    BY DEF Excuses, TooShort
  <2>2. CASE \E outcome : \E why \in SUBSET Excuses : Done(c, outcome, why)
    BY <1>0, <2>2, DoneTyped
  <2>3. CASE Expand(c, call[c], items)
    BY <1>0, <1>4, <2>3, ExpandTyped
  <2> QED
    BY <1>2, <2>1, <2>2, <2>3
<1>6. CountsTyped'
  <2>1. PICK n \in Nat : n = Len(items) - Len(call[c].items)
    BY <1>4
  <2>2. Len(items) \in Nat /\ Len(call[c].items) \in Nat
    BY <1>3, <1>4 DEF Lists
  <2>3. fetched \in Nat /\ fetched' = fetched + n
    BY <1>0, <1>2, <2>1, <2>2 DEF CountsTyped
  <2> QED
    BY <1>0, <1>1, <2>3 DEF CountsTyped
<1> QED
  BY <1>0, <1>1, <1>5, <1>6, SameClient, SameNet, SameRadio DEF TInv

\* Steps that end a request and leave the rest alone.
LEMMA EndsTyped ==
  ASSUME CInv, TInv, NEW c \in Callers, Cancelled(c) \/ FetchedNothing(c) PROVE TInv'
<1>0. /\ Shape /\ ClientTyped /\ NetTyped /\ CountsTyped /\ CallsTyped /\ RadioTyped /\ Turns
      /\ lock # <<>> /\ Head(lock) = c
  BY HolderTyped DEF Cancelled, FetchedNothing
<1>1. UNCHANGED <<clientVars, radioVars, netVars, bounds>>
  BY DEF Cancelled, FetchedNothing
<1>2. {} \in SUBSET Excuses /\ {"api"} \in SUBSET Excuses
  BY DEF Excuses
<1>3. CallsTyped' /\ Turns'
  BY <1>0, <1>2, DoneTyped DEF Cancelled, FetchedNothing
<1> QED
  BY <1>0, <1>1, <1>3, SameClient, SameNet, SameCounts, SameRadio DEF TInv

\* See AcquireTyped.
LEMMA MoveTyped == ASSUME CInv, TInv, NEW c \in Callers, Move(c) PROVE TInv'
<1>0. /\ Shape /\ ClientTyped /\ NetTyped /\ CountsTyped /\ CallsTyped /\ RadioTyped /\ Turns
      /\ lock # <<>> /\ Head(lock) = c /\ RequestTyped(call[c])
  BY HolderTyped DEF Move, Connected
<1>1. UNCHANGED radioVars
  BY DEF Move
<1>2. {} \in SUBSET Excuses /\ {"replaced"} \in SUBSET Excuses /\ 0 \in Nat /\ TRUE \in BOOLEAN
  BY DEF Excuses
<1>3. CallsTyped' /\ Turns'
  BY <1>0, <1>2, DoneTyped DEF Move
<1>4. Moved(c).queue \in Queues
  BY <1>0, MovedTyped
<1>5. Commit(Moved(c), TRUE, 0) \/ UNCHANGED <<clientVars, netVars, bounds>>
  BY DEF Move
<1>6. ClientTyped' /\ NetTyped' /\ CountsTyped'
  BY <1>0, <1>2, <1>4, <1>5, CommitTyped, SameClient, SameNet, SameCounts
<1> QED
  BY <1>0, <1>1, <1>3, <1>6, SameRadio DEF TInv

\* See AcquireTyped.
LEMMA MoveFailsTyped == ASSUME CInv, TInv, NEW c \in Callers, MoveFails(c) PROVE TInv'
<1>0. /\ Shape /\ ClientTyped /\ NetTyped /\ CountsTyped /\ CallsTyped /\ RadioTyped /\ Turns
      /\ lock # <<>> /\ Head(lock) = c
  BY HolderTyped DEF MoveFails, Connected
<1>1. Breaks /\ UNCHANGED <<clientVars, radioVars, fetched, relays>>
  BY DEF MoveFails
<1>2. {"lost"} \in SUBSET Excuses
  BY DEF Excuses
<1>3. CallsTyped' /\ Turns'
  BY <1>0, <1>2, DoneTyped DEF MoveFails
<1>4. fetched' \in Nat
  BY <1>0, <1>1 DEF CountsTyped
<1>5. NetTyped' /\ CountsTyped'
  BY <1>0, <1>1, <1>4, BreaksTyped
<1> QED
  BY <1>0, <1>1, <1>3, <1>5, SameClient, SameRadio DEF TInv

-----------------------------------------------------------------------------
(* The prefetch, the frames and the environment                              *)

\* What a prefetch returns is a list, and adds to what was handed out.
LEMMA ArrivingTyped ==
  ASSUME TInv, NEW items \in Batches(task.station, task.items)
  PROVE  /\ items \in Lists /\ Len(items) - Len(task.items) \in Nat
         /\ Len(items) \in Nat /\ Len(task.items) \in Nat
<1>1. task.station \in Nat /\ task.items \in Lists
  BY DEF TInv, RadioTyped
<1>2. items \in Lists /\ Len(items) - Len(task.items) \in Nat
  BY <1>1, BatchTyped DEF TInv
<1> QED
  BY <1>1, <1>2 DEF Lists

\* The types through the steps of the prefetch task.
LEMMA PrefetchTyped == ASSUME CInv, TInv, Prefetch PROVE TInv'
<1>0. ClientTyped /\ NetTyped /\ CountsTyped /\ CallsTyped /\ RadioTyped /\ Turns /\ Shape
  BY DEF TInv, CInv
<1>1. NoTask.pc = "idle" /\ NoTask.items \in Lists /\ NoTask.station \in Nat
  <2>1. <<>> \in Lists
    BY DEF Lists
  <2> QED
    BY <2>1 DEF NoTask
<1>2. task' = NoTask
  BY DEF Prefetch, PrefetchArrives, PrefetchDropped, PrefetchFails
<1>3. ASSUME NEW items \in Lists, prefetched' = prefetched \/ Keep(items) PROVE RadioTyped'
  BY <1>0, <1>1, <1>2, <1>3 DEF RadioTyped, Keep
<1>4. CASE PrefetchArrives
  <2>1. PICK items \in Batches(task.station, task.items) :
          /\ prefetched' = prefetched \/ Keep(items)
          /\ \/ Commit(ReplaceItems(Base, items), FALSE, Len(items) - Len(task.items))
             \/ /\ fetched' = fetched + (Len(items) - Len(task.items))
                /\ UNCHANGED <<clientVars, netVars, edits, calls, peers, drops, relays>>
    BY <1>4 DEF PrefetchArrives
  <2>2. items \in Lists /\ Len(items) - Len(task.items) \in Nat
    BY ArrivingTyped
  <2>3. RadioTyped'
    BY <1>3, <2>1, <2>2
  <2>4. CallsTyped' /\ Turns'
    BY <1>0, <1>4, SameCalls DEF PrefetchArrives
  <2>5. ReplaceItems(Base, items).queue \in Queues
    BY <1>0, <2>2, BaseTyped, ReplaceTyped
  <2>6. PICK n \in Nat : n = Len(items) - Len(task.items)
    BY <2>2
  <2>7. FALSE \in BOOLEAN
    OBVIOUS
  <2>8. CASE Commit(ReplaceItems(Base, items), FALSE, n)
    BY <1>0, <2>3, <2>4, <2>5, <2>7, <2>8, CommitTyped DEF TInv
  <2>9. CASE /\ fetched' = fetched + n
             /\ UNCHANGED <<clientVars, netVars, edits, calls, peers, drops, relays>>
    <3>1. CountsTyped'
      BY <1>0, <2>9 DEF CountsTyped
    <3> QED
      BY <1>0, <2>3, <2>4, <2>9, <3>1, SameClient, SameNet DEF TInv
  <2> QED
    BY <2>1, <2>6, <2>8, <2>9
<1>5. CASE PrefetchDropped
  <2>1. PICK items \in Batches(task.station, task.items) :
          Keep(items) /\ fetched' = fetched + Len(items) - Len(task.items)
    BY <1>5 DEF PrefetchDropped
  <2>2. /\ items \in Lists /\ Len(items) - Len(task.items) \in Nat
        /\ Len(items) \in Nat /\ Len(task.items) \in Nat
    BY ArrivingTyped
  <2>3. RadioTyped'
    BY <1>3, <2>1, <2>2
  <2>4. fetched' \in Nat
    BY <1>0, <2>1, <2>2 DEF CountsTyped
  <2>5. Breaks /\ UNCHANGED <<clientVars, callVars, relays>>
    BY <1>5 DEF PrefetchDropped
  <2>6. NetTyped' /\ CountsTyped'
    BY <1>0, <2>4, <2>5, BreaksTyped
  <2> QED
    BY <1>0, <2>3, <2>5, <2>6, SameClient, SameCalls DEF TInv
<1>6. CASE PrefetchFails
  <2>1. /\ UNCHANGED <<clientVars, stream, stopped, lock, failure, prefetched, netVars, bounds>>
        /\ \A c \in Callers :
             call'[c] \in {[call[c] EXCEPT !.excuse = @ \union {"api"}], call[c]}
    BY <1>6 DEF PrefetchFails
  <2>2. ASSUME NEW c \in Callers PROVE RequestTyped(call'[c]) /\ call'[c].pc = call[c].pc
    <3>1. PICK r : r = [call[c] EXCEPT !.excuse = @ \union {"api"}]
      OBVIOUS
    <3>2. IsRequest(call[c]) /\ RequestTyped(call[c])
      BY <1>0 DEF Shape, CallsTyped
    <3>3. /\ r.pc = call[c].pc /\ r.items = call[c].items
          /\ r.excuse = call[c].excuse \union {"api"}
          /\ r.station = call[c].station /\ r.index = call[c].index
      BY <3>1, <3>2 DEF IsRequest
    <3>4. RequestTyped(r)
      BY <3>2, <3>3 DEF RequestTyped, Excuses
    <3> QED
      BY <2>1, <3>1, <3>2, <3>3, <3>4
  <2>3. CallsTyped'
    <3>1. \A c \in Callers : RequestTyped(call[c])'
      BY <2>2 DEF RequestTyped
    <3> QED
      BY <1>0, <2>1, <3>1 DEF CallsTyped
  <2>4. Turns'
    <3>1. \A c \in Callers : AtWork(c)' <=> AtWork(c)
      BY <2>2 DEF AtWork
    <3> QED
      BY <1>0, <2>1, <3>1 DEF Turns
  <2>5. RadioTyped'
    BY <1>0, <1>1, <1>2, <2>1 DEF RadioTyped
  <2> QED
    BY <1>0, <2>1, <2>3, <2>4, <2>5, SameClient, SameNet, SameCounts DEF TInv
<1> QED
  BY <1>4, <1>5, <1>6 DEF Prefetch

\* A frame leaves the client with a queue of the types.
LEMMA ParseTyped == ASSUME ClientTyped, NEW f \in Frames, Parse(f) PROVE ClientTyped'
<1>1. f.queue \in Queues /\ f.active \in BOOLEAN
  BY DEF Frames
<1> QED
  BY <1>1 DEF Parse, ClientTyped

\* The types through a frame.
LEMMA HandleFrameTyped == ASSUME CInv, TInv, HandleFrame PROVE TInv'
<1>0. ClientTyped /\ NetTyped /\ CountsTyped /\ CallsTyped /\ RadioTyped /\ Turns /\ Shape
  BY DEF TInv, CInv
<1>1. inbox # <<>> /\ inbox' = Tail(inbox) /\ UNCHANGED <<lock, failure, link, server, bounds>>
  BY DEF HandleFrame
<1>2. Head(inbox) \in Frames /\ inbox' \in Seq(Frames)
  BY <1>0, <1>1 DEF NetTyped
<1>3. ClientTyped'
  BY <1>0, <1>2, ParseTyped DEF HandleFrame
<1>4. NetTyped'
  BY <1>0, <1>1, <1>2 DEF NetTyped
<1>5. RadioTyped'
  <2>1. <<>> \in Lists
    BY DEF Lists
  <2>2. NoTask.pc = "idle" /\ NoTask.items \in Lists /\ NoTask.station \in Nat
    BY <2>1 DEF NoTask
  <2>3. queue' \in Queues
    BY <1>3 DEF ClientTyped
  <2>4. PICK next : next = Fetch(queue', generation', lineage')
    OBVIOUS
  <2>5. next.pc = "fetching" /\ next.items \in Lists /\ next.station \in Nat
    BY <2>3, <2>4 DEF Fetch, Queues
  <2>6. prefetched' \in {prefetched, None} /\ task' \in {task, NoTask, next}
    BY <2>4 DEF HandleFrame, MaybePrefetch, radioVars
  <2> QED
    BY <1>0, <2>2, <2>5, <2>6 DEF RadioTyped
<1>6. stream' \in {"on", "ending", "off"} /\ stopped' \in BOOLEAN
  BY <1>0 DEF HandleFrame, CallsTyped
<1>7. ASSUME NEW c \in Callers
      PROVE  RequestTyped(call'[c]) /\ (call'[c].pc = "idle" <=> call[c].pc = "idle")
  <2>1. PICK r : r = [call[c] EXCEPT !.pc = "cancelled"]
    OBVIOUS
  <2>2. IsRequest(call[c]) /\ RequestTyped(call[c])
    BY <1>0 DEF Shape, CallsTyped
  <2>3. /\ r.pc = "cancelled" /\ r.items = call[c].items /\ r.excuse = call[c].excuse
        /\ r.station = call[c].station /\ r.index = call[c].index
    BY <2>1, <2>2 DEF IsRequest
  <2>4. RequestTyped(r)
    BY <2>2, <2>3 DEF RequestTyped, Pcs
  <2>5. call'[c] = call[c] \/ (call[c].pc = "awaiting" /\ call'[c] = r)
    BY <2>1 DEF HandleFrame, Cleared
  <2> QED
    BY <2>2, <2>3, <2>4, <2>5
<1>8. CallsTyped'
  <2>1. \A c \in Callers : RequestTyped(call[c])'
    BY <1>7 DEF RequestTyped
  <2> QED
    BY <1>0, <1>1, <1>6, <2>1 DEF CallsTyped
<1>9. Turns'
  <2>1. \A c \in Callers : AtWork(c)' <=> AtWork(c)
    BY <1>7 DEF AtWork
  <2> QED
    BY <1>0, <1>1, <2>1 DEF Turns
<1> QED
  BY <1>0, <1>1, <1>3, <1>4, <1>5, <1>8, <1>9, SameCounts DEF TInv

\* What others do.
LEMMA EnvironmentTyped == ASSUME TInv, Environment PROVE TInv'
<1>0. ClientTyped /\ NetTyped /\ CountsTyped /\ CallsTyped /\ RadioTyped /\ Turns
  BY DEF TInv
<1>1. UNCHANGED <<callVars, radioVars>>
  BY DEF Environment, Loses, Reconnects, Settles, PeerPlays, PeerSwitches, PeerAct, Relay
<1>2. CallsTyped' /\ Turns' /\ RadioTyped'
  BY <1>0, <1>1, SameCalls, SameRadio
<1>3. CASE Loses
  <2>1. fetched' \in Nat
    BY <1>0, <1>3 DEF Loses, CountsTyped
  <2>2. NetTyped' /\ CountsTyped' /\ ClientTyped'
    BY <1>0, <1>3, <2>1, BreaksTyped, SameClient DEF Loses
  <2> QED
    BY <1>2, <2>2 DEF TInv
<1>4. CASE Reconnects
  <2>1. <<server>> \in Seq(Frames)
    BY <1>0 DEF NetTyped
  <2>2. NetTyped'
    BY <1>0, <1>4, <2>1 DEF Reconnects, NetTyped
  <2>3. ClientTyped'
    BY <1>0, <1>4 DEF Reconnects, ClientTyped
  <2>4. CountsTyped'
    BY <1>0, <1>4, SameCounts DEF Reconnects
  <2> QED
    BY <1>2, <2>2, <2>3, <2>4 DEF TInv
<1>5. CASE Settles
  <2>1. NetTyped'
    BY <1>0, <1>5 DEF Settles, NetTyped
  <2>2. ClientTyped' /\ CountsTyped'
    BY <1>0, <1>5, SameClient, SameCounts DEF Settles
  <2> QED
    BY <1>2, <2>1, <2>2 DEF TInv
<1>6. CASE PeerPlays \/ PeerSwitches
  <2>1. server' \in Frames
    <3>1. CASE PeerPlays
      <4>1. PICK s \in Starts : server' = [server EXCEPT !.queue = Started(s, peers + 2)]
        BY <3>1 DEF PeerPlays
      <4>2. peers + 2 \in Nat
        BY <1>0 DEF CountsTyped
      <4>3. Started(s, peers + 2) \in Queues
        BY <4>2, StartedTyped
      <4> QED
        BY <1>0, <4>1, <4>3 DEF NetTyped, Frames
    <3>2. CASE PeerSwitches
      BY <1>0, <3>2 DEF PeerSwitches, NetTyped, Frames
    <3> QED
      BY <1>6, <3>1, <3>2
  <2>2. PeerAct
    BY <1>6 DEF PeerPlays, PeerSwitches
  <2>3. inbox' \in Seq(Frames)
    BY <1>0, <2>1, <2>2 DEF PeerAct, NetTyped
  <2>4. NetTyped'
    BY <1>0, <2>1, <2>2, <2>3 DEF PeerAct, NetTyped
  <2>5. CountsTyped'
    BY <1>0, <2>2 DEF PeerAct, CountsTyped
  <2>6. ClientTyped'
    BY <1>0, <2>2, SameClient DEF PeerAct
  <2> QED
    BY <1>2, <2>4, <2>5, <2>6 DEF TInv
<1>7. CASE Relay
  <2>1. inbox' \in Seq(Frames)
    BY <1>0, <1>7 DEF Relay, NetTyped
  <2>2. NetTyped'
    BY <1>0, <1>7, <2>1 DEF Relay, NetTyped
  <2>3. CountsTyped'
    BY <1>0, <1>7 DEF Relay, CountsTyped
  <2>4. ClientTyped'
    BY <1>0, <1>7, SameClient DEF Relay
  <2> QED
    BY <1>2, <2>2, <2>3, <2>4 DEF TInv
<1> QED
  BY <1>3, <1>4, <1>5, <1>6, <1>7 DEF Environment

\* The types through every step.
LEMMA NextTInv == CInv /\ TInv /\ [Next]_vars => TInv'
<1> SUFFICES ASSUME CInv, TInv, [Next]_vars PROVE TInv'
  OBVIOUS
<1>1. ASSUME NEW c \in Callers, Step(c) PROVE TInv'
  BY <1>1, AcquireTyped, GiveUpTyped, CheckTyped, AdvanceTyped, AdvanceFailsTyped, AwaitedTyped,
     FetchedTyped, EndsTyped, MoveTyped, MoveFailsTyped DEF Step
<1>2. ASSUME NEW c \in Callers, NEW op \in Kinds, Begin(c, op) PROVE TInv'
  BY <1>2, BeginTyped
<1>3. CASE Prefetch
  BY <1>3, PrefetchTyped
<1>4. CASE HandleFrame
  BY <1>4, HandleFrameTyped
<1>5. CASE Environment
  BY <1>5, EnvironmentTyped
<1>6. CASE UNCHANGED vars
  <2>1. UNCHANGED <<clientVars, callVars, radioVars, netVars, bounds>>
    BY <1>6 DEF vars
  <2>2. ClientTyped /\ NetTyped /\ CountsTyped /\ CallsTyped /\ RadioTyped /\ Turns
    BY DEF TInv
  <2> QED
    BY <2>1, <2>2, SameClient, SameNet, SameCounts, SameCalls, SameRadio DEF TInv
<1> QED
  BY <1>1, <1>2, <1>3, <1>4, <1>5, <1>6 DEF Next

\* One place in the queue for the lock is a set of one index.
LEMMA OneTurn ==
  ASSUME Turns, NEW c \in Callers
  PROVE  Cardinality({i \in DOMAIN lock : lock[i] = c}) = IF AtWork(c) THEN 1 ELSE 0
<1>1. DOMAIN lock = 1 .. Len(lock)
  BY DEF Turns
<1>2. CASE AtWork(c)
  <2>1. PICK i \in 1 .. Len(lock) : lock[i] = c
    BY <1>2 DEF Turns
  <2>2. {k \in DOMAIN lock : lock[k] = c} = {i}
    BY <1>1, <2>1 DEF Turns
  <2>3. Cardinality({i}) = 1
    BY FS_Singleton
  <2> QED
    BY <1>2, <2>2, <2>3
<1>3. CASE ~AtWork(c)
  <2>1. {k \in DOMAIN lock : lock[k] = c} = {}
    BY <1>1, <1>3 DEF Turns
  <2>2. Cardinality({}) = 0
    BY FS_EmptySet
  <2> QED
    BY <1>3, <2>1, <2>2
<1> QED
  BY <1>2, <1>3

\* Queues, frames, requests and the prefetch keep their types, and the lock is held or
\* awaited by exactly the coroutines that are leaving a track (_queue_navigation_lock).
THEOREM TypeCorrect == Spec => []TypeOK
<1>1. TInv => TypeOK
  <2> SUFFICES ASSUME TInv PROVE TypeOK
    OBVIOUS
  <2>1. ClientTyped /\ NetTyped /\ CountsTyped /\ CallsTyped /\ RadioTyped /\ Turns
    BY DEF TInv
  <2>2. \A c \in Callers : Cardinality({i \in DOMAIN lock : lock[i] = c})
                             = IF AtWork(c) THEN 1 ELSE 0
    BY <2>1, OneTurn
  <2>3. {lastVersion, navigation, unadopted, generation, lineage, edits, calls, fetched, peers,
         drops, relays} \subseteq Nat
    BY <2>1 DEF ClientTyped, CountsTyped
  <2>4. /\ queue \in Queues /\ pending \in Queues \union {None} /\ active \in BOOLEAN
        /\ stopped \in BOOLEAN /\ stream \in {"on", "ending", "off"}
        /\ (failure # None => failure \subseteq Excuses)
    BY <2>1 DEF ClientTyped, CallsTyped
  <2>5. /\ server \in [queue : Queues, active : BOOLEAN]
        /\ inbox \in Seq([queue : Queues, active : BOOLEAN])
        /\ link \in {"down", "settling", "up"}
    BY <2>1 DEF NetTyped, Frames
  <2>6. \A c \in Callers :
          /\ call[c].pc \in {"idle", "queued", "checking", "advancing", "awaiting", "cancelled",
                             "fetching", "refetching", "moving"}
          /\ call[c].items \in Lists /\ call[c].excuse \subseteq Excuses
    BY <2>1 DEF CallsTyped, RequestTyped, Pcs
  <2>7. /\ (prefetched # None => prefetched.items \in Lists)
        /\ task.pc \in {"idle", "fetching"} /\ task.items \in Lists
    BY <2>1 DEF RadioTyped
  <2>8. lock \in Seq(Callers)
    BY <2>1 DEF Turns
  <2> QED
    BY <2>2, <2>3, <2>4, <2>5, <2>6, <2>7, <2>8 DEF TypeOK
<1> QED
  BY <1>1, InitCInv, NextCInv, InitTInv, NextTInv, PTL DEF Spec

-----------------------------------------------------------------------------
(* Reasons.  A coroutine that waits for a prefetch of its own generation     *)
(* finds a list, or knows why there is none.                                 *)

\* Only the holder of the lock has got further than the queue for it.
Leading == \A c \in Callers :
    call[c].pc \notin {"idle", "queued"} => lock # <<>> /\ Head(lock) = c

\* A list was left by a prefetch of its generation, and a prefetch was started while the
\* device was active: a handover begins another generation.
Kept == prefetched # None =>
    /\ prefetched.generation \in Nat /\ prefetched.generation <= generation
    /\ prefetched.generation = generation => active
Live == Running /\ task.generation = generation => active

Waits(r) == r.pc = "awaiting" /\ r.generation = generation

\* The answer to a coroutine that waits: a reason, the prefetch, or the list it left.
Expected(r) ==
    \/ r.excuse # {}
    \/ Running /\ task.generation = generation
    \/ ~Running /\ prefetched # None /\ prefetched.generation = generation

Expecting == \A c \in Callers : Waits(call[c]) => Expected(call[c])

WInv == Leading /\ Kept /\ Live /\ Expecting

\* The initial states satisfy WInv.
LEMMA InitWInv == Init => WInv
<1> SUFFICES ASSUME Init PROVE WInv
  OBVIOUS
<1>1. \A c \in Callers : call[c].pc = "idle"
  BY DEF Init, Nothing
<1>2. prefetched = None /\ active = TRUE
  BY DEF Init
<1> QED
  BY <1>1, <1>2 DEF WInv, Leading, Kept, Live, Expecting, Waits

\* A step of the holder: nobody else is past the queue for the lock.
LEMMA HolderLeads ==
  ASSUME CInv, TInv, WInv, NEW c \in Callers, Step(c)
  PROVE  /\ lock # <<>> /\ Head(lock) = c
         /\ UNCHANGED <<active, generation, task>> /\ prefetched' \in {None, prefetched}
         /\ \A d \in Callers \ {c} : call'[d] = call[d] /\ call[d].pc \in {"idle", "queued"}
         /\ lock' = lock \/ call'[c] = Nothing
<1>1. lock # <<>> /\ Head(lock) = c
  BY DEF Step, Acquire, GiveUp, Check, Advance, AdvanceFails, Awaited, Cancelled, Fetched,
         FetchedNothing, Move, MoveFails, Connected, Holds
<1>2. UNCHANGED <<active, generation, task>> /\ prefetched' \in {None, prefetched}
  BY DEF Step, Acquire, GiveUp, Check, Advance, AdvanceFails, Awaited, Cancelled, Fetched,
         FetchedNothing, Move, MoveFails, Replenish, Commit, clientVars, radioVars
<1>3. \/ \E r : call' = [call EXCEPT ![c] = r] /\ lock' = lock
      \/ call' = [call EXCEPT ![c] = Nothing]
  <2>1. CASE \E outcome, why : Done(c, outcome, why)
    BY <2>1 DEF Done
  <2>2. CASE Working(c) /\ \E r : call' = [call EXCEPT ![c] = r]
    BY <2>2 DEF Working
  <2>3. ASSUME NEW request, NEW items, Expand(c, request, items)
        PROVE  Working(c) /\ \E r : call' = [call EXCEPT ![c] = r]
    BY <2>3 DEF Expand
  <2>4. CASE Acquire(c) \/ Check(c) \/ AdvanceFails(c)
    BY <2>1, <2>2, <2>4 DEF Acquire, Check, AdvanceFails
  <2>5. CASE Advance(c) \/ Awaited(c) \/ Fetched(c)
    BY <2>1, <2>2, <2>3, <2>5 DEF Advance, Replenish, Awaited, Fetched
  <2>6. CASE GiveUp(c) \/ Cancelled(c) \/ FetchedNothing(c) \/ Move(c) \/ MoveFails(c)
    BY <2>1, <2>6 DEF GiveUp, Cancelled, FetchedNothing, Move, MoveFails
  <2> QED
    BY <2>4, <2>5, <2>6 DEF Step
<1>4. \A d \in Callers \ {c} : call'[d] = call[d]
  BY <1>3 DEF CInv, Shape
<1>5. \A d \in Callers \ {c} : call[d].pc \in {"idle", "queued"}
  BY <1>1 DEF WInv, Leading
<1>6. lock' = lock \/ call'[c] = Nothing
  BY <1>3 DEF CInv, Shape
<1> QED
  BY <1>1, <1>2, <1>4, <1>5, <1>6

\* Only a coroutine at the end of a RADIO queue starts to wait for a prefetch: the one that
\* is running, and it takes down when that one was started for an older queue.
LEMMA StartsToWait ==
  ASSUME CInv, TInv, WInv, NEW c \in Callers, Step(c), Waits(call'[c])
  PROVE  Running /\ (task.generation = generation \/ call'[c].excuse # {})
<1>1. CASE Replenish(c)
  <2>1. PICK request :
          request = [call[c] EXCEPT !.generation = generation, !.lineage = lineage,
                       !.station = Snapshot.station, !.items = Snapshot.items,
                       !.index = Size(Snapshot)]
    OBVIOUS
  <2>2. IsRequest(call[c]) /\ IsRequest(request)
    BY <2>1 DEF IsRequest, CInv, Shape
  <2>3. CASE OfThisGeneration(prefetched)
    <3>1. PICK pc \in {"moving", "refetching"} :
            call' = [call EXCEPT ![c] = [request EXCEPT !.pc = pc, !.items = prefetched.items]]
      BY <1>1, <2>1, <2>3 DEF Replenish, Expand
    <3>2. call'[c] = [request EXCEPT !.pc = pc, !.items = prefetched.items]
      BY <3>1 DEF CInv, Shape
    <3>3. call'[c].pc = pc
      BY <2>2, <3>2 DEF IsRequest
    <3> QED
      BY <3>1, <3>3 DEF Waits
  <2>4. CASE ~OfThisGeneration(prefetched)
    <3>1. PICK pc, more :
            /\ call' = [call EXCEPT ![c] = [request EXCEPT !.pc = pc,
                                                          !.excuse = @ \union more]]
            /\ pc = IF Running THEN "awaiting" ELSE "fetching"
            /\ Running /\ task.generation # generation => more = {"behind"}
      BY <1>1, <2>1, <2>4 DEF Replenish
    <3>2. call'[c] = [request EXCEPT !.pc = pc, !.excuse = @ \union more]
      BY <3>1 DEF CInv, Shape
    <3>3. call'[c].pc = pc /\ call'[c].excuse = request.excuse \union more
      BY <2>2, <3>2 DEF IsRequest
    <3> QED
      BY <3>1, <3>3 DEF Waits
  <2> QED
    BY <2>3, <2>4
<1>2. CASE ~Replenish(c)
  <2>1. IsRequest(call[c])
    BY DEF CInv, Shape
  <2>2. ASSUME NEW outcome, NEW why, Done(c, outcome, why) PROVE call'[c].pc # "awaiting"
    BY <2>2 DEF Done, Nothing, CInv, Shape
  <2>3. ASSUME NEW items, Expand(c, call[c], items) PROVE call'[c].pc # "awaiting"
    <3>1. PICK pc \in {"moving", "refetching"} :
            call' = [call EXCEPT ![c] = [call[c] EXCEPT !.pc = pc, !.items = items]]
      BY <2>3 DEF Expand
    <3>2. call'[c] = [call[c] EXCEPT !.pc = pc, !.items = items]
      BY <3>1 DEF CInv, Shape
    <3> QED
      BY <2>1, <3>2 DEF IsRequest
  <2>4. CASE Acquire(c)
    <3>1. ASSUME NEW b, call' = [call EXCEPT ![c].pc = "checking", ![c].baseline = b]
          PROVE  call'[c].pc = "checking"
      <4>1. call'[c] = [call[c] EXCEPT !.pc = "checking", !.baseline = b]
        BY <3>1 DEF CInv, Shape
      <4> QED
        BY <2>1, <4>1 DEF IsRequest
    <3>2. ASSUME NEW i, call' = [call EXCEPT ![c].pc = "moving", ![c].generation = generation,
                                             ![c].lineage = lineage, ![c].index = i]
          PROVE  call'[c].pc = "moving"
      <4>1. call'[c] = [call[c] EXCEPT !.pc = "moving", !.generation = generation,
                                       !.lineage = lineage, !.index = i]
        BY <3>2 DEF CInv, Shape
      <4> QED
        BY <2>1, <4>1 DEF IsRequest
    <3>3. CASE call[c].op # "previous"
      <4>1. \E b : call' = [call EXCEPT ![c].pc = "checking", ![c].baseline = b]
        <5>1. call' = [call EXCEPT ![c].pc = "checking",
                         ![c].baseline = IF call[c].baseline = None THEN Baseline
                                         ELSE call[c].baseline]
          BY <2>4, <3>3 DEF Acquire, CInv, Shape
        <5> QED
          BY <5>1
      <4> QED
        BY <3>1, <4>1 DEF Waits
    <3>4. CASE call[c].op = "previous"
      BY <2>2, <2>4, <3>2, <3>4 DEF Acquire, Waits
    <3> QED
      BY <3>3, <3>4
  <2>5. CASE Check(c)
    <3>1. ASSUME call' = [call EXCEPT ![c].pc = "advancing"] PROVE call'[c].pc = "advancing"
      <4>1. call'[c] = [call[c] EXCEPT !.pc = "advancing"]
        BY <3>1 DEF CInv, Shape
      <4> QED
        BY <2>1, <4>1 DEF IsRequest
    <3> QED
      BY <2>2, <2>5, <3>1 DEF Check, Waits
  <2>6. CASE AdvanceFails(c)
    <3>1. ASSUME call' = [call EXCEPT ![c].retried = TRUE] PROVE call'[c].pc = call[c].pc
      <4>1. call'[c] = [call[c] EXCEPT !.retried = TRUE]
        BY <3>1 DEF CInv, Shape
      <4> QED
        BY <2>1, <4>1 DEF IsRequest
    <3>2. call[c].pc = "advancing"
      BY <2>6 DEF AdvanceFails, Connected, Holds
    <3> QED
      BY <2>2, <2>6, <3>1, <3>2 DEF AdvanceFails, Waits
  <2>7. CASE Advance(c) \/ Awaited(c) \/ Fetched(c)
    BY <1>2, <2>2, <2>3, <2>7 DEF Advance, Awaited, Fetched, Waits
  <2>8. CASE GiveUp(c) \/ Cancelled(c) \/ FetchedNothing(c) \/ Move(c) \/ MoveFails(c)
    BY <2>2, <2>8 DEF GiveUp, Cancelled, FetchedNothing, Move, MoveFails, Waits
  <2> QED
    BY <2>4, <2>5, <2>6, <2>7, <2>8 DEF Step
<1> QED
  BY <1>1, <1>2

\* WInv through each step of a call.
LEMMA StepWInv == ASSUME CInv, TInv, WInv, NEW c \in Callers, Step(c) PROVE WInv'
<1>1. /\ lock # <<>> /\ Head(lock) = c
      /\ UNCHANGED <<active, generation, task>> /\ prefetched' \in {None, prefetched}
      /\ \A d \in Callers \ {c} : call'[d] = call[d] /\ call[d].pc \in {"idle", "queued"}
      /\ lock' = lock \/ call'[c] = Nothing
  BY HolderLeads
<1>2. Leading'
  <2>1. \A d \in Callers : call'[d].pc \notin {"idle", "queued"} => lock' # <<>> /\ Head(lock') = d
    BY <1>1 DEF Nothing
  <2> QED
    BY <2>1 DEF Leading
<1>3. Kept' /\ Live' /\ Running' = Running
  BY <1>1 DEF WInv, Kept, Live, Running
<1>4. ASSUME NEW d \in Callers, Waits(call'[d]) PROVE Expected(call[d])'
  <2>1. d = c
    BY <1>1, <1>4 DEF Waits
  <2>2. Running /\ (task.generation = generation \/ call'[c].excuse # {})
    BY <1>4, <2>1, StartsToWait
  <2> QED
    BY <1>1, <1>3, <2>1, <2>2 DEF Expected
<1>5. Expecting'
  BY <1>1, <1>4 DEF Expecting, Waits
<1> QED
  BY <1>2, <1>3, <1>5 DEF WInv

\* Steps of others that leave the prefetch, its list and who is where alone.
LEMMA ApartWInv ==
  ASSUME WInv, UNCHANGED <<active, generation, prefetched, task, call>>,
         lock # <<>> => lock' # <<>> /\ Head(lock') = Head(lock)
  PROVE  WInv'
<1>1. Leading'
  BY DEF WInv, Leading
<1>2. Kept' /\ Live' /\ Expecting'
  BY DEF WInv, Kept, Live, Running, Expecting, Waits, Expected
<1> QED
  BY <1>1, <1>2 DEF WInv

\* WInv through the begin of a call.
LEMMA BeginWInv ==
  ASSUME CInv, TInv, WInv, NEW c \in Callers, NEW op \in Kinds, Begin(c, op) PROVE WInv'
<1>1. PICK r : r = [Nothing EXCEPT !.pc = "queued", !.op = op,
                          !.baseline = IF op = "end" THEN Baseline ELSE None]
  OBVIOUS
<1>2. r.pc = "queued"
  BY <1>1 DEF Nothing
<1>3. /\ call' = [call EXCEPT ![c] = r] /\ lock' = Append(lock, c)
      /\ UNCHANGED <<active, generation, prefetched, task>>
  BY <1>1 DEF Begin, clientVars, radioVars
<1>4. call'[c] = r /\ \A d \in Callers \ {c} : call'[d] = call[d]
  BY <1>3 DEF CInv, Shape
<1>5. lock # <<>> => lock' # <<>> /\ Head(lock') = Head(lock)
  BY <1>3 DEF TInv, Turns
<1>6. Leading'
  BY <1>2, <1>4, <1>5 DEF WInv, Leading
<1>7. Kept' /\ Live' /\ Expecting'
  BY <1>2, <1>3, <1>4 DEF WInv, Kept, Live, Running, Expecting, Waits, Expected
<1> QED
  BY <1>6, <1>7 DEF WInv

\* WInv through the steps of the prefetch task.
LEMMA PrefetchWInv == ASSUME CInv, TInv, WInv, Prefetch PROVE WInv'
<1>1. Running /\ task' = NoTask /\ ~Running' /\ UNCHANGED <<active, generation, lock>>
  BY DEF Prefetch, PrefetchArrives, PrefetchDropped, PrefetchFails, Running, NoTask, Commit,
         clientVars, callVars
<1>2. Live'
  BY <1>1 DEF Live
<1>3. generation \in Nat
  BY DEF CInv
<1>4. CASE PrefetchFails
  <2>1. /\ prefetched' = prefetched
        /\ \A c \in Callers :
             call'[c] = IF call[c].pc = "awaiting"
                        THEN [call[c] EXCEPT !.excuse = @ \union {"api"}] ELSE call[c]
    BY <1>4 DEF PrefetchFails
  <2>2. ASSUME NEW c \in Callers
        PROVE  call'[c].pc = call[c].pc /\ (call[c].pc = "awaiting" => call'[c].excuse # {})
    <3>1. IsRequest(call[c])
      BY DEF CInv, Shape
    <3> QED
      BY <2>1, <3>1 DEF IsRequest
  <2>3. Leading' /\ Kept'
    BY <1>1, <2>1, <2>2 DEF WInv, Leading, Kept
  <2>4. Expecting'
    BY <2>2 DEF Expecting, Waits, Expected
  <2> QED
    BY <1>2, <2>3, <2>4 DEF WInv
<1>5. CASE PrefetchArrives \/ PrefetchDropped
  <2>1. /\ UNCHANGED call
        /\ \/ task.generation = generation /\ \E items \in Lists : Keep(items)
           \/ task.generation # generation /\ prefetched' = prefetched
    <3>1. \A items \in Batches(task.station, task.items) : items \in Lists
      BY ArrivingTyped
    <3> QED
      BY <1>5, <3>1 DEF PrefetchArrives, PrefetchDropped, callVars
  <2>2. Leading'
    BY <1>1, <2>1 DEF WInv, Leading
  <2>3. CASE task.generation = generation /\ \E items \in Lists : Keep(items)
    <3>1. prefetched'.generation = generation /\ prefetched' # None
      BY <1>3, <2>3, HistoryAssumption DEF Keep
    <3>2. active
      BY <1>1, <2>3 DEF WInv, Live
    <3>3. Kept'
      BY <1>1, <1>3, <3>1, <3>2 DEF Kept
    <3>4. Expecting'
      BY <1>1, <3>1 DEF Expecting, Expected
    <3> QED
      BY <1>2, <2>2, <3>3, <3>4 DEF WInv
  <2>4. CASE task.generation # generation /\ prefetched' = prefetched
    <3>1. Kept'
      BY <1>1, <2>4 DEF WInv, Kept
    <3>2. Expecting'
      BY <1>1, <2>1, <2>4 DEF WInv, Expecting, Waits, Expected
    <3> QED
      BY <1>2, <2>2, <3>1, <3>2 DEF WInv
  <2> QED
    BY <2>1, <2>3, <2>4
<1> QED
  BY <1>4, <1>5 DEF Prefetch

\* A frame that changes the active device begins a new generation.
LEMMA ParseHands ==
  ASSUME CInv, NEW f, Parse(f)
  PROVE  /\ generation \in Nat /\ generation' \in Nat /\ generation <= generation'
         /\ generation' = generation => active' = active
  BY DEF CInv, Parse

\* WInv through a frame, which may cancel the prefetch.
LEMMA HandleFrameWInv == ASSUME CInv, TInv, WInv, HandleFrame PROVE WInv'
<1>1. PICK f : Parse(f)
  BY DEF HandleFrame
<1>2. /\ generation \in Nat /\ generation' \in Nat /\ generation <= generation'
      /\ generation' = generation => active' = active
  BY <1>1, ParseHands
<1>3. ASSUME NEW c \in Callers, call[c].pc = "awaiting", call[c].generation = generation'
      PROVE  generation' = generation /\ Expected(call[c])
  <2>1. call[c].generation \in Nat /\ call[c].generation <= generation
    BY <1>3 DEF CInv, Replenishing, Recorded
  <2>2. generation' = generation
    BY <1>2, <1>3, <2>1
  <2> QED
    BY <1>3, <2>2 DEF WInv, Expecting, Waits
<1>4. prefetched # None /\ prefetched.generation = generation'
        => generation' = generation /\ active
  <2> SUFFICES ASSUME prefetched # None, prefetched.generation = generation'
               PROVE  generation' = generation /\ active
    OBVIOUS
  <2>1. generation' = generation
    BY <1>2 DEF WInv, Kept
  <2> QED
    BY <2>1 DEF WInv, Kept
<1>5. Running /\ task.generation = generation' => generation' = generation /\ active
  <2> SUFFICES ASSUME Running, task.generation = generation'
               PROVE  generation' = generation /\ active
    OBVIOUS
  <2>1. generation' = generation
    BY <1>2 DEF CInv, Recorded
  <2> QED
    BY <2>1 DEF WInv, Live
<1>6. prefetched # None => prefetched.generation \in Nat /\ prefetched.generation <= generation'
  BY <1>2 DEF WInv, Kept
<1>7. UNCHANGED lock
  BY DEF HandleFrame
<1>8. CASE UNCHANGED <<radioVars, call>>
  <2>1. UNCHANGED <<prefetched, task, call>>
    BY <1>8 DEF radioVars
  <2>2. Leading'
    BY <1>7, <2>1 DEF WInv, Leading
  <2>3. Kept' /\ Live'
    BY <1>2, <1>4, <1>5, <1>6, <2>1 DEF Kept, Live, Running
  <2>4. Expecting'
    BY <1>3, <2>1 DEF Expecting, Waits, Expected, Running
  <2> QED
    BY <2>2, <2>3, <2>4 DEF WInv
<1>9. CASE active' /\ MaybePrefetch(queue', generation', lineage') /\ UNCHANGED call
  <2>1. CASE UNCHANGED radioVars
    BY <1>8, <1>9, <2>1
  <2>2. CASE /\ prefetched' = IF prefetched # None /\ prefetched.generation = generation'
                              THEN prefetched ELSE None
             /\ prefetched' # None \/ Running => task' = task
    <3>1. Leading'
      BY <1>7, <1>9 DEF WInv, Leading
    <3>2. Kept' /\ Live'
      BY <1>6, <1>9, <2>2 DEF Kept, Live
    <3>3. Expecting'
      BY <1>3, <1>9, <2>2 DEF Expecting, Waits, Expected, Running
    <3> QED
      BY <3>1, <3>2, <3>3 DEF WInv
  <2> QED
    BY <1>9, <2>1, <2>2 DEF MaybePrefetch
<1>10. CASE ~active' /\ prefetched' = None /\ task' = NoTask /\ call' = Cleared
  <2>1. ASSUME NEW c \in Callers
        PROVE  \/ call'[c] = call[c] /\ ~(call[c].pc = "awaiting" /\ Running)
               \/ call'[c].pc = "cancelled" /\ call[c].pc = "awaiting"
    <3>1. IsRequest(call[c])
      BY DEF CInv, Shape
    <3>2. call'[c] = IF call[c].pc = "awaiting" /\ Running
                     THEN [call[c] EXCEPT !.pc = "cancelled"] ELSE call[c]
      BY <1>10 DEF Cleared
    <3> QED
      BY <3>1, <3>2 DEF IsRequest
  <2>2. Leading'
    BY <1>7, <2>1 DEF WInv, Leading
  <2>3. Kept' /\ Live'
    BY <1>10 DEF Kept, Live, Running, NoTask
  <2>4. ASSUME NEW c \in Callers, call'[c].pc = "awaiting", call'[c].generation = generation'
        PROVE  call'[c].excuse # {}
    <3>1. call'[c] = call[c] /\ ~Running
      BY <2>1, <2>4
    <3>2. generation' = generation /\ Expected(call[c])
      BY <1>3, <2>4, <3>1
    <3>3. ~(prefetched # None /\ prefetched.generation = generation)
      BY <1>2, <1>4, <1>10, <3>2
    <3> QED
      BY <3>1, <3>2, <3>3 DEF Expected
  <2>5. Expecting'
    BY <2>4 DEF Expecting, Waits, Expected
  <2> QED
    BY <2>2, <2>3, <2>5 DEF WInv
<1> QED
  BY <1>8, <1>9, <1>10 DEF HandleFrame

\* WInv through what happens outside.
LEMMA EnvironmentWInv == ASSUME CInv, TInv, WInv, Environment PROVE WInv'
<1>1. CASE Reconnects
  <2>1. /\ generation' = generation + 1 /\ generation \in Nat
        /\ UNCHANGED <<active, lock, call, prefetched, task>>
    BY <1>1 DEF Reconnects, callVars, radioVars, CInv
  <2>2. Leading'
    BY <2>1 DEF WInv, Leading
  <2>3. Kept'
    BY <2>1 DEF WInv, Kept
  <2>4. Live'
    BY <2>1 DEF CInv, Recorded, Live, Running
  <2>5. Expecting'
    BY <2>1 DEF CInv, Replenishing, Recorded, Expecting, Waits
  <2> QED
    BY <2>2, <2>3, <2>4, <2>5 DEF WInv
<1>2. CASE Loses \/ Settles \/ PeerPlays \/ PeerSwitches \/ Relay
  <2>1. UNCHANGED <<active, generation, prefetched, task, call, lock>>
    BY <1>2 DEF Loses, Settles, PeerPlays, PeerSwitches, PeerAct, Relay, clientVars, callVars,
                radioVars
  <2> QED
    BY <2>1, ApartWInv
<1> QED
  BY <1>1, <1>2 DEF Environment

\* WInv through every step.
LEMMA NextWInv == CInv /\ TInv /\ WInv /\ [Next]_vars => WInv'
<1> SUFFICES ASSUME CInv, TInv, WInv, [Next]_vars PROVE WInv'
  OBVIOUS
<1>1. CASE UNCHANGED vars
  BY <1>1, ApartWInv DEF vars, clientVars, callVars, radioVars
<1>2. CASE Next
  BY <1>2, StepWInv, BeginWInv, PrefetchWInv, HandleFrameWInv, EnvironmentWInv DEF Next
<1> QED
  BY <1>1, <1>2

-----------------------------------------------------------------------------
\* A fetch makes its base longer: only a list shorter than the one that ended is too short
\* again.
LEMMA LongEnough ==
  ASSUME TInv, NEW c \in Callers, NEW items \in Batches(call[c].station, call[c].items),
         Len(items) <= call[c].index
  PROVE  TooShort(call[c]) # {}
<1>1. call[c].station \in Nat /\ call[c].items \in Lists /\ call[c].index \in Int
  BY DEF TInv, CallsTyped, RequestTyped
<1>2. items \in Lists /\ Len(items) > Len(call[c].items)
  BY <1>1, BatchTyped DEF TInv
<1>3. Len(items) \in Nat /\ Len(call[c].items) \in Nat
  BY <1>1, <1>2 DEF Lists
<1>4. Len(call[c].items) < call[c].index
  BY <1>1, <1>2, <1>3
<1> QED
  BY <1>4 DEF TooShort

\* No step of a caller fails without a reason.
LEMMA EndsForAReason ==
  ASSUME CInv, TInv, WInv, NEW c \in Callers, Step(c), FailsForAReason
  PROVE  FailsForAReason'
<1> SUFFICES ASSUME failure' = {} PROVE FALSE
  BY DEF FailsForAReason
<1>1. failure # {} /\ None # {}
  BY HistoryAssumption DEF FailsForAReason
<1>2. ASSUME NEW outcome, NEW why, Done(c, outcome, why)
      PROVE  outcome = "failed" /\ why = {} /\ call[c].excuse = {}
  BY <1>1, <1>2 DEF Done
<1>3. ~Working(c) /\ ~\E request, items : Expand(c, request, items)
  BY <1>1 DEF Working, Expand
<1>4. ~Acquire(c) /\ ~GiveUp(c) /\ ~Check(c) /\ ~AdvanceFails(c)
  BY <1>2, <1>3 DEF Acquire, GiveUp, Check, AdvanceFails
<1>5. ~Cancelled(c) /\ ~FetchedNothing(c) /\ ~Move(c) /\ ~MoveFails(c)
  <2>1. ~Cancelled(c) /\ ~MoveFails(c)
    BY <1>2 DEF Cancelled, MoveFails
  <2>2. ~Move(c)
    <3>1. Move(c) => Done(c, "failed", {"replaced"}) \/ Done(c, "change", {})
      BY DEF Move
    <3> QED
      BY <1>2, <3>1
  <2>3. ~FetchedNothing(c)
    <3>1. FetchedNothing(c) => \E outcome : Done(c, outcome, {"api"})
      BY DEF FetchedNothing
    <3> QED
      BY <1>2, <3>1
  <2> QED
    BY <2>1, <2>2, <2>3
<1>6. ~Advance(c)
  <2>1. ~Replenish(c)
    BY <1>3 DEF Replenish
  <2>2. \A q, natural : Outcome(q, natural) # "failed"
    BY DEF Outcome
  <2> QED
    BY <1>2, <2>1, <2>2 DEF Advance
<1>7. ~Awaited(c)
  <2> SUFFICES ASSUME Awaited(c) PROVE FALSE
    OBVIOUS
  <2>1. /\ ~Running /\ prefetched = None /\ Waits(call[c])
        /\ Done(c, "failed", {})
    BY <1>2, <1>3 DEF Awaited, Waits, Holds
  <2>2. Expected(call[c])
    BY <2>1 DEF WInv, Expecting
  <2> QED
    BY <1>2, <2>1, <2>2 DEF Expected
<1>8. ~Fetched(c)
  <2> SUFFICES ASSUME Fetched(c) PROVE FALSE
    OBVIOUS
  <2>1. PICK items \in Batches(call[c].station, call[c].items) :
          IF generation # call[c].generation
          THEN Done(c, IF call[c].pc = "fetching" THEN "superseded" ELSE "failed", {"replaced"})
          ELSE IF call[c].pc = "refetching" /\ Len(items) <= call[c].index
          THEN Done(c, "failed", TooShort(call[c]))
          ELSE Expand(c, call[c], items)
    BY DEF Fetched
  <2>2. Len(items) <= call[c].index /\ Done(c, "failed", TooShort(call[c]))
    BY <1>2, <1>3, <2>1
  <2> QED
    BY <1>2, <2>2, LongEnough
<1> QED
  BY <1>4, <1>5, <1>6, <1>7, <1>8 DEF Step

\* A track that cannot be left has a reason: a prefetch that is awaited leaves a list or the
\* reason why there is none, and a list of the right base is long enough (_complete_track).
THEOREM ReasonsForFailure == Spec => []FailsForAReason
<1>1. Init => FailsForAReason
  BY HistoryAssumption DEF Init, FailsForAReason
<1>2. CInv /\ TInv /\ WInv /\ FailsForAReason /\ [Next]_vars => FailsForAReason'
  <2> SUFFICES ASSUME CInv, TInv, WInv, FailsForAReason, [Next]_vars PROVE FailsForAReason'
    OBVIOUS
  <2>1. CASE UNCHANGED failure
    BY <2>1 DEF FailsForAReason
  <2>2. CASE \E c \in Callers : Step(c)
    BY <2>2, EndsForAReason
  <2>3. UNCHANGED failure \/ \E c \in Callers : Step(c)
    BY DEF Next, Begin, Prefetch, PrefetchArrives, PrefetchDropped, PrefetchFails,
       HandleFrame, Environment, Loses, Reconnects, Settles, PeerPlays, PeerSwitches, PeerAct,
       Relay, callVars, vars
  <2> QED
    BY <2>1, <2>2, <2>3
<1> QED
  BY <1>1, <1>2, InitCInv, NextCInv, InitTInv, NextTInv, InitWInv, NextWInv, PTL DEF Spec

-----------------------------------------------------------------------------
(* The seam.  What a caller moves into is longer than the list that ended.   *)

\* A request has no list before the end of a RADIO queue, and moves only into a longer one.
Ahead(r) ==
    /\ r.pc \in {"idle", "queued", "checking", "advancing"} => r.items = <<>>
    /\ r.pc \in {"awaiting", "cancelled", "fetching", "refetching"} => r.index \in Nat
    /\ r.pc = "moving" /\ r.items # <<>> => r.index \in Nat /\ Len(r.items) > r.index

SInv == \A c \in Callers : Ahead(call[c])

\* A list that is taken is moved into only when it is longer.
LEMMA ExpandAhead ==
  ASSUME Shape, NEW c \in Callers, NEW request, IsRequest(request), request.index \in Nat,
         NEW items \in Lists, Expand(c, request, items)
  PROVE  Ahead(call'[c])
<1>1. PICK r : r = [request EXCEPT
                      !.pc = IF Len(items) > request.index THEN "moving" ELSE "refetching",
                      !.items = items]
  OBVIOUS
<1>2. call'[c] = r
  BY <1>1 DEF Expand, Shape
<1>3. /\ r.pc = IF Len(items) > request.index THEN "moving" ELSE "refetching"
      /\ r.items = items /\ r.index = request.index
  BY <1>1 DEF IsRequest
<1> QED
  BY <1>2, <1>3 DEF Ahead

\* The request of a caller at the end of a RADIO queue counts the items of its list.
LEMMA ReplenishAhead ==
  ASSUME CInv, TInv, NEW c \in Callers, Replenish(c) PROVE Ahead(call'[c])
<1>1. PICK request :
        request = [call[c] EXCEPT !.generation = generation, !.lineage = lineage,
                     !.station = Snapshot.station, !.items = Snapshot.items,
                     !.index = Size(Snapshot)]
  OBVIOUS
<1>2. IsRequest(request) /\ request.index \in Nat
  <2>1. IsRequest(call[c]) /\ Size(Snapshot) \in Nat
    BY BaseTyped DEF CInv, Shape, TInv
  <2> QED
    BY <1>1, <2>1 DEF IsRequest
<1>3. CASE OfThisGeneration(prefetched)
  <2>1. Expand(c, request, prefetched.items) /\ prefetched.items \in Lists
    BY <1>1, <1>3 DEF Replenish, OfThisGeneration, TInv, RadioTyped
  <2> QED
    BY <1>2, <2>1, ExpandAhead DEF CInv
<1>4. CASE ~OfThisGeneration(prefetched)
  <2>1. PICK pc \in {"awaiting", "fetching"}, excuse \in {request.excuse,
                                                request.excuse \union {"behind"}} :
          call' = [call EXCEPT ![c] = [request EXCEPT !.pc = pc, !.excuse = excuse]]
    <3>1. \E behind \in {{}, {"behind"}} :
            call' = [call EXCEPT ![c] =
              [request EXCEPT !.pc = IF Running THEN "awaiting" ELSE "fetching",
                              !.excuse = request.excuse \union behind]]
      BY <1>1, <1>2, <1>4 DEF Replenish, IsRequest
    <3>2. request.excuse \union {} = request.excuse
      OBVIOUS
    <3> QED
      BY <3>1, <3>2
  <2>2. call'[c] = [request EXCEPT !.pc = pc, !.excuse = excuse]
    BY <2>1 DEF CInv, Shape
  <2>3. call'[c].pc = pc /\ call'[c].index = request.index
    BY <1>2, <2>2 DEF IsRequest
  <2> QED
    BY <1>2, <2>3 DEF Ahead
<1> QED
  BY <1>3, <1>4

\* SInv through each step of a caller.
LEMMA StepSInv == ASSUME CInv, TInv, WInv, SInv, NEW c \in Callers, Step(c) PROVE SInv'
<1>0. Shape /\ IsRequest(call[c]) /\ Ahead(call[c]) /\ RequestTyped(call[c])
  BY DEF CInv, Shape, SInv, TInv, CallsTyped
<1>1. SUFFICES Ahead(call'[c])
  <2>1. \A d \in Callers \ {c} : call'[d] = call[d]
    BY HolderLeads
  <2> QED
    BY <2>1 DEF SInv, Ahead
<1>2. ASSUME NEW outcome, NEW why, Done(c, outcome, why) PROVE Ahead(call'[c])
  BY <1>0, <1>2 DEF Done, Shape, Nothing, Ahead
<1>3. CASE Acquire(c)
  <2>1. call[c].items = <<>>
    BY <1>0, <1>3 DEF Ahead, Acquire, Holds
  <2>2. ASSUME NEW b, call' = [call EXCEPT ![c].pc = "checking", ![c].baseline = b]
        PROVE  Ahead(call'[c])
    <3>1. call'[c] = [call[c] EXCEPT !.pc = "checking", !.baseline = b]
      BY <1>0, <2>2 DEF Shape
    <3>2. call'[c].pc = "checking" /\ call'[c].items = call[c].items
      BY <1>0, <3>1 DEF IsRequest
    <3> QED
      BY <2>1, <3>2 DEF Ahead
  <2>3. ASSUME NEW i, call' = [call EXCEPT ![c].pc = "moving", ![c].generation = generation,
                                           ![c].lineage = lineage, ![c].index = i]
        PROVE  Ahead(call'[c])
    <3>1. call'[c] = [call[c] EXCEPT !.pc = "moving", !.generation = generation,
                                     !.lineage = lineage, !.index = i]
      BY <1>0, <2>3 DEF Shape
    <3>2. call'[c].pc = "moving" /\ call'[c].items = call[c].items
      BY <1>0, <3>1 DEF IsRequest
    <3> QED
      BY <2>1, <3>2 DEF Ahead
  <2>4. CASE call[c].op # "previous"
    <3>1. call' = [call EXCEPT ![c].pc = "checking",
                     ![c].baseline = IF call[c].baseline = None THEN Baseline
                                     ELSE call[c].baseline]
      BY <1>0, <1>3, <2>4 DEF Acquire, Shape
    <3> QED
      BY <2>2, <3>1
  <2>5. CASE call[c].op = "previous"
    BY <1>2, <1>3, <2>3, <2>5 DEF Acquire
  <2> QED
    BY <2>4, <2>5
<1>4. CASE Check(c)
  <2>1. call[c].items = <<>>
    BY <1>0, <1>4 DEF Ahead, Check, Connected, Holds
  <2>2. ASSUME call' = [call EXCEPT ![c].pc = "advancing"] PROVE Ahead(call'[c])
    <3>1. call'[c] = [call[c] EXCEPT !.pc = "advancing"]
      BY <1>0, <2>2 DEF Shape
    <3>2. call'[c].pc = "advancing" /\ call'[c].items = call[c].items
      BY <1>0, <3>1 DEF IsRequest
    <3> QED
      BY <2>1, <3>2 DEF Ahead
  <2> QED
    BY <1>2, <1>4, <2>2 DEF Check
<1>5. CASE AdvanceFails(c)
  <2>1. ASSUME call' = [call EXCEPT ![c].retried = TRUE] PROVE Ahead(call'[c])
    <3>1. call'[c] = [call[c] EXCEPT !.retried = TRUE]
      BY <1>0, <2>1 DEF Shape
    <3>2. /\ call'[c].pc = call[c].pc /\ call'[c].items = call[c].items
          /\ call'[c].index = call[c].index
      BY <1>0, <3>1 DEF IsRequest
    <3> QED
      BY <1>0, <3>2 DEF Ahead
  <2> QED
    BY <1>2, <1>5, <2>1 DEF AdvanceFails
<1>6. CASE Advance(c)
  BY <1>2, <1>6, ReplenishAhead DEF Advance
<1>7. CASE Awaited(c)
  <2>1. call[c].index \in Nat
    BY <1>0, <1>7 DEF Ahead, Awaited, Holds
  <2>2. CASE prefetched # None /\ Expand(c, call[c], prefetched.items)
    BY <1>0, <2>1, <2>2, ExpandAhead DEF TInv, RadioTyped
  <2> QED
    BY <1>2, <1>7, <2>2 DEF Awaited
<1>8. CASE Fetched(c)
  <2>1. call[c].index \in Nat
    BY <1>0, <1>8 DEF Ahead, Fetched, Holds
  <2>2. ASSUME NEW items \in Batches(call[c].station, call[c].items), Expand(c, call[c], items)
        PROVE  Ahead(call'[c])
    <3>1. items \in Lists
      BY <1>0, BatchTyped DEF TInv, RequestTyped
    <3> QED
      BY <1>0, <2>1, <2>2, <3>1, ExpandAhead
  <2> QED
    BY <1>2, <1>8, <2>2 DEF Fetched
<1>9. CASE GiveUp(c) \/ Cancelled(c) \/ FetchedNothing(c) \/ Move(c) \/ MoveFails(c)
  BY <1>2, <1>9 DEF GiveUp, Cancelled, FetchedNothing, Move, MoveFails
<1> QED
  BY <1>3, <1>4, <1>5, <1>6, <1>7, <1>8, <1>9 DEF Step

\* A request that keeps its list, or is cancelled while it waits, stays ahead.
LEMMA OthersSInv ==
  ASSUME SInv,
         \A c \in Callers :
           /\ call'[c].items = call[c].items /\ call'[c].index = call[c].index
           /\ \/ call'[c].pc = call[c].pc
              \/ call[c].pc = "awaiting" /\ call'[c].pc = "cancelled"
  PROVE  SInv'
  BY DEF SInv, Ahead

\* SInv through every step.
LEMMA NextSInv == CInv /\ TInv /\ WInv /\ SInv /\ [Next]_vars => SInv'
<1> SUFFICES ASSUME CInv, TInv, WInv, SInv, [Next]_vars PROVE SInv'
  OBVIOUS
<1>1. CASE UNCHANGED call
  BY <1>1, OthersSInv
<1>2. CASE \E c \in Callers : Step(c)
  BY <1>2, StepSInv
<1>3. ASSUME NEW c \in Callers, NEW op \in Kinds, Begin(c, op) PROVE SInv'
  <2>1. PICK r : r = [Nothing EXCEPT !.pc = "queued", !.op = op,
                          !.baseline = IF op = "end" THEN Baseline ELSE None]
    OBVIOUS
  <2>2. call' = [call EXCEPT ![c] = r] /\ r.pc = "queued" /\ r.items = <<>>
    BY <1>3, <2>1 DEF Begin, Nothing
  <2>3. call'[c] = r /\ \A d \in Callers \ {c} : call'[d] = call[d]
    BY <2>2 DEF CInv, Shape
  <2> QED
    BY <2>2, <2>3 DEF SInv, Ahead
<1>4. CASE PrefetchFails
  <2>1. ASSUME NEW c \in Callers
        PROVE  \/ call'[c] = call[c]
               \/ call'[c] = [call[c] EXCEPT !.excuse = @ \union {"api"}]
    BY <1>4 DEF PrefetchFails
  <2>2. \A c \in Callers : IsRequest(call[c])
    BY DEF CInv, Shape
  <2>3. ASSUME NEW c \in Callers
        PROVE  /\ call'[c].items = call[c].items /\ call'[c].index = call[c].index
               /\ call'[c].pc = call[c].pc
    BY <2>1, <2>2 DEF IsRequest
  <2> QED
    BY <2>3, OthersSInv
<1>5. CASE HandleFrame /\ call' = Cleared
  <2>1. ASSUME NEW c \in Callers
        PROVE  \/ call'[c] = call[c]
               \/ /\ call[c].pc = "awaiting"
                  /\ call'[c] = [call[c] EXCEPT !.pc = "cancelled"]
    BY <1>5 DEF Cleared
  <2>2. \A c \in Callers : IsRequest(call[c])
    BY DEF CInv, Shape
  <2>3. ASSUME NEW c \in Callers
        PROVE  /\ call'[c].items = call[c].items /\ call'[c].index = call[c].index
               /\ \/ call'[c].pc = call[c].pc
                  \/ call[c].pc = "awaiting" /\ call'[c].pc = "cancelled"
    BY <2>1, <2>2 DEF IsRequest
  <2> QED
    BY <2>3, OthersSInv
<1>6. HandleFrame => UNCHANGED call \/ call' = Cleared
  BY DEF HandleFrame
<1>7. Prefetch => UNCHANGED call \/ PrefetchFails
  BY DEF Prefetch, PrefetchArrives, PrefetchDropped, callVars
<1>8. Environment \/ UNCHANGED vars => UNCHANGED call
  BY DEF Environment, Loses, Reconnects, Settles, PeerPlays, PeerSwitches, PeerAct, Relay,
         vars, callVars
<1> QED
  BY <1>1, <1>2, <1>3, <1>4, <1>5, <1>6, <1>7, <1>8 DEF Next

\* What the trim leaves of a list that is longer than an index by at most the window: the item
\* after that index, as many places nearer to the front as were dropped (set_index).
LEMMA TrimKeepsTheSeam ==
  ASSUME NEW b, IsBase(b), NEW items \in Lists, NEW index \in Nat,
         Len(items) > index, Len(items) <= index + Window,
         NEW q, q.items = SetIndexIn(b, index, items, None).queue.items,
         q.current = SetIndexIn(b, index, items, None).queue.current
  PROVE  CurrentPlayable(q) = {items[index + 1]}
<1> DEFINE d == Dropped(b.queue, items)
           replaced == ReplaceItems(b, items).queue
<1>1. b.queue.current \in Int /\ b.queue.shuffled \in BOOLEAN /\ Len(items) \in Nat
  BY DEF IsBase, Queues, Lists
<1>2. d \in Nat /\ d <= index
  <2>1. PICK w \in Nat : w = Window
    BY WindowAssumption
  <2>2. PICK m \in Nat : m = Len(items)
    BY <1>1
  <2>3. d \in Nat /\ d <= Most(0, m - w)
    BY <1>1, <2>1, <2>2 DEF Dropped, Least, Most
  <2>4. Most(0, m - w) <= index /\ Most(0, m - w) \in Nat
    BY <2>1, <2>2 DEF Most
  <2> HIDE DEF d
  <2> QED
    BY <2>3, <2>4
<1>3. replaced \in Queues /\ IsBase(ReplaceItems(b, items))
  BY ReplaceTyped
<1>4. q.items = replaced.items /\ q.current = index - d
  <2>1. SetIndexIn(b, index, items, None).queue = [replaced EXCEPT !.current = index - d]
    BY <1>3 DEF SetIndexIn, SetIndex, IsBase
  <2> HIDE DEF d, replaced
  <2> QED
    BY <1>3, <2>1 DEF Queues
<1>5. replaced.items = IF b.queue.shuffled THEN items ELSE SubSeq(items, d + 1, Len(items))
  BY DEF ReplaceItems, IsBase, Queues
<1>6. b.queue.shuffled => d = 0
  BY DEF Dropped
<1> HIDE DEF d, replaced
<1>7. Len(q.items) = Len(items) - d /\ q.items[index - d + 1] = items[index + 1]
  <2>1. CASE b.queue.shuffled
    BY <1>1, <1>4, <1>5, <1>6, <2>1
  <2>2. CASE ~b.queue.shuffled
    <3>1. q.items = SubSeq(items, d + 1, Len(items))
      BY <1>1, <1>4, <1>5, <2>2
    <3>2. ASSUME NEW list \in Seq(Playables), NEW n \in Nat, NEW i \in Nat,
                 n <= i, i < Len(list)
          PROVE  /\ Len(SubSeq(list, n + 1, Len(list))) = Len(list) - n
                 /\ SubSeq(list, n + 1, Len(list))[i - n + 1] = list[i + 1]
      <4>1. PICK m \in Nat, k \in Nat : m = Len(list) /\ k = i - n + 1
        BY <3>2
      <4>2. k \in 1 .. m - (n + 1) + 1 /\ (n + 1) + k - 1 = i + 1
        BY <3>2, <4>1
      <4>3. Len(SubSeq(list, n + 1, m)) = m - n
        BY <3>2, <4>1
      <4>4. SubSeq(list, n + 1, m)[k] = list[(n + 1) + k - 1]
        BY <3>2, <4>1, <4>2
      <4> QED
        BY <4>1, <4>2, <4>3, <4>4
    <3>3. items \in Seq(Playables)
      BY DEF Lists, Playables
    <3> QED
      BY <1>2, <3>1, <3>2, <3>3
  <2> QED
    BY <2>1, <2>2
<1>8. index - d \in Positions(q)
  BY <1>1, <1>2, <1>7 DEF Positions, Size
<1> QED
  BY <1>4, <1>7, <1>8 DEF CurrentPlayable

\* At the end of a RADIO queue playback goes on with the first track after the list it ended,
\* whatever has extended and trimmed that queue while more tracks were fetched or awaited
\* (_complete_track, go_to_index and set_index).
THEOREM SeamIsTheNextTrack == Spec => SeamLandsOnNext
<1>1. Init => SInv
  BY DEF Init, Nothing, SInv, Ahead
<1>2. ASSUME CInv, TInv, WInv, SInv, Next, NEW c \in Callers, Moves(c), call[c].items # <<>>,
             Len(call[c].items) <= call[c].index + Window
      PROVE  CurrentPlayable(pending') = {call[c].items[call[c].index + 1]}
  <2>1. edits' # edits /\ call[c].pc = "moving" /\ call'[c].pc = "idle"
    BY <1>2 DEF Moves
  <2>2. Move(c)
    <3>1. ASSUME NEW d \in Callers, Move(d) \/ Advance(d) PROVE d = c /\ Move(c)
      <4>1. Step(d)
        BY <3>1 DEF Step
      <4>2. d = c
        BY <2>1, <4>1, HolderLeads, <1>2
      <4> QED
        BY <2>1, <3>1, <4>2 DEF Advance, Connected, Holds
    <3>2. PrefetchArrives => UNCHANGED call
      BY DEF PrefetchArrives, callVars
    <3> QED
      BY <1>2, <2>1, <3>1, <3>2, WhoPublishes
  <2>3. Commit(Moved(c), TRUE, 0)
    BY <2>1, <2>2 DEF Move, bounds
  <2>4. pending' = [Moved(c).queue EXCEPT !.version = edits + 1]
    BY <2>3 DEF Commit
  <2>5. Moved(c) = SetIndexIn(Base, call[c].index, call[c].items, None)
    BY <1>2 DEF Moved
  <2>6. /\ IsBase(Base) /\ call[c].items \in Lists /\ call[c].index \in Nat
        /\ Len(call[c].items) > call[c].index
    BY <1>2, <2>1, BaseTyped DEF TInv, CallsTyped, RequestTyped, SInv, Ahead
  <2>7. /\ pending'.items = SetIndexIn(Base, call[c].index, call[c].items, None).queue.items
        /\ pending'.current = SetIndexIn(Base, call[c].index, call[c].items, None).queue.current
    <3>1. Moved(c).queue \in Queues
      BY <1>2, MovedTyped DEF TInv, CallsTyped
    <3>2. pending'.items = Moved(c).queue.items /\ pending'.current = Moved(c).queue.current
      BY <2>4, <3>1 DEF Queues
    <3> QED
      BY <2>5, <3>2
  <2>8. PICK b, items, index, q :
          b = Base /\ items = call[c].items /\ index = call[c].index /\ q = pending'
    OBVIOUS
  <2>9. /\ IsBase(b) /\ items \in Lists /\ index \in Nat
        /\ Len(items) > index /\ Len(items) <= index + Window
        /\ q.items = SetIndexIn(b, index, items, None).queue.items
        /\ q.current = SetIndexIn(b, index, items, None).queue.current
    BY <1>2, <2>6, <2>7, <2>8
  <2>10. CurrentPlayable(q) = {items[index + 1]}
    BY <2>9, TrimKeepsTheSeam
  <2> QED
    BY <2>8, <2>10 DEF CurrentPlayable, Positions, Size
<1>3. CInv /\ TInv /\ WInv /\ SInv /\ [Next]_vars =>
        [\A c \in Callers :
           Moves(c) /\ call[c].items # <<>> /\ Len(call[c].items) <= call[c].index + Window =>
             CurrentPlayable(pending') = {call[c].items[call[c].index + 1]}]_vars
  BY <1>2
<1> QED
  BY <1>1, <1>3, InitCInv, NextCInv, InitTInv, NextTInv, InitWInv, NextWInv, NextSInv, PTL
     DEF Spec, SeamLandsOnNext
=============================================================================
