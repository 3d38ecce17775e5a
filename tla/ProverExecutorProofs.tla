------------------------ MODULE ProverExecutorProofs ------------------------
(* Proofs about ProverExecutor, for any requests, limits and buffer bound. *)
EXTENDS ProverExecutor, FiniteSetTheorems, TLAPS

-----------------------------------------------------------------------------
(* Type correctness *)

\* The permits that a step returns or takes keep the semaphores' counts natural.
LEMMA ReleasedType ==
    ASSUME free \in [Limited -> Nat], NEW ls
    PROVE  Released(ls) \in [Limited -> Nat]
BY DEF Released

LEMMA TakenType ==
    ASSUME free \in [Limited -> Nat], NEW l \in Limited, free[l] > 0
    PROVE  Taken(l) \in [Limited -> Nat]
BY DEF Taken

LEMMA DroppedType ==
    ASSUME TypeOK, NEW r \in Requests
    PROVE  Dropped(r) \in [Provers -> [Requests -> JobStates]]
BY DEF TypeOK, Dropped, JobStates

\* Init and every step of the service keep every variable in its type.
LEMMA TypeInit == Init => TypeOK
<1> SUFFICES ASSUME Init PROVE TypeOK
    OBVIOUS
<1> USE DEF Init
<1>1. /\ pc \in [Requests -> PCs]
      /\ stage \in [Requests -> Provers]
      /\ answer \in [Requests -> Answers]
      /\ job \in [Provers -> [Requests -> JobStates]]
    BY DEF PCs, Provers, Answers, JobStates
<1>2. queue \in Seq(Requests) /\ hand \in Requests \cup {NoRequest}
    OBVIOUS
<1>3. polling \in BOOLEAN /\ reserved \subseteq Limited /\ free \in [Limited -> Nat]
    BY LimitsAssumption
<1> QED BY <1>1, <1>2, <1>3 DEF TypeOK

LEMMA TypeStep == TypeOK /\ [Next]_vars => TypeOK'
<1> SUFFICES ASSUME TypeOK, [Next]_vars PROVE TypeOK'
    OBVIOUS
<1> USE DEF TypeOK
<1>1. ASSUME NEW r \in Requests, Receive(r) PROVE TypeOK'
    BY <1>1 DEF Receive, PCs, Answers
<1>2. ASSUME NEW r \in Requests, Enqueue(r) PROVE TypeOK'
    BY <1>2 DEF Enqueue, PCs
<1>3. ASSUME NEW r \in Requests, ProverCall(r) PROVE TypeOK'
    <2>1. free' \in [Limited -> Nat]
        BY <1>3, TakenType DEF ProverCall
    <2>2. job' \in [Provers -> [Requests -> JobStates]]
        BY <1>3 DEF ProverCall, JobStates
    <2> QED BY <1>3, <2>1, <2>2 DEF ProverCall, PCs
<1>4. ASSUME NEW r \in Requests, NEW x \in Results, Settle(r, x)
      PROVE  /\ pc' \in [Requests -> PCs]
             /\ stage' \in [Requests -> Provers]
             /\ answer' \in [Requests -> Answers]
             /\ free' \in [Limited -> Nat]
    <2>1. free' \in [Limited -> Nat]
        BY <1>4, ReleasedType DEF Settle
    <2>2. pc' \in [Requests -> PCs] /\ stage' \in [Requests -> Provers]
        BY <1>4 DEF Settle, PCs, Provers
    <2>3. answer' \in [Requests -> Answers]
        <3>1. x \in Answers /\ "Internal" \in Answers
            BY DEF Answers
        <3>2. answer' = answer \/ \E a \in Answers : answer' = [answer EXCEPT ![r] = a]
            BY <1>4, <3>1 DEF Settle
        <3> HIDE DEF Answers
        <3> QED BY <3>2
    <2> QED BY <2>1, <2>2, <2>3
<1>5. ASSUME NEW r \in Requests, Resolve(r) PROVE TypeOK'
    <2>1. job' \in [Provers -> [Requests -> JobStates]]
        BY <1>5 DEF Resolve, JobStates
    <2> QED BY <1>5, <2>1, <1>4 DEF Resolve
<1>6. ASSUME NEW r \in Requests, Timeout(r) PROVE TypeOK'
    BY <1>6, <1>4, DroppedType DEF Timeout, Results, ProverErrors
<1>7. ASSUME NEW r \in Requests, Cancel(r) PROVE TypeOK'
    BY <1>7, ReleasedType, DroppedType DEF Cancel, PCs
<1>8. ASSUME NEW r \in Requests, NEW s \in Provers, Prove(r, s) PROVE TypeOK'
    <2>1. PICK x \in JobStates : job' = [job EXCEPT ![s][r] = x]
        BY <1>8 DEF Prove, Finished, JobStates, Results, ProverErrors
    <2> QED BY <1>8, <2>1 DEF Prove
<1>9. ASSUME NEW r \in Requests, NEW s \in Provers, Verify(r, s) PROVE TypeOK'
    BY <1>9 DEF Verify, Finished, JobStates, Results, ProverErrors, Proofs
<1>10. CASE WorkerTake
    <2>1. Head(queue) \in Requests /\ Tail(queue) \in Seq(Requests)
        BY <1>10 DEF WorkerTake
    <2>2. polling' \in BOOLEAN
        BY <1>10, Zenon DEF WorkerTake
    <2> QED BY <1>10, <2>1, <2>2 DEF WorkerTake
<1>11. CASE WorkerDrop
    BY <1>11 DEF WorkerDrop
<1>12. CASE WorkerCall
    BY <1>12 DEF WorkerCall, PCs
<1>13. ASSUME NEW l \in Limited, Reserve(l) PROVE TypeOK'
    BY <1>13, TakenType DEF Reserve
<1>14. CASE UNCHANGED vars
    BY <1>14 DEF vars
<1> QED
    BY <1>1, <1>2, <1>3, <1>5, <1>6, <1>7, <1>8, <1>9, <1>10, <1>11, <1>12,
       <1>13, <1>14 DEF Next, Worker

\* Every behaviour of the service keeps the type invariant.
THEOREM TypeCorrect == Spec => []TypeOK
<1>1. Init => TypeOK BY TypeInit
<1>2. TypeOK /\ [Next]_vars => TypeOK' BY TypeStep
<1> QED BY <1>1, <1>2, PTL DEF Spec

-----------------------------------------------------------------------------
(* Conservation of permits *)

LEMMA HoldersFinite ==
    ASSUME NEW l
    PROVE  IsFiniteSet(Holders(l)) /\ Cardinality(Holders(l)) \in Nat
<1>1. Holders(l) \subseteq Requests
    BY DEF Holders
<1>2. IsFiniteSet(Holders(l))
    BY <1>1, RequestsAssumption, FS_Subset
<1> QED BY <1>2, FS_CardinalityType

\* A step that touches no permit.
LEMMA PermitsKept ==
    ASSUME PermitsConserved, free' = free, reserved' = reserved,
           \A l \in Limited : Holders(l)' = Holders(l)
    PROVE  PermitsConserved'
BY DEF PermitsConserved

\* A step in which the futures of r give back the permits ls.
LEMMA PermitsReleased ==
    ASSUME TypeOK, PermitsConserved, NEW r \in Requests, NEW ls,
           free' = Released(ls), reserved' = reserved,
           \A l \in Limited :
              IF l \in ls THEN r \in Holders(l) /\ Holders(l)' = Holders(l) \ {r}
                          ELSE Holders(l)' = Holders(l)
    PROVE  PermitsConserved'
<1> SUFFICES ASSUME NEW l \in Limited
             PROVE  (free[l] + (IF l \in reserved THEN 1 ELSE 0)
                        + Cardinality(Holders(l)))' = Limits[l]
    BY DEF PermitsConserved
<1>1. free[l] + (IF l \in reserved THEN 1 ELSE 0) + Cardinality(Holders(l)) = Limits[l]
    BY DEF PermitsConserved
<1>2. free[l] \in Nat
    BY DEF TypeOK
<1>3. IsFiniteSet(Holders(l)) /\ Cardinality(Holders(l)) \in Nat
    BY HoldersFinite
<1>4. CASE l \in ls
    <2>1. free'[l] = free[l] + 1
        BY <1>4 DEF Released
    <2>2. Cardinality(Holders(l)') = Cardinality(Holders(l)) - 1
        BY <1>3, <1>4, FS_RemoveElement
    <2> QED BY <1>1, <1>2, <1>3, <2>1, <2>2
<1>5. CASE l \notin ls
    <2>1. free'[l] = free[l]
        BY <1>5 DEF Released
    <2> QED BY <1>1, <1>5, <2>1
<1> QED BY <1>4, <1>5

\* A step in which a future of r takes a permit of k from its semaphore.
LEMMA PermitsTaken ==
    ASSUME TypeOK, PermitsConserved, NEW r \in Requests, NEW k \in Limited,
           free[k] > 0, free' = Taken(k), reserved' = reserved,
           r \notin Holders(k), Holders(k)' = Holders(k) \cup {r},
           \A l \in Limited \ {k} : Holders(l)' = Holders(l)
    PROVE  PermitsConserved'
<1> SUFFICES ASSUME NEW l \in Limited
             PROVE  (free[l] + (IF l \in reserved THEN 1 ELSE 0)
                        + Cardinality(Holders(l)))' = Limits[l]
    BY DEF PermitsConserved
<1>1. free[l] + (IF l \in reserved THEN 1 ELSE 0) + Cardinality(Holders(l)) = Limits[l]
    BY DEF PermitsConserved
<1>2. free[l] \in Nat
    BY DEF TypeOK
<1>3. IsFiniteSet(Holders(l)) /\ Cardinality(Holders(l)) \in Nat
    BY HoldersFinite
<1>4. CASE l = k
    <2>1. free'[l] = free[l] - 1
        BY <1>4 DEF Taken
    <2>2. Cardinality(Holders(l)') = Cardinality(Holders(l)) + 1
        BY <1>3, <1>4, FS_AddElement
    <2> QED BY <1>1, <1>2, <1>3, <2>1, <2>2
<1>5. CASE l # k
    <2>1. free'[l] = free[l]
        BY <1>5 DEF Taken
    <2> QED BY <1>1, <1>5, <2>1
<1> QED BY <1>4, <1>5

\* Init puts every permit in its semaphore, and every step keeps the account.
LEMMA PermitsInit == Init => PermitsConserved
<1> SUFFICES ASSUME Init, NEW l \in Limited
             PROVE  free[l] + (IF l \in reserved THEN 1 ELSE 0)
                        + Cardinality(Holders(l)) = Limits[l]
    BY DEF PermitsConserved
<1>1. Holders(l) = {}
    BY DEF Init, Holders, Held
<1>2. Cardinality(Holders(l)) = 0
    BY <1>1, FS_EmptySet
<1>3. Limits[l] \in Nat
    BY LimitsAssumption
<1> QED BY <1>2, <1>3 DEF Init

LEMMA PermitsStep == TypeOK /\ PermitsConserved /\ [Next]_vars => PermitsConserved'
<1> SUFFICES ASSUME TypeOK, PermitsConserved, [Next]_vars PROVE PermitsConserved'
    OBVIOUS
<1> USE DEF TypeOK
<1>1. ASSUME NEW r \in Requests, Receive(r) \/ Enqueue(r) PROVE PermitsConserved'
    BY <1>1, PermitsKept DEF Receive, Enqueue, Holders, Held
<1>2. ASSUME NEW r \in Requests, NEW s \in Provers, Prove(r, s) \/ Verify(r, s)
      PROVE  PermitsConserved'
    BY <1>2, PermitsKept DEF Prove, Verify, Holders, Held
<1>3. CASE WorkerTake \/ WorkerDrop \/ UNCHANGED vars
    BY <1>3, PermitsKept DEF WorkerTake, WorkerDrop, vars, Holders, Held
<1>4. ASSUME NEW r \in Requests, ProverCall(r) PROVE PermitsConserved'
    <2>1. \A l : l # stage[r] => Holders(l)' = Holders(l)
        BY <1>4 DEF ProverCall, Holders, Held
    <2>2. stage[r] # "outer"
        BY DEF Provers
    <2>3. r \notin Holders(stage[r]) /\ Holders(stage[r])' = Holders(stage[r]) \cup {r}
        BY <1>4, <2>2 DEF ProverCall, Holders, Held
    <2>4. CASE stage[r] \in Limited
        BY <1>4, <2>1, <2>3, <2>4, PermitsTaken DEF ProverCall
    <2>5. CASE stage[r] \notin Limited
        BY <1>4, <2>1, <2>5, PermitsKept DEF ProverCall
    <2> QED BY <2>4, <2>5
<1>5. ASSUME NEW r \in Requests, NEW x, pc[r] = "run", Settle(r, x), reserved' = reserved
      PROVE  PermitsConserved'
    <2>1. CASE x \in ProverErrors /\ stage[r] = "primary" /\ HasFallback
        <3>1. /\ free' = Released({"primary"})
              /\ pc' = [pc EXCEPT ![r] = "wait"]
              /\ stage' = [stage EXCEPT ![r] = "fallback"]
            BY <1>5, <2>1 DEF Settle
        <3>2. r \in Holders("primary") /\ Holders("primary")' = Holders("primary") \ {r}
            BY <1>5, <2>1, <3>1 DEF Holders, Held
        <3>3. \A l : l # "primary" => Holders(l)' = Holders(l)
            BY <1>5, <2>1, <3>1 DEF Holders, Held
        <3>4. \A l \in Limited :
                 IF l \in {"primary"}
                 THEN r \in Holders(l) /\ Holders(l)' = Holders(l) \ {r}
                 ELSE Holders(l)' = Holders(l)
            BY <3>2, <3>3
        <3> HIDE DEF TypeOK
        <3> QED BY <1>5, <3>1, <3>4, PermitsReleased
    <2>2. CASE ~(x \in ProverErrors /\ stage[r] = "primary" /\ HasFallback)
        <3>1. /\ free' = Released(Held(r))
              /\ pc' = [pc EXCEPT ![r] = "done"]
              /\ stage' = stage
            BY <1>5, <2>2, FallbackAssumption DEF Settle
        <3>2. \A l \in Held(r) : r \in Holders(l) /\ Holders(l)' = Holders(l) \ {r}
            BY <3>1 DEF Holders, Held
        <3>3. \A l : l \notin Held(r) => Holders(l)' = Holders(l)
            BY <3>1 DEF Holders, Held
        <3> QED BY <1>5, <3>1, <3>2, <3>3, PermitsReleased
    <2> QED BY <2>1, <2>2
<1>6. ASSUME NEW r \in Requests, Resolve(r) \/ Timeout(r) PROVE PermitsConserved'
    BY <1>5, <1>6 DEF Resolve, Timeout
<1>7. ASSUME NEW r \in Requests, Cancel(r) PROVE PermitsConserved'
    <2>1. \A l \in Held(r) : r \in Holders(l) /\ Holders(l)' = Holders(l) \ {r}
        BY <1>7 DEF Cancel, Holders, Held
    <2>2. \A l : l \notin Held(r) => Holders(l)' = Holders(l)
        BY <1>7 DEF Cancel, Holders, Held
    <2> QED BY <1>7, <2>1, <2>2, PermitsReleased DEF Cancel
<1>8. CASE WorkerCall
    <2> SUFFICES ASSUME NEW l \in Limited
                 PROVE  (free[l] + (IF l \in reserved THEN 1 ELSE 0)
                            + Cardinality(Holders(l)))' = Limits[l]
        BY DEF PermitsConserved
    <2>1. free[l] + 1 + Cardinality(Holders(l)) = Limits[l]
        BY <1>8 DEF PermitsConserved, WorkerCall
    <2>2. free[l] \in Nat /\ IsFiniteSet(Holders(l)) /\ Cardinality(Holders(l)) \in Nat
        BY HoldersFinite
    <2>3. CASE l = "outer"
        <3>1. hand \notin Holders(l) /\ Holders(l)' = Holders(l) \cup {hand}
            BY <1>8, <2>3 DEF WorkerCall, Holders, Held
        <3>2. Cardinality(Holders(l)') = Cardinality(Holders(l)) + 1
            BY <2>2, <3>1, FS_AddElement
        <3> QED BY <1>8, <2>1, <2>2, <2>3, <3>2 DEF WorkerCall
    <2>4. CASE l # "outer"
        <3>1. Holders(l)' = Holders(l)
            BY <1>8, <2>4 DEF WorkerCall, Holders, Held
        <3>2. l \in reserved'
            BY <1>8, <2>4 DEF WorkerCall
        <3> QED BY <1>8, <2>1, <2>2, <3>1, <3>2 DEF WorkerCall
    <2> QED BY <2>3, <2>4
<1>9. ASSUME NEW k \in Limited, Reserve(k) PROVE PermitsConserved'
    <2> SUFFICES ASSUME NEW l \in Limited
                 PROVE  (free[l] + (IF l \in reserved THEN 1 ELSE 0)
                            + Cardinality(Holders(l)))' = Limits[l]
        BY DEF PermitsConserved
    <2>1. free[l] + (IF l \in reserved THEN 1 ELSE 0) + Cardinality(Holders(l)) = Limits[l]
        BY DEF PermitsConserved
    <2>2. free[l] \in Nat /\ Cardinality(Holders(l)) \in Nat
        BY HoldersFinite
    <2>3. Holders(l)' = Holders(l)
        BY <1>9 DEF Reserve, Holders, Held
    <2>4. free'[l] = IF l = k THEN free[l] - 1 ELSE free[l]
        BY <1>9 DEF Reserve, Taken
    <2>5. k \notin reserved /\ reserved' = reserved \cup {k}
        BY <1>9 DEF Reserve
    <2> QED BY <2>1, <2>2, <2>3, <2>4, <2>5
<1> QED
    BY <1>1, <1>2, <1>3, <1>4, <1>6, <1>7, <1>8, <1>9 DEF Next, Worker

\* No permit of any ConcurrencyLimit is ever leaked or duplicated.
THEOREM PermitsCorrect == Spec => []PermitsConserved
<1>1. Init => PermitsConserved BY PermitsInit
<1>2. TypeOK /\ PermitsConserved /\ [Next]_vars => PermitsConserved' BY PermitsStep
<1> QED BY <1>1, <1>2, TypeCorrect, PTL DEF Spec

-----------------------------------------------------------------------------
(* The permit that Executor::poll_ready keeps *)

\* Once a request has been called, poll_ready has left a permit of each local
\* prover in the Executor, where it stays.
PermitKept == (\E r \in Requests : pc[r] \in {"wait", "run"}) => Limited \cap Provers \subseteq reserved

LEMMA PermitKeptStep == TypeOK /\ PermitKept /\ [Next]_vars => PermitKept'
<1> SUFFICES ASSUME TypeOK, PermitKept, [Next]_vars,
                    NEW q \in Requests, pc'[q] \in {"wait", "run"}
             PROVE  Limited \cap Provers \subseteq reserved'
    BY DEF PermitKept
<1> USE DEF TypeOK, PermitKept
<1>1. ASSUME NEW r \in Requests,
             \/ Receive(r) \/ Enqueue(r) \/ ProverCall(r) \/ Cancel(r)
             \/ \E s \in Provers : Prove(r, s) \/ Verify(r, s)
      PROVE  Limited \cap Provers \subseteq reserved'
    BY <1>1 DEF Receive, Enqueue, ProverCall, Cancel, Prove, Verify
<1>2. ASSUME NEW r \in Requests, Resolve(r) \/ Timeout(r)
      PROVE  Limited \cap Provers \subseteq reserved'
    BY <1>2 DEF Resolve, Timeout
<1>3. CASE WorkerTake \/ WorkerDrop \/ UNCHANGED vars
    BY <1>3 DEF WorkerTake, WorkerDrop, vars
<1>4. CASE WorkerCall
    BY <1>4 DEF WorkerCall, Provers
<1>5. ASSUME NEW l \in Limited, Reserve(l)
      PROVE  Limited \cap Provers \subseteq reserved'
    BY <1>5 DEF Reserve
<1> QED BY <1>1, <1>2, <1>3, <1>4, <1>5 DEF Next, Worker

\* A local prover never proves for more than its limit minus one requests.
THEOREM OnePermitIdleCorrect == Spec => []OnePermitIdle
<1>1. Init => PermitKept
    BY DEF Init, PermitKept
<1>2. TypeOK /\ PermitKept /\ [Next]_vars => PermitKept'
    BY PermitKeptStep
<1>3. TypeOK /\ PermitsConserved /\ PermitKept => OnePermitIdle
    <2> SUFFICES ASSUME TypeOK, PermitsConserved, PermitKept,
                        NEW s \in Limited \cap Provers, NEW r \in Holders(s)
                 PROVE  Cardinality(Holders(s)) < Limits[s]
        BY DEF OnePermitIdle
    <2>1. s \in reserved
        BY DEF PermitKept, Holders, Held
    <2>2. free[s] + 1 + Cardinality(Holders(s)) = Limits[s]
        BY <2>1 DEF PermitsConserved
    <2>3. free[s] \in Nat /\ Cardinality(Holders(s)) \in Nat
        BY HoldersFinite DEF TypeOK
    <2> QED BY <2>2, <2>3
<1> QED BY <1>1, <1>2, <1>3, TypeCorrect, PermitsCorrect, PTL DEF Spec

-----------------------------------------------------------------------------
(* The refinement of ProofService *)

\* No task ends with a proof that was not verified.
OnlyVerified == \A s \in Provers, r \in Requests : job[s][r] # "invalid"

LEMMA OnlyVerifiedUpdate ==
    ASSUME TypeOK, OnlyVerified, NEW r \in Requests, NEW s \in Provers,
           NEW x, x # "invalid", job' = [job EXCEPT ![s][r] = x]
    PROVE  OnlyVerified'
<1> SUFFICES ASSUME NEW k \in Provers, NEW q \in Requests PROVE job'[k][q] # "invalid"
    BY DEF OnlyVerified
<1>1. job'[k][q] = IF k = s /\ q = r THEN x ELSE job[k][q]
    BY DEF TypeOK
<1> QED BY <1>1 DEF OnlyVerified

LEMMA OnlyVerifiedStep == TypeOK /\ OnlyVerified /\ [Next]_vars => OnlyVerified'
<1> SUFFICES ASSUME TypeOK, OnlyVerified, [Next]_vars PROVE OnlyVerified'
    OBVIOUS
<1>1. ASSUME NEW r \in Requests, ProverCall(r) \/ Resolve(r) PROVE OnlyVerified'
    <2>1. stage[r] \in Provers
        BY DEF TypeOK
    <2>2. \E x : x # "invalid" /\ job' = [job EXCEPT ![stage[r]][r] = x]
        BY <1>1 DEF ProverCall, Resolve
    <2> QED BY <2>1, <2>2, OnlyVerifiedUpdate
<1>2. ASSUME NEW r \in Requests, Timeout(r) \/ Cancel(r) PROVE OnlyVerified'
    <2>1. stage[r] \in Provers
        BY DEF TypeOK
    <2>2. job' = Dropped(r)
        BY <1>2 DEF Timeout, Cancel
    <2>3. CASE pc[r] # "run"
        BY <2>2, <2>3 DEF Dropped, OnlyVerified
    <2>4. CASE pc[r] = "run"
        <3>1. \E x : x # "invalid" /\ job' = [job EXCEPT ![stage[r]][r] = x]
            BY <2>1, <2>2, <2>4 DEF Dropped, OnlyVerified
        <3> QED BY <2>1, <3>1, OnlyVerifiedUpdate
    <2> QED BY <2>3, <2>4
<1>3. ASSUME NEW r \in Requests, NEW s \in Provers, Prove(r, s) \/ Verify(r, s)
      PROVE  OnlyVerified'
    <2>1. \E x : x # "invalid" /\ job' = [job EXCEPT ![s][r] = x]
        BY <1>3 DEF Prove, Verify, Finished
    <2> QED BY <2>1, OnlyVerifiedUpdate
<1>4. ASSUME UNCHANGED job PROVE OnlyVerified'
    BY <1>4 DEF OnlyVerified
<1>5. ASSUME NEW r \in Requests, Receive(r) \/ Enqueue(r) PROVE OnlyVerified'
    BY <1>4, <1>5 DEF Receive, Enqueue
<1>6. CASE Worker \/ (\E l \in Limited : Reserve(l)) \/ UNCHANGED vars
    BY <1>4, <1>6 DEF Worker, WorkerTake, WorkerDrop, WorkerCall, Reserve, vars
<1> QED BY <1>1, <1>2, <1>3, <1>5, <1>6 DEF Next

\* The abstract phase of each place a handler can be in, and what a step that
\* moves one handler does to the phases.
LEMMA Phases ==
    /\ PhaseOf("new") = "idle"
    /\ PhaseOf("ready") = "accepted" /\ PhaseOf("queued") = "accepted"
    /\ PhaseOf("wait") = "executing" /\ PhaseOf("run") = "executing"
    /\ PhaseOf("done") = "answered"
    /\ PhaseOf("cancelled") = "dropped"
BY DEF PhaseOf

LEMMA PhaseMove ==
    ASSUME TypeOK, NEW r \in Requests, NEW p, pc' = [pc EXCEPT ![r] = p]
    PROVE  /\ phaseBar[r] = PhaseOf(pc[r])
           /\ phaseBar' = [phaseBar EXCEPT ![r] = PhaseOf(p)]
           /\ PhaseOf(p) = PhaseOf(pc[r]) => phaseBar' = phaseBar
BY DEF TypeOK, phaseBar

LEMMA PhaseKept == ASSUME pc' = pc PROVE phaseBar' = phaseBar
BY DEF phaseBar

\* When the worker calls the stack, there is room for one more request.
LEMMA RoomAtCall ==
    ASSUME TypeOK, PermitsConserved, WorkerCall
    PROVE  Cardinality(Service!Executing) < CapacityBar
<1>1. Service!Executing = Holders("outer")
    BY Phases DEF TypeOK, PCs, Provers, Service!Executing, phaseBar, Holders, Held
<1>2. Cardinality(Holders("outer")) \in Nat
    BY HoldersFinite
<1>3. CASE "outer" \in Limited
    <2>1. free["outer"] + 1 + Cardinality(Holders("outer")) = Limits["outer"]
        BY <1>3 DEF PermitsConserved, WorkerCall
    <2>2. free["outer"] \in Nat
        BY <1>3 DEF TypeOK
    <2> QED BY <1>1, <1>2, <1>3, <2>1, <2>2 DEF CapacityBar
<1>4. CASE "outer" \notin Limited
    <2>1. Holders("outer") \subseteq Requests /\ hand \in Requests \ Holders("outer")
        BY DEF WorkerCall, TypeOK, Holders, Held, Provers
    <2>2. Cardinality(Holders("outer")) < Cardinality(Requests)
        <3>1. /\ Cardinality(Holders("outer")) <= Cardinality(Requests)
              /\ Cardinality(Holders("outer")) # Cardinality(Requests)
            BY <2>1, RequestsAssumption, FS_Subset
        <3> QED BY <1>2, <3>1, RequestsAssumption, FS_CardinalityType
    <2> QED BY <1>1, <1>4, <2>2 DEF CapacityBar
<1> QED BY <1>3, <1>4

\* Each step of the executor is a step of the abstract service, or invisible to it.
LEMMA ServiceStep ==
    TypeOK /\ PermitsConserved /\ OnlyVerified /\ [Next]_vars
        => [Service!ServiceNext]_(Service!svars)
<1> SUFFICES ASSUME TypeOK, PermitsConserved, OnlyVerified, [Next]_vars
             PROVE  Service!ServiceNext \/ UNCHANGED <<phaseBar, answer>>
    BY DEF Service!svars
<1>1. ASSUME NEW r \in Requests, Receive(r)
      PROVE  Service!Accept(r) \/ Service!Reject(r)
    BY <1>1, Phases, PhaseMove DEF Receive, Service!Accept, Service!Reject
<1>2. ASSUME NEW r \in Requests, Enqueue(r) \/ ProverCall(r)
      PROVE  UNCHANGED <<phaseBar, answer>>
    BY <1>2, Phases, PhaseMove DEF Enqueue, ProverCall
<1>3. ASSUME NEW r \in Requests, NEW x \in Results \ {"invalid"}, pc[r] = "run",
             Settle(r, x)
      PROVE  Service!Reply(r) \/ UNCHANGED <<phaseBar, answer>>
    <2>1. CASE x \in ProverErrors /\ stage[r] = "primary" /\ HasFallback
        BY <1>3, <2>1, Phases, PhaseMove DEF Settle
    <2>2. CASE ~(x \in ProverErrors /\ stage[r] = "primary" /\ HasFallback)
        <3>1. pc' = [pc EXCEPT ![r] = "done"]
            BY <1>3, <2>2, FallbackAssumption DEF Settle
        <3>2. PICK a \in IF x \in Proofs THEN {x, "Internal"} ELSE {x} :
                    answer' = [answer EXCEPT ![r] = a]
            BY <1>3, <2>2, FallbackAssumption DEF Settle
        <3>3. a \in RepliesBar
            BY <3>2 DEF RepliesBar, Results, Proofs
        <3>4. /\ phaseBar[r] = PhaseOf("run")
              /\ phaseBar' = [phaseBar EXCEPT ![r] = PhaseOf("done")]
            BY <1>3, <3>1, PhaseMove
        <3>5. phaseBar[r] = "executing" /\ phaseBar' = [phaseBar EXCEPT ![r] = "answered"]
            BY <3>4, Phases
        <3> QED BY <3>2, <3>3, <3>5 DEF Service!Reply
    <2> QED BY <2>1, <2>2
<1>4. ASSUME NEW r \in Requests, Resolve(r) \/ Timeout(r)
      PROVE  Service!Reply(r) \/ UNCHANGED <<phaseBar, answer>>
    <2>1. CASE Resolve(r)
        <3>1. job[stage[r]][r] \in Results \ {"invalid"}
            BY <2>1 DEF Resolve, OnlyVerified, TypeOK
        <3> QED BY <1>3, <2>1, <3>1 DEF Resolve
    <2>2. CASE Timeout(r)
        BY <1>3, <2>2 DEF Timeout, Results, ProverErrors
    <2> QED BY <1>4, <2>1, <2>2
<1>5. ASSUME NEW r \in Requests, Cancel(r) PROVE Service!Drop(r)
    <2>1. /\ phaseBar[r] = PhaseOf(pc[r])
          /\ phaseBar' = [phaseBar EXCEPT ![r] = PhaseOf("cancelled")]
        BY <1>5, PhaseMove DEF Cancel
    <2> QED BY <1>5, <2>1, Phases DEF Cancel, Service!Drop
<1>6. ASSUME NEW r \in Requests, NEW s \in Provers, Prove(r, s) \/ Verify(r, s)
      PROVE  UNCHANGED <<phaseBar, answer>>
    BY <1>6, PhaseKept DEF Prove, Verify
<1>7. CASE WorkerCall
    <2>1. hand \in Requests /\ pc[hand] = "queued"
        BY <1>7 DEF WorkerCall, TypeOK
    <2>2. Service!Start(hand)
        <3>1. /\ phaseBar[hand] = PhaseOf("queued")
              /\ phaseBar' = [phaseBar EXCEPT ![hand] = PhaseOf("wait")]
            BY <1>7, <2>1, PhaseMove DEF WorkerCall
        <3>2. answer' = answer /\ Cardinality(Service!Executing) < CapacityBar
            BY <1>7, RoomAtCall DEF WorkerCall
        <3>3. Service!Cardinality(Service!Executing) = Cardinality(Service!Executing)
            BY Zenon DEF Service!Cardinality, Cardinality, IsFiniteSet, Service!IsFiniteSet
        <3> QED BY <3>1, <3>2, <3>3, Phases DEF Service!Start
    <2> QED BY <2>1, <2>2 DEF Service!ServiceNext
<1>8. CASE WorkerTake \/ WorkerDrop \/ (\E l \in Limited : Reserve(l)) \/ UNCHANGED vars
    BY <1>8, PhaseKept DEF WorkerTake, WorkerDrop, Reserve, vars
<1> QED
    BY <1>1, <1>2, <1>4, <1>5, <1>6, <1>7, <1>8 DEF Next, Worker, Service!ServiceNext

\* The executor implements the abstract service, whatever its limits are.
THEOREM ExecutorImplementsService == Spec => ImplementsService
<1>1. Init => Service!ServiceInit
    BY Phases DEF Init, Service!ServiceInit, phaseBar
<1>2. Init => OnlyVerified
    BY DEF Init, OnlyVerified
<1>3. TypeOK /\ OnlyVerified /\ [Next]_vars => OnlyVerified'
    BY OnlyVerifiedStep
<1>4. TypeOK /\ PermitsConserved /\ OnlyVerified /\ [Next]_vars
        => [Service!ServiceNext]_(Service!svars)
    BY ServiceStep
<1> QED
    BY <1>1, <1>2, <1>3, <1>4, TypeCorrect, PermitsCorrect, PTL
       DEF Spec, ImplementsService, Service!ServiceSpec

-----------------------------------------------------------------------------
(* The Buffer *)

\* r has a message in the Buffer's channel.
InQueue(r) == \E i \in 1..Len(queue) : queue[i] = r

\* The inductive invariant, without counting: the messages are of distinct handlers,
\* and the handlers that wait for the worker are among them.
BufferInv ==
    /\ \A i, j \in 1..Len(queue) : queue[i] = queue[j] => i = j
    /\ ~InQueue(hand)
    /\ \A r \in Requests :
          /\ pc[r] = "queued" => InQueue(r) \/ hand = r
          /\ InQueue(r) \/ hand = r => pc[r] \in {"queued", "cancelled"}
    /\ BufferInUse <= BufferBound

\* A step that moves handlers outside the Buffer, or lets a caller leave.
LEMMA BufferKept ==
    ASSUME BufferInv, UNCHANGED <<queue, hand>>,
           \A r \in Requests :
              \/ pc'[r] = pc[r]
              \/ pc[r] \notin {"queued", "cancelled"} /\ pc'[r] # "queued"
              \/ pc[r] = "queued" /\ pc'[r] = "cancelled"
    PROVE  BufferInv'
BY DEF BufferInv, InQueue, BufferInUse

LEMMA BufferStep == TypeOK /\ BufferInv /\ [Next]_vars => BufferInv'
<1> SUFFICES ASSUME TypeOK, BufferInv, [Next]_vars PROVE BufferInv'
    OBVIOUS
<1>0. /\ pc \in [Requests -> PCs] /\ queue \in Seq(Requests) /\ Len(queue) \in Nat
      /\ \A i \in 1..Len(queue) : queue[i] \in Requests
      /\ hand \in Requests \cup {NoRequest} /\ NoRequest \notin Requests /\ BufferBound \in Nat
    BY RequestsAssumption, BufferAssumption DEF TypeOK
<1>1. ASSUME NEW r \in Requests, Receive(r) \/ ProverCall(r) \/ Cancel(r)
      PROVE  BufferInv'
    BY <1>0, <1>1, BufferKept DEF Receive, ProverCall, Cancel
<1>2. ASSUME NEW r \in Requests, Resolve(r) \/ Timeout(r) PROVE BufferInv'
    BY <1>0, <1>2, BufferKept DEF Resolve, Timeout, Settle
<1>3. ASSUME NEW r \in Requests, NEW s \in Provers, Prove(r, s) \/ Verify(r, s)
      PROVE  BufferInv'
    BY <1>3, BufferKept DEF Prove, Verify
<1>4. CASE (\E l \in Limited : Reserve(l)) \/ UNCHANGED vars
    BY <1>4, BufferKept DEF Reserve, vars
<1>5. ASSUME NEW r \in Requests, Enqueue(r) PROVE BufferInv'
    <2>1. /\ pc[r] = "ready" /\ pc' = [pc EXCEPT ![r] = "queued"] /\ hand' = hand
          /\ queue' = Append(queue, r) /\ BufferInUse < BufferBound
        BY <1>5 DEF Enqueue
    <2>2. /\ Len(queue') = Len(queue) + 1 /\ queue'[Len(queue) + 1] = r
          /\ \A i \in 1..Len(queue) : queue'[i] = queue[i]
        BY <1>0, <2>1
    <2>3. ~InQueue(r) /\ hand # r
        BY <2>1 DEF BufferInv
    <2>4. \A q : InQueue(q)' <=> InQueue(q) \/ q = r
        BY <1>0, <2>2 DEF InQueue
    <2>5. \A i, j \in 1..Len(queue') : queue'[i] = queue'[j] => i = j
        BY <1>0, <2>2, <2>3 DEF BufferInv, InQueue
    <2>6. BufferInUse' <= BufferBound
        BY <1>0, <2>1, <2>2 DEF BufferInUse
    <2>7. ASSUME NEW q \in Requests
          PROVE  /\ pc'[q] = "queued" => InQueue(q)' \/ hand' = q
                 /\ InQueue(q)' \/ hand' = q => pc'[q] \in {"queued", "cancelled"}
        BY <1>0, <2>1, <2>3, <2>4 DEF BufferInv
    <2>8. ~InQueue(hand)'
        BY <2>1, <2>3, <2>4 DEF BufferInv, InQueue
    <2> QED BY <2>5, <2>6, <2>7, <2>8 DEF BufferInv
<1>6. CASE WorkerTake
    <2> DEFINE h == Head(queue)
    <2>1. /\ hand = NoRequest /\ queue # <<>> /\ queue' = Tail(queue) /\ pc' = pc
          /\ hand' = IF pc[h] = "queued" THEN h ELSE hand
        BY <1>6 DEF WorkerTake
    <2>2. /\ Len(queue) > 0 /\ h = queue[1] /\ h \in Requests /\ Len(queue') = Len(queue) - 1
          /\ \A i \in 1..Len(queue) - 1 : queue'[i] = queue[i + 1]
        BY <1>0, <2>1
    <2> HIDE DEF h
    <2>3. InQueue(h) /\ pc[h] \in {"queued", "cancelled"}
        BY <1>0, <2>2 DEF InQueue, BufferInv
    <2>4. \A q : InQueue(q)' => InQueue(q) /\ q # h
        <3> SUFFICES ASSUME NEW q, NEW i \in 1..Len(queue'), queue'[i] = q
                     PROVE  InQueue(q) /\ q # h
            BY DEF InQueue
        <3>1. i + 1 \in 1..Len(queue) /\ queue[i + 1] = q /\ i + 1 # 1 /\ 1 \in 1..Len(queue)
            BY <1>0, <2>2
        <3> QED BY <2>2, <3>1 DEF InQueue, BufferInv
    <2>5. \A q : InQueue(q) /\ q # h => InQueue(q)'
        <3> SUFFICES ASSUME NEW q, NEW i \in 1..Len(queue), queue[i] = q, q # h
                     PROVE  InQueue(q)'
            BY DEF InQueue
        <3>1. i - 1 \in 1..Len(queue') /\ queue'[i - 1] = q
            BY <1>0, <2>2
        <3> QED BY <3>1 DEF InQueue
    <2>6. \A i, j \in 1..Len(queue') : queue'[i] = queue'[j] => i = j
        <3> SUFFICES ASSUME NEW i \in 1..Len(queue'), NEW j \in 1..Len(queue'),
                            queue'[i] = queue'[j]
                     PROVE  i = j
            OBVIOUS
        <3>1. i + 1 \in 1..Len(queue) /\ j + 1 \in 1..Len(queue) /\ queue[i + 1] = queue[j + 1]
            BY <1>0, <2>2
        <3>2. i + 1 = j + 1
            BY <3>1 DEF BufferInv
        <3> QED BY <3>2
    <2>7. BufferInUse' <= BufferBound
        BY <1>0, <2>1, <2>2 DEF BufferInUse, BufferInv
    <2>8. ASSUME NEW q \in Requests
          PROVE  /\ pc'[q] = "queued" => InQueue(q)' \/ hand' = q
                 /\ InQueue(q)' \/ hand' = q => pc'[q] \in {"queued", "cancelled"}
        BY <1>0, <2>1, <2>2, <2>3, <2>4, <2>5 DEF BufferInv
    <2>9. ~InQueue(hand)'
        BY <1>0, <2>1, <2>2, <2>4 DEF BufferInv, InQueue
    <2> QED BY <2>6, <2>7, <2>8, <2>9 DEF BufferInv
<1>7. CASE WorkerDrop \/ WorkerCall
    <2>1. /\ hand # NoRequest /\ hand \in Requests /\ hand' = NoRequest /\ queue' = queue
          /\ \/ pc[hand] = "cancelled" /\ pc' = pc
             \/ pc[hand] = "queued" /\ pc' = [pc EXCEPT ![hand] = "wait"]
        BY <1>0, <1>7 DEF WorkerDrop, WorkerCall
    <2>2. \A q : InQueue(q)' <=> InQueue(q)
        BY <2>1 DEF InQueue
    <2>3. ~InQueue(hand) /\ ~InQueue(NoRequest)
        BY <1>0 DEF BufferInv, InQueue
    <2>4. BufferInUse' <= BufferBound
        BY <1>0, <2>1 DEF BufferInUse, BufferInv
    <2>5. ASSUME NEW q \in Requests
          PROVE  /\ pc'[q] = "queued" => InQueue(q)' \/ hand' = q
                 /\ InQueue(q)' \/ hand' = q => pc'[q] \in {"queued", "cancelled"}
        BY <1>0, <2>1, <2>2, <2>3 DEF BufferInv
    <2>6. ~InQueue(hand)'
        BY <2>1, <2>3 DEF InQueue
    <2> QED BY <2>1, <2>4, <2>5, <2>6 DEF BufferInv
<1> QED BY <1>1, <1>2, <1>3, <1>4, <1>5, <1>6, <1>7 DEF Next, Worker

\* The Buffer neither loses nor repeats a message, whatever callers leave while their
\* message is queued or in the worker's hand, and stays within its bound.
THEOREM BufferCorrect == Spec => []BufferFaithful
<1>1. Init => BufferInv
    BY RequestsAssumption, BufferAssumption DEF Init, BufferInv, InQueue, BufferInUse
<1>2. TypeOK /\ BufferInv /\ [Next]_vars => BufferInv'
    BY BufferStep
<1>3. TypeOK /\ BufferInv => BufferFaithful
    <2> SUFFICES ASSUME TypeOK, BufferInv, NEW r \in Requests
                 PROVE  /\ pc[r] = "queued" => Occurrences(r) = 1
                        /\ pc[r] \notin {"queued", "cancelled"} => Occurrences(r) = 0
                        /\ Occurrences(r) <= 1
        BY DEF BufferFaithful, BufferInv
    <2> DEFINE At == {i \in 1..Len(queue) : queue[i] = r}
    <2>1. CASE InQueue(r)
        <3>1. PICK i \in 1..Len(queue) : queue[i] = r
            BY <2>1 DEF InQueue
        <3>2. At = {i}
            BY <3>1 DEF BufferInv
        <3>3. Cardinality(At) = 1
            BY <3>2, FS_Singleton
        <3>4. hand # r
            BY <2>1 DEF BufferInv
        <3> QED BY <2>1, <3>3, <3>4 DEF Occurrences, BufferInv
    <2>2. CASE ~InQueue(r)
        <3>1. At = {}
            BY <2>2 DEF InQueue
        <3>2. Cardinality(At) = 0
            BY <3>1, FS_EmptySet
        <3> QED BY <2>2, <3>2 DEF Occurrences, BufferInv
    <2> QED BY <2>1, <2>2
<1> QED BY <1>1, <1>2, <1>3, TypeCorrect, PTL DEF Spec
=============================================================================
