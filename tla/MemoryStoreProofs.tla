--------------------------- MODULE MemoryStoreProofs ---------------------------
(***************************************************************************)
(* Theorems about the MemoryStore and its locks, for any callers and any   *)
(* calls: what a caller holds, that a half-made commit is seen by nobody,  *)
(* and that the store implements the atomic one.                           *)
(***************************************************************************)
EXTENDS MemoryStore, StoreMapsProofs

-----------------------------------------------------------------------------
(* The invariant of the locks.                                               *)

\* The answers are a function of the callers.
Answers == answer = [c \in Callers |-> answer[c]]

\* The kinds of the variables.
Kinds ==
  /\ pc \in [Callers -> {"idle", "validate", "lock", "wait", "work",
                         "insert session", "insert turn", "unlock"}]
  /\ call \in [Callers -> Calls \cup {NoCall}]
  /\ Answers
  /\ depth \in [Callers -> 0..3]
  /\ mode \in [Locks -> [Callers -> {"none", "read", "write"}]]
  /\ ahead \in [Locks -> [Callers -> SUBSET Callers]]

\* The steps of a caller that holds every lock of its operation.
Working == {"work", "insert session", "insert turn"}

Commits == {"commit_completed", "commit_terminal"}

\* The writes around the commits, and callers that make none of them.
Puts == {"put", "put_response_json", "put_turn"}
NoPuts == \A k \in Calls : k.op \notin Puts

\* The i-th lock of caller c's operation, and how many it has asked for.
PlanOf(c) == Plan(call[c].op)
Asked(c) == IF pc[c] = "wait" THEN depth[c] + 1 ELSE depth[c]

\* Where a caller is in its plan.
Progress(c) ==
  /\ pc[c] = "idle" => call[c] = NoCall /\ depth[c] = 0 /\ answer[c] = NoAnswer
  /\ pc[c] # "idle" => call[c] \in Calls /\ depth[c] <= Len(PlanOf(c))
  /\ pc[c] = "validate" => depth[c] = 0
  /\ pc[c] \in {"lock", "wait"} => depth[c] < Len(PlanOf(c))
  /\ pc[c] \in Working => depth[c] = Len(PlanOf(c))
  /\ pc[c] \in {"lock", "wait"} \cup Working => Matches(call[c])
  /\ pc[c] = "insert session" => call[c].op = "commit_completed"
  /\ pc[c] = "insert turn" => call[c].op \in Commits

\* A caller has asked for the first locks of its plan, in the plan's modes,
\* and for no other.
AsksAsPlanned(c) ==
  /\ \A i \in 1..Asked(c) : mode[PlanOf(c)[i].lock][c] = PlanOf(c)[i].mode
  /\ \A l \in Locks : mode[l][c] # "none" => \E i \in 1..Asked(c) : l = PlanOf(c)[i].lock

\* The requests for a lock are in an order: one of any two is ahead of the
\* other.
InOrder(l) ==
  \A c, d \in Callers :
    /\ d \in ahead[l][c] =>
         mode[l][c] # "none" /\ mode[l][d] # "none" /\ c \notin ahead[l][d]
    /\ mode[l][c] # "none" /\ mode[l][d] # "none" /\ c # d =>
         d \in ahead[l][c] \/ c \in ahead[l][d]

\* A caller holds every lock it has acquired, until it drops it.
HoldsAcquired(c) == \A i \in 1..depth[c] : Holds(c, PlanOf(c)[i].lock)

LInv ==
  /\ Kinds
  /\ \A c \in Callers : Progress(c) /\ AsksAsPlanned(c) /\ HoldsAcquired(c)
  /\ \A l \in Locks : InOrder(l)

-----------------------------------------------------------------------------
(* The plans.                                                                *)

\* Every operation takes one to three locks, and none of them twice.
LEMMA PlanFacts ==
  ASSUME NEW op \in Operations
  PROVE  /\ Len(Plan(op)) \in 1..3
         /\ \A i \in 1..Len(Plan(op)) :
              Plan(op)[i].lock \in Locks /\ Plan(op)[i].mode \in {"read", "write"}
         /\ \A i, j \in 1..Len(Plan(op)) : Plan(op)[i].lock = Plan(op)[j].lock => i = j
<1>1. CASE op = "commit_completed"
  BY <1>1 DEF Plan, CommitCompletedPlan, Step, Locks
<1>2. CASE op = "commit_terminal"
  BY <1>2 DEF Plan, CommitTerminalPlan, Step, Locks
<1>3. ASSUME NEW l \in Locks, NEW m \in {"read", "write"}, Plan(op) = <<Step(l, m)>>
      PROVE  /\ Len(Plan(op)) = 1
             /\ Plan(op)[1].lock = l /\ Plan(op)[1].mode = m
  BY <1>3 DEF Step
<1>4. CASE op = "get"
  BY <1>3, <1>4 DEF Plan, Locks
<1>5. CASE op = "put"
  BY <1>3, <1>5 DEF Plan, Locks
<1>6. CASE op = "get_response_json"
  BY <1>3, <1>6 DEF Plan, Locks
<1>7. CASE op = "put_response_json"
  BY <1>3, <1>7 DEF Plan, Locks
<1>8. CASE op = "put_turn"
  BY <1>3, <1>8 DEF Plan, Locks
<1>9. CASE op \in {"get_turn", "count"}
  BY <1>3, <1>9 DEF Plan, Locks
<1> QED
  BY <1>1, <1>2, <1>4, <1>5, <1>6, <1>7, <1>8, <1>9 DEF Operations

\* What a commit locks: all three maps, to write them, but for the sessions
\* of commit_terminal.
LEMMA CommitPlans ==
  /\ Len(Plan("commit_completed")) = 3
  /\ Plan("commit_completed")[1] = Step("sessions", "write")
  /\ Plan("commit_completed")[2] = Step("responses", "write")
  /\ Plan("commit_completed")[3] = Step("turns", "write")
  /\ Len(Plan("commit_terminal")) = 3
  /\ Plan("commit_terminal")[1] = Step("sessions", "read")
  /\ Plan("commit_terminal")[2] = Step("responses", "write")
  /\ Plan("commit_terminal")[3] = Step("turns", "write")
BY DEF Plan, CommitCompletedPlan, CommitTerminalPlan

\* A caller in a call is in an operation, and the next lock of its plan is
\* one it has not asked for.
LEMMA InOperation ==
  ASSUME LInv, NEW c \in Callers, pc[c] # "idle"
  PROVE  /\ call[c] \in Calls
         /\ call[c].op \in Operations
         /\ Len(PlanOf(c)) \in 1..3
         /\ \A i \in 1..Len(PlanOf(c)) :
              PlanOf(c)[i].lock \in Locks /\ PlanOf(c)[i].mode \in {"read", "write"}
         /\ \A i, j \in 1..Len(PlanOf(c)) : PlanOf(c)[i].lock = PlanOf(c)[j].lock => i = j
         /\ depth[c] \in 0..Len(PlanOf(c))
<1>1. call[c] \in Calls /\ depth[c] <= Len(PlanOf(c)) /\ depth[c] \in 0..3
  BY DEF LInv, Progress, Kinds
<1>2. call[c].op \in Operations
  BY <1>1, CallsAssumption
<1> QED
  BY <1>1, <1>2, PlanFacts DEF PlanOf

LEMMA KindsOf ==
  ASSUME LInv, NEW c \in Callers
  PROVE  /\ depth[c] \in 0..3
         /\ Asked(c) \in {depth[c], depth[c] + 1}
         /\ Progress(c) /\ AsksAsPlanned(c) /\ HoldsAcquired(c)
         /\ \A l \in Locks : ahead[l][c] \subseteq Callers
<1>1. depth \in [Callers -> 0..3] /\ ahead \in [Locks -> [Callers -> SUBSET Callers]]
  BY DEF LInv, Kinds
<1>2. Progress(c) /\ AsksAsPlanned(c) /\ HoldsAcquired(c)
  BY DEF LInv
<1> QED
  BY <1>1, <1>2 DEF Asked

-----------------------------------------------------------------------------
(* Every step keeps the kinds, and moves its own caller only.                *)

\* A step of caller c.
Moves(c) ==
  \/ \E k \in Calls : Invoke(c, k)
  \/ CallStep(c)
  \/ Cancel(c)

\* The steps of a call that neither take nor drop a lock.
Quiet(c) ==
  \/ Validate(c)
  \/ CommitChecks(c)
  \/ CompletedResponse(c)
  \/ CompletedSession(c)
  \/ TerminalResponse(c)
  \/ InsertTurn(c)
  \/ Read(c)
  \/ PutSession(c)
  \/ PutResponseJson(c)
  \/ PutTurn(c)

LEMMA StepsOfACall ==
  ASSUME NEW c
  PROVE  CallStep(c) <=> Quiet(c) \/ Lock(c) \/ Acquire(c) \/ Unlock(c) \/ Return(c)
BY DEF CallStep, Quiet

\* What every quiet step has in common.
LEMMA QuietShape ==
  ASSUME Kinds, NEW c \in Callers, Quiet(c)
  PROVE  /\ pc[c] \in {"validate"} \cup Working
         /\ pc' = [pc EXCEPT ![c] = pc'[c]]
         /\ pc'[c] \in {"lock", "insert session", "insert turn", "unlock"}
         /\ call' = call /\ depth' = depth /\ mode' = mode /\ ahead' = ahead
         /\ answer' = [answer EXCEPT ![c] = answer'[c]]
<1> USE DEF Kinds, Answers, Go, Finish, Working, locks
<1>1. CASE Validate(c)
  BY <1>1 DEF Validate
<1>2. CASE CommitChecks(c)
  BY <1>2 DEF CommitChecks
<1>3. CASE CompletedResponse(c) \/ CompletedSession(c)
  BY <1>3 DEF CompletedResponse, CompletedSession
<1>4. CASE TerminalResponse(c) \/ InsertTurn(c)
  BY <1>4 DEF TerminalResponse, InsertTurn
<1>5. CASE Read(c)
  BY <1>5 DEF Read
<1>6. CASE PutSession(c) \/ PutResponseJson(c) \/ PutTurn(c)
  BY <1>6 DEF PutSession, PutResponseJson, PutTurn
<1> QED
  BY <1>1, <1>2, <1>3, <1>4, <1>5, <1>6 DEF Quiet

LEMMA OthersStay ==
  ASSUME Kinds, NEW c \in Callers, Moves(c), NEW d \in Callers, d # c
  PROVE  pc'[d] = pc[d] /\ call'[d] = call[d] /\ depth'[d] = depth[d] /\ answer'[d] = answer[d]
<1> USE DEF Kinds, Answers
<1>1. CASE \E k \in Calls : Invoke(c, k)
  BY <1>1 DEF Invoke
<1>2. CASE Quiet(c)
  BY <1>2, QuietShape
<1>3. CASE Lock(c) \/ Cancel(c)
  BY <1>3 DEF Lock, Cancel, Go, Finish
<1>4. CASE Acquire(c) \/ Unlock(c) \/ Return(c)
  BY <1>4 DEF Acquire, Unlock, Return
<1> QED
  BY <1>1, <1>2, <1>3, <1>4, StepsOfACall DEF Moves

\* The lock that a caller waits for or is about to ask for.
LEMMA NextStepFacts ==
  ASSUME LInv, NEW c \in Callers, pc[c] \in {"lock", "wait"}
  PROVE  /\ depth[c] + 1 \in 1..Len(PlanOf(c))
         /\ NextStep(c) = PlanOf(c)[depth[c] + 1]
         /\ NextStep(c).lock \in Locks
         /\ NextStep(c).mode \in {"read", "write"}
<1>1. depth[c] < Len(PlanOf(c))
  BY DEF LInv, Progress
<1>2. depth[c] + 1 \in 1..Len(PlanOf(c))
  BY <1>1, InOperation
<1> QED
  BY <1>2, InOperation DEF NextStep, PlanOf

LEMMA KindsStep ==
  ASSUME LInv, NEW c \in Callers, Moves(c)
  PROVE  Kinds'
<1>1. CASE \E k \in Calls : Invoke(c, k)
  BY <1>1 DEF LInv, Kinds, Answers, Invoke, locks
<1>2. CASE Quiet(c)
  BY <1>2, QuietShape DEF LInv, Kinds, Answers
<1>3. CASE Lock(c)
  BY <1>3, NextStepFacts DEF LInv, Kinds, Answers, Lock, Go, Request, Requested
<1>4. CASE Acquire(c)
  <2>1. depth[c] + 1 \in 0..3
    BY <1>4, NextStepFacts, InOperation DEF Acquire
  <2> QED
    BY <1>4, <2>1 DEF LInv, Kinds, Answers, Acquire, locks
<1>5. CASE Cancel(c)
  BY <1>5, NextStepFacts DEF LInv, Kinds, Answers, Cancel, Finish, Go, Leave
<1>6. CASE Unlock(c)
  <2>1. /\ pc[c] # "idle" /\ depth[c] > 0
        /\ depth' = [depth EXCEPT ![c] = depth[c] - 1]
        /\ Leave(c, PlanOf(c)[depth[c]].lock)
        /\ pc' = pc /\ call' = call /\ answer' = answer
    BY <1>6 DEF Unlock, PlanOf
  <2>2. depth[c] \in 1..Len(PlanOf(c)) /\ Len(PlanOf(c)) \in 1..3
    BY <2>1, InOperation
  <2>3. depth[c] - 1 \in 0..3 /\ PlanOf(c)[depth[c]].lock \in Locks
    BY <2>1, <2>2, InOperation
  <2> QED
    BY <2>1, <2>3 DEF LInv, Kinds, Answers, Leave
<1>7. CASE Return(c)
  BY <1>7 DEF LInv, Kinds, Answers, Return, locks
<1> QED
  BY <1>1, <1>2, <1>3, <1>4, <1>5, <1>6, <1>7, StepsOfACall DEF Moves

\* Every step takes its caller one place further in its operation.
LEMMA OwnProgress ==
  ASSUME LInv, NEW c \in Callers, Moves(c)
  PROVE  Progress(c)'
<1> USE DEF Working
<1>0. Progress(c)
  BY DEF LInv
<1>1. CASE \E k \in Calls : Invoke(c, k)
  <2>1. PICK k \in Calls : Invoke(c, k)
    BY <1>1
  <2>2. /\ pc'[c] = "validate" /\ call'[c] = k /\ depth'[c] = 0
    BY <1>0, <2>1 DEF Invoke, LInv, Kinds, Progress
  <2>3. PlanOf(c)' = Plan(k.op) /\ Len(Plan(k.op)) \in 1..3
    BY <2>2, PlanFacts, CallsAssumption DEF PlanOf
  <2> QED
    BY <2>2, <2>3 DEF Progress
<1>2. CASE Quiet(c)
  <2>1. /\ pc[c] # "idle" /\ call'[c] = call[c] /\ depth'[c] = depth[c]
        /\ pc[c] \in {"validate"} \cup Working
        /\ pc'[c] \in {"lock", "insert session", "insert turn", "unlock"}
    BY <1>2, QuietShape DEF LInv
  <2>2. /\ PlanOf(c)' = PlanOf(c) /\ Len(PlanOf(c)) \in 1..3
        /\ Matches(call[c])' = Matches(call[c])
    BY <2>1, InOperation DEF PlanOf, Matches
  <2>3. CASE Validate(c)
    <3>1. pc'[c] = "lock" => Matches(call[c])
      BY <2>1, <2>3 DEF Validate, Go, Finish, LInv, Kinds
    <3>2. pc[c] = "validate" /\ pc'[c] \in {"lock", "unlock"}
      BY <2>1, <2>3 DEF Validate, Go, Finish, LInv, Kinds
    <3>3. depth'[c] = 0
      BY <1>0, <2>1, <3>2 DEF Progress
    <3>4. 0 < Len(PlanOf(c)')
      BY <2>2
    <3> QED
      BY <1>0, <2>1, <2>2, <3>1, <3>2, <3>3, <3>4 DEF Progress
  <2>4. CASE \/ CommitChecks(c) \/ Read(c) \/ InsertTurn(c)
             \/ PutSession(c) \/ PutResponseJson(c) \/ PutTurn(c)
    <3>1. pc'[c] = "unlock"
      BY <2>4 DEF CommitChecks, Read, PutSession, PutResponseJson, PutTurn, InsertTurn,
                  Finish, Go, LInv, Kinds
    <3> QED
      BY <1>0, <2>1, <2>2, <3>1 DEF Progress
  <2>5. CASE CompletedResponse(c) \/ CompletedSession(c) \/ TerminalResponse(c)
    <3>1. /\ pc[c] \in Working /\ pc'[c] \in {"insert session", "insert turn"}
          /\ pc'[c] = "insert session" => call[c].op = "commit_completed"
          /\ call[c].op \in Commits
      BY <1>0, <2>5 DEF CompletedResponse, CompletedSession, TerminalResponse, Go, Commits,
                        LInv, Kinds, Progress
    <3> QED
      BY <1>0, <2>1, <2>2, <3>1 DEF Progress
  <2> QED
    BY <1>2, <2>3, <2>4, <2>5 DEF Quiet
<1>3. CASE Lock(c)
  <2>1. pc'[c] = "wait" /\ pc[c] = "lock" /\ call'[c] = call[c] /\ depth'[c] = depth[c]
    BY <1>3 DEF Lock, Go, LInv, Kinds
  <2> QED
    BY <1>0, <2>1 DEF PlanOf, Matches, Progress
<1>4. CASE Acquire(c)
  <2>1. /\ pc[c] = "wait" /\ call'[c] = call[c] /\ depth'[c] = depth[c] + 1
        /\ pc'[c] = IF depth'[c] = Len(PlanOf(c)) THEN "work" ELSE "lock"
    BY <1>4 DEF Acquire, PlanOf, LInv, Kinds
  <2>2. /\ depth[c] + 1 \in 1..Len(PlanOf(c)) /\ Len(PlanOf(c)) \in 1..3
        /\ PlanOf(c)' = PlanOf(c) /\ Matches(call[c])' = Matches(call[c])
    BY <2>1, NextStepFacts, InOperation DEF PlanOf, Matches
  <2> QED
    BY <1>0, <2>1, <2>2 DEF Progress
<1>5. CASE Cancel(c) \/ Unlock(c)
  <2>1. /\ pc'[c] = "unlock" /\ pc[c] # "idle" /\ call'[c] = call[c]
        /\ depth'[c] = depth[c] \/ depth'[c] = depth[c] - 1
    BY <1>5 DEF Cancel, Unlock, Finish, Go, LInv, Kinds
  <2>2. PlanOf(c)' = PlanOf(c) /\ Len(PlanOf(c)) \in 1..3 /\ depth[c] \in 0..Len(PlanOf(c))
    BY <2>1, InOperation DEF PlanOf
  <2>3. depth'[c] <= Len(PlanOf(c)') /\ call'[c] \in Calls
    BY <2>1, <2>2, InOperation
  <2> QED
    BY <2>1, <2>3 DEF Progress
<1>6. CASE Return(c)
  <2>1. pc'[c] = "idle" /\ call'[c] = NoCall /\ depth'[c] = 0 /\ answer'[c] = NoAnswer
    BY <1>6 DEF Return, LInv, Kinds, Answers
  <2> QED
    BY <2>1 DEF Progress
<1> QED
  BY <1>1, <1>2, <1>3, <1>4, <1>5, <1>6, StepsOfACall DEF Moves

LEMMA ProgressStep ==
  ASSUME LInv, NEW c \in Callers, Moves(c), NEW d \in Callers
  PROVE  Progress(d)'
<1>1. CASE d = c
  BY <1>1, OwnProgress
<1>2. CASE d # c
  <2>1. pc'[d] = pc[d] /\ call'[d] = call[d] /\ depth'[d] = depth[d] /\ answer'[d] = answer[d]
    BY <1>2, OthersStay DEF LInv
  <2>2. Progress(d) /\ PlanOf(d)' = PlanOf(d) /\ Matches(call[d])' = Matches(call[d])
    BY <2>1 DEF LInv, PlanOf, Matches
  <2> QED
    BY <2>1, <2>2 DEF Progress
<1> QED
  BY <1>1, <1>2

\* A lock that a caller has asked for is one of its plan's.
LEMMA AskedInPlan ==
  ASSUME LInv, NEW c \in Callers, NEW i \in 1..Asked(c)
  PROVE  /\ pc[c] # "idle"
         /\ i \in 1..Len(PlanOf(c))
         /\ PlanOf(c)[i].lock \in Locks
<1>0. pc[c] = "idle" => depth[c] = 0
  BY KindsOf DEF Progress
<1>1. depth[c] \in 0..3 /\ Asked(c) \in 0..4
  BY KindsOf
<1>2. pc[c] # "idle"
  BY <1>0, <1>1 DEF Asked
<1>3. Asked(c) <= Len(PlanOf(c)) /\ Len(PlanOf(c)) \in 1..3
  <2>1. CASE pc[c] = "wait"
    BY <2>1, InOperation, NextStepFacts DEF Asked
  <2>2. CASE pc[c] # "wait"
    BY <1>2, <2>2, InOperation DEF Asked
  <2> QED
    BY <2>1, <2>2
<1>4. i \in 1..Len(PlanOf(c))
  BY <1>1, <1>3
<1> QED
  BY <1>2, <1>4, InOperation

LEMMA AcquiredInPlan ==
  ASSUME LInv, NEW c \in Callers, NEW i \in 1..depth[c]
  PROVE  /\ pc[c] # "idle"
         /\ i \in 1..Asked(c)
         /\ i \in 1..Len(PlanOf(c))
         /\ PlanOf(c)[i].lock \in Locks
<1>1. i \in 1..Asked(c)
  BY KindsOf
<1> QED
  BY <1>1, AskedInPlan

-----------------------------------------------------------------------------
(* Every step keeps the order of the requests, and every guard.              *)

\* A step that leaves the locks alone, and asks for none.
LEMMA LocksStay ==
  ASSUME LInv, NEW c \in Callers, Moves(c), UNCHANGED locks,
         depth'[c] = depth[c], Asked(c)' = Asked(c),
         depth[c] = 0 \/ call'[c] = call[c],
         Asked(c) = 0 \/ call'[c] = call[c]
  PROVE  /\ \A d \in Callers : AsksAsPlanned(d)' /\ HoldsAcquired(d)'
         /\ \A l \in Locks : InOrder(l)'
<1>1. mode' = mode /\ ahead' = ahead
  BY DEF locks
<1>2. ASSUME NEW d \in Callers PROVE AsksAsPlanned(d)' /\ HoldsAcquired(d)'
  <2>1. /\ depth'[d] = depth[d] /\ Asked(d)' = Asked(d)
        /\ depth[d] = 0 \/ PlanOf(d)' = PlanOf(d)
        /\ Asked(d) = 0 \/ PlanOf(d)' = PlanOf(d)
    BY <1>2, OthersStay DEF Asked, PlanOf, LInv
  <2>2. AsksAsPlanned(d) /\ HoldsAcquired(d)
    BY DEF LInv
  <2>3. AsksAsPlanned(d)'
    BY <1>1, <2>1, <2>2 DEF AsksAsPlanned
  <2>4. HoldsAcquired(d)'
    BY <1>1, <2>1, <2>2 DEF HoldsAcquired, Holds
  <2> QED
    BY <2>3, <2>4
<1>3. ASSUME NEW l \in Locks PROVE InOrder(l)'
  BY <1>1 DEF LInv, InOrder
<1> QED
  BY <1>2, <1>3

\* Caller c asks for a lock it has not asked for.
LEMMA RequestKeeps ==
  ASSUME LInv, NEW c \in Callers, Lock(c)
  PROVE  /\ \A d \in Callers : AsksAsPlanned(d)' /\ HoldsAcquired(d)'
         /\ \A l \in Locks : InOrder(l)'
<1> DEFINE l == NextStep(c).lock
           m == NextStep(c).mode
<1>1. /\ pc[c] = "lock" /\ pc'[c] = "wait" /\ call' = call /\ depth' = depth
      /\ Request(c, l, m)
      /\ \A d \in Callers : d # c => pc'[d] = pc[d]
  BY DEF Lock, Go, LInv, Kinds
<1>2. /\ l \in Locks /\ m \in {"read", "write"}
      /\ depth[c] + 1 \in 1..Len(PlanOf(c))
      /\ l = PlanOf(c)[depth[c] + 1].lock /\ m = PlanOf(c)[depth[c] + 1].mode
      /\ depth[c] \in 0..Len(PlanOf(c)) /\ Len(PlanOf(c)) \in 1..3
      /\ \A i, j \in 1..Len(PlanOf(c)) : PlanOf(c)[i].lock = PlanOf(c)[j].lock => i = j
  BY <1>1, NextStepFacts, InOperation
<1>3. Asked(c) = depth[c] /\ Asked(c)' = depth[c] + 1
  BY <1>1 DEF Asked
<1> HIDE DEF l, m
<1>4. mode[l][c] = "none"
  <2>1. \A i \in 1..depth[c] : PlanOf(c)[i].lock # l
    BY <1>2
  <2> QED
    BY <1>2, <1>3, <2>1, KindsOf DEF AsksAsPlanned
<1>5. /\ \A k \in Locks : \A d \in Callers :
           mode'[k][d] = IF k = l /\ d = c THEN m ELSE mode[k][d]
      /\ \A k \in Locks : \A d \in Callers :
           ahead'[k][d] = IF k = l /\ d = c THEN Requested(l) ELSE ahead[k][d]
  BY <1>1, <1>2 DEF Request, LInv, Kinds
<1>6. ASSUME NEW d \in Callers PROVE AsksAsPlanned(d)'
  <2>1. PlanOf(d)' = PlanOf(d) /\ AsksAsPlanned(d)
    BY <1>1 DEF PlanOf, LInv
  <2>2. \A i \in 1..Asked(d) : PlanOf(d)[i].lock \in Locks
    BY AskedInPlan
  <2>3. CASE d = c
    <3>1. \A i \in 1..depth[c] : mode'[PlanOf(c)[i].lock][c] = PlanOf(c)[i].mode
      BY <1>1, <1>2, <1>3, <1>5, <2>1, <2>2, <2>3 DEF AsksAsPlanned
    <3>2. \A i \in 1..(depth[c] + 1) : mode'[PlanOf(c)[i].lock][c] = PlanOf(c)[i].mode
      BY <1>2, <1>5, <3>1
    <3>3. \A k \in Locks : mode'[k][c] # "none" => \E i \in 1..(depth[c] + 1) : k = PlanOf(c)[i].lock
      BY <1>2, <1>3, <1>5, <2>1, <2>3 DEF AsksAsPlanned
    <3> QED
      BY <1>3, <2>1, <2>3, <3>2, <3>3 DEF AsksAsPlanned
  <2>4. CASE d # c
    <3>1. Asked(d)' = Asked(d)
      BY <1>1, <2>4 DEF Asked
    <3>2. \A k \in Locks : mode'[k][d] = mode[k][d]
      BY <1>5, <2>4
    <3> QED
      BY <2>1, <2>2, <3>1, <3>2 DEF AsksAsPlanned
  <2> QED
    BY <2>3, <2>4
<1>7. ASSUME NEW d \in Callers PROVE HoldsAcquired(d)'
  <2> SUFFICES ASSUME NEW i \in 1..depth[d]
               PROVE  Holds(d, PlanOf(d)[i].lock)'
    BY <1>1 DEF HoldsAcquired, PlanOf
  <2> DEFINE k == PlanOf(d)[i].lock
  <2>1. Holds(d, k) /\ k \in Locks
    BY AcquiredInPlan DEF LInv, HoldsAcquired
  <2>2. k' = k
    BY <1>1 DEF PlanOf
  <2> HIDE DEF k
  <2>3. mode[k][d] # "none"
    BY <2>1 DEF Holds
  <2>4. \A e \in Callers : e \in ahead[k][d] => mode[k][e] # "none"
    BY <2>1 DEF LInv, InOrder
  <2>5. ~ (k = l /\ d = c)
    BY <1>4, <2>3
  <2>6. /\ ahead'[k][d] = ahead[k][d] /\ mode'[k][d] = mode[k][d]
        /\ ahead[k][d] \subseteq Callers
    <3>1. ahead[k][d] \subseteq Callers
      BY <2>1, KindsOf
    <3> QED
      BY <1>5, <2>1, <2>5, <3>1
  <2>7. \A e \in ahead[k][d] : mode'[k][e] = mode[k][e]
    BY <1>4, <1>5, <2>1, <2>4, <2>6
  <2> QED
    BY <2>1, <2>2, <2>6, <2>7 DEF Holds, k
<1>8. ASSUME NEW k \in Locks PROVE InOrder(k)'
  <2>1. CASE k # l
    BY <1>5, <2>1 DEF LInv, InOrder
  <2>2. CASE k = l
    <3>1. InOrder(l)
      BY <1>2 DEF LInv
    <3>2. /\ mode'[l][c] # "none" /\ ahead'[l][c] = Requested(l)
          /\ \A d \in Callers : d # c => mode'[l][d] = mode[l][d] /\ ahead'[l][d] = ahead[l][d]
      BY <1>2, <1>5
    <3>3. c \notin Requested(l) /\ \A d \in Callers : c \notin ahead[l][d]
      BY <1>4, <3>1 DEF Requested, InOrder
    <3> QED
      BY <1>4, <2>2, <3>1, <3>2, <3>3 DEF InOrder, Requested
  <2> QED
    BY <2>1, <2>2
<1> QED
  BY <1>6, <1>7, <1>8

\* Caller c is granted the lock it waits for.
LEMMA AcquireKeeps ==
  ASSUME LInv, NEW c \in Callers, Acquire(c)
  PROVE  /\ \A d \in Callers : AsksAsPlanned(d)' /\ HoldsAcquired(d)'
         /\ \A l \in Locks : InOrder(l)'
<1>1. /\ pc[c] = "wait" /\ pc'[c] # "wait" /\ depth'[c] = depth[c] + 1
      /\ Holds(c, NextStep(c).lock)
      /\ call' = call /\ mode' = mode /\ ahead' = ahead
      /\ \A d \in Callers : d # c => pc'[d] = pc[d] /\ depth'[d] = depth[d]
  BY DEF Acquire, LInv, Kinds, locks
<1>2. /\ NextStep(c) = PlanOf(c)[depth[c] + 1] /\ depth[c] \in 0..3
  BY <1>1, NextStepFacts, KindsOf
<1>3. ASSUME NEW d \in Callers PROVE AsksAsPlanned(d)' /\ HoldsAcquired(d)'
  <2>1. PlanOf(d)' = PlanOf(d) /\ AsksAsPlanned(d) /\ HoldsAcquired(d)
    BY <1>1 DEF PlanOf, LInv
  <2>2. Asked(d)' = Asked(d)
    BY <1>1, <1>2 DEF Asked
  <2>3. AsksAsPlanned(d)'
    BY <1>1, <2>1, <2>2 DEF AsksAsPlanned
  <2>4. ASSUME NEW i \in 1..depth'[d] PROVE Holds(d, PlanOf(d)[i].lock)
    BY <1>1, <1>2, <2>1 DEF HoldsAcquired
  <2>5. HoldsAcquired(d)'
    BY <1>1, <2>1, <2>4 DEF HoldsAcquired, Holds
  <2> QED
    BY <2>3, <2>5
<1>4. ASSUME NEW l \in Locks PROVE InOrder(l)'
  BY <1>1 DEF LInv, InOrder
<1> QED
  BY <1>3, <1>4

\* Caller c drops the lock it asked for last: its guard, or its request.
LEMMA LeaveKeeps ==
  ASSUME LInv, NEW c \in Callers, Asked(c) > 0, Leave(c, PlanOf(c)[Asked(c)].lock),
         call' = call, Asked(c)' = Asked(c) - 1, depth'[c] = Asked(c) - 1,
         \A d \in Callers : d # c => pc'[d] = pc[d] /\ depth'[d] = depth[d]
  PROVE  /\ \A d \in Callers : AsksAsPlanned(d)' /\ HoldsAcquired(d)'
         /\ \A l \in Locks : InOrder(l)'
<1> DEFINE n == Asked(c)
           l == PlanOf(c)[n].lock
<1>1. /\ n \in 1..Len(PlanOf(c)) /\ n \in 1..n /\ l \in Locks
      /\ \A i, j \in 1..Len(PlanOf(c)) : PlanOf(c)[i].lock = PlanOf(c)[j].lock => i = j
  <2>1. n \in 1..n
    BY KindsOf
  <2> QED
    BY <2>1, AskedInPlan, InOperation
<1>2. \A i \in 1..(n - 1) : PlanOf(c)[i].lock # l
  <2>1. \A i \in 1..(n - 1) : i \in 1..n /\ i # n
    BY <1>1
  <2> QED
    BY <1>1, <2>1, AskedInPlan
<1>3. /\ \A k \in Locks : \A d \in Callers :
           mode'[k][d] = IF k = l /\ d = c THEN "none" ELSE mode[k][d]
      /\ \A k \in Locks : \A d \in Callers :
           ahead'[k][d] = IF k # l THEN ahead[k][d]
                          ELSE IF d = c THEN {} ELSE ahead[k][d] \ {c}
  BY <1>1 DEF Leave, LInv, Kinds
<1>4. n = Asked(c) /\ n \in 1..4 /\ depth[c] \in {n, n - 1}
  <2>1. depth[c] \in 0..3 /\ n \in {depth[c], depth[c] + 1}
    BY KindsOf
  <2> QED
    BY <2>1
<1> HIDE DEF n, l
<1>5. ASSUME NEW d \in Callers PROVE AsksAsPlanned(d)'
  <2>1. PlanOf(d)' = PlanOf(d) /\ AsksAsPlanned(d)
    BY DEF PlanOf, LInv
  <2>2. \A i \in 1..Asked(d) : PlanOf(d)[i].lock \in Locks
    BY AskedInPlan
  <2>3. CASE d = c
    <3>1. \A i \in 1..(n - 1) : i \in 1..n
      BY <1>4
    <3>2. \A i \in 1..(n - 1) : mode'[PlanOf(c)[i].lock][c] = PlanOf(c)[i].mode
      BY <1>2, <1>3, <1>4, <2>1, <2>2, <2>3, <3>1 DEF AsksAsPlanned
    <3>3. ASSUME NEW k \in Locks, mode'[k][c] # "none"
          PROVE  \E i \in 1..(n - 1) : k = PlanOf(c)[i].lock
      <4>1. k # l /\ mode[k][c] # "none"
        BY <1>3, <3>3
      <4>2. PICK i \in 1..n : k = PlanOf(c)[i].lock
        BY <1>4, <2>1, <2>3, <4>1 DEF AsksAsPlanned
      <4>3. i # n
        BY <4>1, <4>2 DEF l
      <4> QED
        BY <1>4, <4>2, <4>3
    <3> QED
      BY <1>4, <2>1, <2>3, <3>2, <3>3 DEF AsksAsPlanned
  <2>4. CASE d # c
    <3>1. Asked(d)' = Asked(d)
      BY <2>4 DEF Asked
    <3>2. \A k \in Locks : mode'[k][d] = mode[k][d]
      BY <1>3, <2>4
    <3> QED
      BY <2>1, <2>2, <3>1, <3>2 DEF AsksAsPlanned
  <2> QED
    BY <2>3, <2>4
<1>6. ASSUME NEW d \in Callers PROVE HoldsAcquired(d)'
  <2> SUFFICES ASSUME NEW i \in 1..depth'[d]
               PROVE  Holds(d, PlanOf(d)[i].lock)'
    BY DEF HoldsAcquired, PlanOf
  <2> DEFINE k == PlanOf(d)[i].lock
  <2>1. i \in 1..depth[d] /\ (d = c => i \in 1..(n - 1))
    BY <1>4
  <2>2. Holds(d, k) /\ k \in Locks /\ ahead[k][d] \subseteq Callers
    BY <2>1, AcquiredInPlan, KindsOf DEF HoldsAcquired
  <2>3. k' = k /\ (d = c => k # l)
    BY <1>2, <2>1 DEF PlanOf
  <2> HIDE DEF k
  <2>4. ~ (k = l /\ d = c)
    BY <2>3
  <2>5. mode'[k][d] = mode[k][d] /\ ahead'[k][d] \subseteq ahead[k][d]
    BY <1>3, <2>2, <2>4
  <2>6. \A e \in ahead'[k][d] : mode'[k][e] = mode[k][e]
    <3>1. CASE k = l
      BY <1>3, <2>2, <2>4, <2>5, <3>1
    <3>2. CASE k # l
      BY <1>3, <2>2, <2>5, <3>2
    <3> QED
      BY <3>1, <3>2
  <2> QED
    BY <2>2, <2>3, <2>5, <2>6 DEF Holds, k
<1>7. ASSUME NEW k \in Locks PROVE InOrder(k)'
  <2>1. CASE k # l
    <3>1. InOrder(k)
      BY DEF LInv
    <3>2. \A d \in Callers : mode'[k][d] = mode[k][d] /\ ahead'[k][d] = ahead[k][d]
      BY <1>3, <2>1
    <3> QED
      BY <3>1, <3>2 DEF InOrder
  <2>2. CASE k = l
    <3>1. InOrder(l)
      BY <1>1 DEF LInv
    <3>2. /\ mode'[l][c] = "none" /\ ahead'[l][c] = {}
          /\ \A d \in Callers : d # c =>
               mode'[l][d] = mode[l][d] /\ ahead'[l][d] = ahead[l][d] \ {c}
      BY <1>1, <1>3
    <3> QED
      BY <2>2, <3>1, <3>2 DEF InOrder
  <2> QED
    BY <2>1, <2>2
<1> QED
  BY <1>5, <1>6, <1>7

LEMMA LInvStep ==
  ASSUME LInv, NEW c \in Callers, Moves(c)
  PROVE  LInv'
<1> SUFFICES /\ \A d \in Callers : AsksAsPlanned(d)' /\ HoldsAcquired(d)'
             /\ \A l \in Locks : InOrder(l)'
  <2>1. Locks' = Locks /\ Callers' = Callers
    BY DEF Locks
  <2> QED
    BY <2>1, KindsStep, ProgressStep DEF LInv
<1>1. CASE \E k \in Calls : Invoke(c, k)
  <2>1. depth[c] = 0 /\ Asked(c) = 0 /\ Asked(c)' = 0 /\ depth'[c] = depth[c]
    BY <1>1, KindsOf DEF Invoke, Progress, Asked, LInv, Kinds
  <2> QED
    BY <1>1, <2>1, LocksStay DEF Invoke
<1>2. CASE Quiet(c)
  <2>1. /\ call' = call /\ depth' = depth /\ UNCHANGED locks
        /\ pc[c] # "wait" /\ pc'[c] # "wait"
    BY <1>2, QuietShape DEF locks, Working, LInv
  <2> QED
    BY <2>1, LocksStay DEF Asked
<1>3. CASE Lock(c)
  BY <1>3, RequestKeeps
<1>4. CASE Acquire(c)
  BY <1>4, AcquireKeeps
<1>5. CASE Cancel(c)
  <2>1. /\ pc[c] = "wait" /\ pc'[c] = "unlock" /\ call' = call /\ depth' = depth
        /\ \A d \in Callers : d # c => pc'[d] = pc[d]
        /\ Leave(c, NextStep(c).lock)
    BY <1>5 DEF Cancel, Finish, Go, LInv, Kinds
  <2>2. depth[c] \in 0..3 /\ NextStep(c).lock = PlanOf(c)[depth[c] + 1].lock
    BY <2>1, NextStepFacts, KindsOf
  <2>3. Asked(c) = depth[c] + 1 /\ Asked(c)' = depth[c]
    BY <2>1 DEF Asked
  <2>4. Asked(c) > 0 /\ Asked(c) - 1 = depth[c]
    BY <2>2, <2>3
  <2>5. Leave(c, PlanOf(c)[Asked(c)].lock) /\ depth'[c] = depth[c]
    BY <2>1, <2>2, <2>3
  <2> QED
    BY <2>1, <2>3, <2>4, <2>5, LeaveKeeps
<1>6. CASE Unlock(c)
  <2>1. /\ pc[c] = "unlock" /\ pc' = pc /\ call' = call /\ depth[c] > 0
        /\ depth' = [depth EXCEPT ![c] = depth[c] - 1]
        /\ Leave(c, PlanOf(c)[depth[c]].lock)
    BY <1>6 DEF Unlock, PlanOf
  <2>2. depth[c] \in 0..3 /\ Asked(c) = depth[c] /\ Asked(c)' = depth[c] - 1
        /\ depth'[c] = depth[c] - 1 /\ \A d \in Callers : d # c => depth'[d] = depth[d]
    BY <2>1 DEF Asked, LInv, Kinds
  <2> QED
    BY <2>1, <2>2, LeaveKeeps
<1>7. CASE Return(c)
  <2>1. depth[c] = 0 /\ Asked(c) = 0 /\ Asked(c)' = 0 /\ depth'[c] = depth[c]
    BY <1>7 DEF Return, Asked, LInv, Kinds
  <2> QED
    BY <1>7, <2>1, LocksStay DEF Return
<1> QED
  BY <1>1, <1>2, <1>3, <1>4, <1>5, <1>6, <1>7, StepsOfACall DEF Moves

LEMMA LInvInit == Init => LInv
<1> SUFFICES ASSUME Init PROVE LInv
  OBVIOUS
<1>1. Kinds
  BY DEF Init, Kinds, Answers, Locks
<1>2. \A c \in Callers : pc[c] = "idle" /\ call[c] = NoCall /\ depth[c] = 0 /\ answer[c] = NoAnswer
  BY DEF Init
<1>3. \A l \in Locks : \A c \in Callers : mode[l][c] = "none" /\ ahead[l][c] = {}
  BY DEF Init
<1>4. ASSUME NEW c \in Callers PROVE Progress(c) /\ AsksAsPlanned(c) /\ HoldsAcquired(c)
  <2>1. Progress(c)
    BY <1>2 DEF Progress, Working
  <2>2. Asked(c) = 0
    BY <1>2 DEF Asked
  <2> QED
    BY <1>2, <1>3, <2>1, <2>2 DEF AsksAsPlanned, HoldsAcquired
<1>5. \A l \in Locks : InOrder(l)
  BY <1>3 DEF InOrder
<1> QED
  BY <1>1, <1>4, <1>5 DEF LInv

LEMMA NextMoves == Next <=> \E c \in Callers : Moves(c)
BY DEF Next, Moves

LEMMA LInvStutter ==
  ASSUME LInv, UNCHANGED vars
  PROVE  LInv'
<1>1. /\ pc' = pc /\ call' = call /\ answer' = answer /\ depth' = depth
      /\ mode' = mode /\ ahead' = ahead
  BY DEF vars, clientVars, locks
<1>2. Kinds'
  BY <1>1 DEF LInv, Kinds, Answers, Locks
<1>3. ASSUME NEW c \in Callers PROVE Progress(c)' /\ AsksAsPlanned(c)' /\ HoldsAcquired(c)'
  <2>1. Progress(c) /\ AsksAsPlanned(c) /\ HoldsAcquired(c)
    BY DEF LInv
  <2>2. PlanOf(c)' = PlanOf(c) /\ Asked(c)' = Asked(c) /\ Matches(call[c])' = Matches(call[c])
    BY <1>1 DEF PlanOf, Asked, Matches
  <2>3. Progress(c)'
    BY <1>1, <2>1, <2>2 DEF Progress
  <2>4. AsksAsPlanned(c)'
    BY <1>1, <2>1, <2>2 DEF AsksAsPlanned, Locks
  <2>5. HoldsAcquired(c)'
    BY <1>1, <2>1, <2>2 DEF HoldsAcquired, Holds
  <2> QED
    BY <2>3, <2>4, <2>5
<1>4. ASSUME NEW l \in Locks PROVE InOrder(l)'
  BY <1>1 DEF LInv, InOrder
<1> QED
  BY <1>2, <1>3, <1>4 DEF LInv, Locks

LEMMA LInvHolds == Spec => []LInv
<1>1. Init => LInv
  BY LInvInit
<1>2. LInv /\ [Next]_vars => LInv'
  BY LInvStep, LInvStutter, NextMoves
<1> QED
  BY <1>1, <1>2, PTL DEF Spec

-----------------------------------------------------------------------------
(* What the invariant says.                                                  *)

\* Every variable holds values of its kind, and a caller in no call has no
\* guard and no request left behind, whatever was cancelled: the locks are
\* asked for and dropped as the operations of session/mod.rs do.
THEOREM StoreTypesHold == Spec => []TypeOK
<1>1. LInv => TypeOK
  <2> SUFFICES ASSUME LInv PROVE TypeOK
    OBVIOUS
  <2>1. ASSUME NEW c \in Callers, pc[c] = "idle", NEW l \in Locks
        PROVE  mode[l][c] = "none" /\ \A d \in Callers : c \notin ahead[l][d]
    <3>1. Asked(c) = 0 /\ AsksAsPlanned(c)
      BY <2>1, KindsOf DEF Progress, Asked
    <3>2. mode[l][c] = "none"
      BY <3>1 DEF AsksAsPlanned
    <3>3. InOrder(l)
      BY DEF LInv
    <3> QED
      BY <3>2, <3>3 DEF InOrder
  <2> QED
    BY <2>1 DEF LInv, Kinds, TypeOK
<1> QED
  BY <1>1, LInvHolds, PTL

\* A write guard is alone.
LEMMA WriteIsAlone ==
  ASSUME LInv, NEW l \in Locks, NEW c \in Callers, NEW d \in Callers, c # d,
         Holds(c, l), mode[l][c] = "write", Holds(d, l)
  PROVE  FALSE
<1>1. ahead[l][c] = {} /\ mode[l][d] # "none" /\ mode[l][c] # "none"
  BY DEF Holds
<1>2. InOrder(l)
  BY DEF LInv
<1>3. c \in ahead[l][d]
  BY <1>1, <1>2 DEF InOrder
<1> QED
  BY <1>3 DEF Holds

\* A caller that works holds every lock of its plan, in the plan's mode.
LEMMA WorkingHolds ==
  ASSUME LInv, NEW c \in Callers, pc[c] \in Working
  PROVE  /\ call[c].op \in Operations
         /\ 1 \in 1..Len(PlanOf(c))
         /\ \A i \in 1..Len(PlanOf(c)) :
              /\ PlanOf(c)[i].lock \in Locks
              /\ Holds(c, PlanOf(c)[i].lock)
              /\ mode[PlanOf(c)[i].lock][c] = PlanOf(c)[i].mode
<1>1. depth[c] = Len(PlanOf(c)) /\ Asked(c) = depth[c] /\ pc[c] # "idle"
  BY KindsOf DEF Progress, Working, Asked
<1>2. HoldsAcquired(c) /\ AsksAsPlanned(c)
  BY KindsOf
<1>3. /\ call[c].op \in Operations /\ Len(PlanOf(c)) \in 1..3
      /\ \A i \in 1..Len(PlanOf(c)) : PlanOf(c)[i].lock \in Locks
  BY <1>1, InOperation
<1>4. \A i \in 1..Len(PlanOf(c)) : Holds(c, PlanOf(c)[i].lock)
  BY <1>1, <1>2 DEF HoldsAcquired
<1>5. \A i \in 1..Len(PlanOf(c)) : mode[PlanOf(c)[i].lock][c] = PlanOf(c)[i].mode
  BY <1>1, <1>2 DEF AsksAsPlanned
<1> QED
  BY <1>3, <1>4, <1>5

\* What the operations other than the commits lock.
LEMMA OtherPlans ==
  ASSUME NEW op \in Operations, op \notin Commits
  PROVE  /\ Plan(op)[1].lock = "sessions" => op \in {"get", "put"}
         /\ op = "get" => Plan(op)[1] = Step("sessions", "read")
         /\ op = "put" => Plan(op)[1] = Step("sessions", "write")
         /\ op \in {"get_response_json", "put_response_json"} => Plan(op)[1].lock = "responses"
         /\ op \in {"get_turn", "put_turn", "count"} => Plan(op)[1].lock = "turns"
<1>1. CASE op \in {"get", "put"}
  BY <1>1 DEF Plan, Step
<1>2. CASE op = "get_response_json"
  BY <1>2 DEF Plan, Step
<1>3. CASE op = "put_response_json"
  BY <1>3 DEF Plan, Step
<1>4. CASE op = "put_turn"
  BY <1>4 DEF Plan, Step
<1>5. CASE op \in {"get_turn", "count"}
  BY <1>5 DEF Plan, Step
<1> QED
  BY <1>1, <1>2, <1>3, <1>4, <1>5 DEF Operations, Commits

\* A commit that works holds the responses and the turns alone, and
\* commit_completed the sessions as well.
LEMMA CommitHolds ==
  ASSUME LInv, NEW c \in Callers, pc[c] \in Working, call[c].op \in Commits
  PROVE  /\ \A l \in Locks : Holds(c, l)
         /\ mode["responses"][c] = "write" /\ mode["turns"][c] = "write"
         /\ call[c].op = "commit_completed" => mode["sessions"][c] = "write"
<1>1. /\ Len(PlanOf(c)) = 3
      /\ PlanOf(c)[1].lock = "sessions" /\ PlanOf(c)[2] = Step("responses", "write")
      /\ PlanOf(c)[3] = Step("turns", "write")
      /\ call[c].op = "commit_completed" => PlanOf(c)[1].mode = "write"
  BY CommitPlans DEF PlanOf, Commits, Step
<1>2. /\ PlanOf(c)[2].lock = "responses" /\ PlanOf(c)[2].mode = "write"
      /\ PlanOf(c)[3].lock = "turns" /\ PlanOf(c)[3].mode = "write"
  BY <1>1 DEF Step
<1>3. \A i \in {1, 2, 3} : Holds(c, PlanOf(c)[i].lock)
                           /\ mode[PlanOf(c)[i].lock][c] = PlanOf(c)[i].mode
  BY <1>1, WorkingHolds
<1> QED
  BY <1>1, <1>2, <1>3 DEF Locks

LEMMA HalfUnseen ==
  ASSUME LInv
  PROVE  HalfCommitsAreUnseen
<1> SUFFICES ASSUME NEW c \in Callers, NEW d \in Callers, MidCommit(c), c # d,
                    pc[d] \in Working
             PROVE  /\ ~ MidCommit(d)
                    /\ call[d].op = "get" /\ call[c].op = "commit_terminal"
  BY DEF HalfCommitsAreUnseen, MidCommit, Working
<1>1. pc[c] \in Working /\ call[c].op \in Commits
  BY KindsOf DEF MidCommit, Progress, Working, Commits
<1>2. ASSUME NEW l \in Locks, mode[l][c] = "write", Holds(d, l) PROVE FALSE
  BY <1>1, <1>2, CommitHolds, WriteIsAlone
<1>3. ~ Holds(d, "responses") /\ ~ Holds(d, "turns")
  BY <1>1, <1>2, CommitHolds DEF Locks
<1>4. call[d].op \notin Commits
  BY <1>3, CommitHolds DEF Locks
<1>5. ~ MidCommit(d)
  BY <1>4, KindsOf DEF MidCommit, Progress, Commits
<1>6. call[d].op \in Operations /\ Holds(d, PlanOf(d)[1].lock)
      /\ mode[PlanOf(d)[1].lock][d] = PlanOf(d)[1].mode
  BY WorkingHolds
<1>7. call[d].op \in {"get", "put"}
  BY <1>3, <1>4, <1>6, OtherPlans DEF PlanOf, Operations, Commits
<1>8. Holds(d, "sessions") /\ mode["sessions"][d] = PlanOf(d)[1].mode
  BY <1>4, <1>6, <1>7, OtherPlans DEF PlanOf, Step
<1>9. call[c].op = "commit_terminal"
  BY <1>1, <1>2, <1>8, CommitHolds DEF Commits, Locks
<1>10. call[d].op # "put"
  <2>1. CASE call[d].op = "put"
    <3>1. mode["sessions"][d] = "write"
      BY <1>4, <1>6, <1>8, <2>1, OtherPlans DEF PlanOf, Step
    <3>2. Holds(c, "sessions")
      BY <1>1, CommitHolds DEF Locks
    <3> QED
      BY <1>8, <3>1, <3>2, WriteIsAlone DEF Locks
  <2> QED
    BY <2>1
<1> QED
  BY <1>5, <1>7, <1>9, <1>10

\* A commit that is between two of its writes is seen by nobody: its guards
\* (session/mod.rs:52-54, :91-93) are alone on every map it writes, so no
\* other caller reads or writes one, but for a SessionStore::get beside a
\* commit_terminal.
THEOREM HalfCommitsAreUnseenHolds == Spec => []HalfCommitsAreUnseen
<1>1. LInv => HalfCommitsAreUnseen
  BY HalfUnseen
<1> QED
  BY <1>1, LInvHolds, PTL

-----------------------------------------------------------------------------
(* What a commit has written so far.                                         *)

R(c) == call[c].record.response_id
U(c) == call[c].record.turn_id

\* Between two of its writes a commit finds the maps as it left them: what
\* it has written is there, and what it has not written is vacant.
HalfWritten(c) ==
  /\ pc[c] = "insert session" =>
       /\ R(c) \notin DOMAIN sessions
       /\ R(c) \in DOMAIN responses
       /\ responses[R(c)] = call[c].session.final_response_json
       /\ U(c) \notin DOMAIN turns
  /\ pc[c] = "insert turn" =>
       /\ R(c) \in DOMAIN responses
       /\ U(c) \notin DOMAIN turns
       /\ call[c].op = "commit_completed" =>
            /\ R(c) \in DOMAIN sessions
            /\ sessions[R(c)] = call[c].session
            /\ responses[R(c)] = call[c].session.final_response_json
       /\ call[c].op = "commit_terminal" =>
            /\ R(c) \notin DOMAIN sessions
            /\ responses[R(c)] = call[c].response

MInv == \A c \in Callers : HalfWritten(c)

\* The maps are written by callers that hold every lock of their plan.
LEMMA Writers ==
  ASSUME LInv, NEW c \in Callers, Moves(c)
  PROVE  \/ UNCHANGED maps
         \/ /\ pc[c] \in Working
            /\ MidCommit(c) \/ call[c].op # "get"
<1>1. CASE (\E k \in Calls : Invoke(c, k)) \/ Lock(c) \/ Acquire(c) \/ Cancel(c)
             \/ Unlock(c) \/ Return(c)
  BY <1>1 DEF Invoke, Lock, Acquire, Cancel, Unlock, Return, maps
<1>2. CASE Validate(c) \/ CommitChecks(c) \/ Read(c)
  BY <1>2 DEF Validate, CommitChecks, Read, maps
<1>3. CASE \/ CompletedResponse(c) \/ TerminalResponse(c)
           \/ PutSession(c) \/ PutResponseJson(c) \/ PutTurn(c)
  BY <1>3 DEF CompletedResponse, TerminalResponse, PutSession, PutResponseJson, PutTurn,
              Go, Finish, Working
<1>4. CASE CompletedSession(c) \/ InsertTurn(c)
  BY <1>4 DEF CompletedSession, InsertTurn, Go, Finish, Working, MidCommit
<1> QED
  BY <1>1, <1>2, <1>3, <1>4, StepsOfACall DEF Moves, Quiet

\* While a commit is between two of its writes, nobody else writes.
LEMMA HalfCommitsWriteAlone ==
  ASSUME LInv, NEW c \in Callers, Moves(c), NEW d \in Callers, d # c, MidCommit(d)
  PROVE  UNCHANGED maps
<1>1. ~ MidCommit(c) /\ (pc[c] = "work" => call[c].op = "get")
  BY HalfUnseen DEF HalfCommitsAreUnseen
<1> QED
  BY <1>1, Writers DEF Working, MidCommit

LEMMA MInvStep ==
  ASSUME LInv, MInv, NEW c \in Callers, Moves(c), NEW d \in Callers
  PROVE  HalfWritten(d)'
<1>0. HalfWritten(d)
  BY DEF MInv
<1>1. CASE d # c
  <2>1. pc'[d] = pc[d] /\ call'[d] = call[d]
    BY <1>1, OthersStay DEF LInv
  <2>2. CASE MidCommit(d)
    <3>1. sessions' = sessions /\ responses' = responses /\ turns' = turns
      BY <1>1, <2>2, HalfCommitsWriteAlone DEF maps
    <3> QED
      BY <1>0, <2>1, <3>1 DEF HalfWritten, R, U
  <2>3. CASE ~ MidCommit(d)
    BY <2>1, <2>3 DEF HalfWritten, MidCommit
  <2> QED
    BY <2>2, <2>3
<1>2. CASE d = c /\ Quiet(c)
  <2>1. /\ call' = call /\ R(c)' = R(c) /\ U(c)' = U(c)
    BY <1>2, QuietShape DEF LInv, R, U
  <2>2. c \in DOMAIN pc
    BY DEF LInv, Kinds
  <2>3. pc[c] \in Working => Matches(call[c])
    BY KindsOf DEF Progress
  <2>4. CASE CompletedResponse(c)
    <3>1. /\ pc'[c] = "insert session" /\ call[c].op = "commit_completed"
          /\ call[c].session.response_id = R(c)
          /\ R(c) \notin DOMAIN sessions /\ U(c) \notin DOMAIN turns
          /\ responses' = Put(responses, R(c), call[c].session.final_response_json)
          /\ sessions' = sessions /\ turns' = turns
      BY <2>2, <2>3, <2>4 DEF CompletedResponse, Go, Duplicate, Matches, CompletedMatches,
                              Working, R, U
    <3> QED
      BY <1>2, <2>1, <3>1 DEF HalfWritten, Put
  <2>5. CASE CompletedSession(c)
    <3>1. /\ pc[c] = "insert session" /\ pc'[c] = "insert turn"
          /\ call[c].op = "commit_completed"
          /\ call[c].session.response_id = R(c)
          /\ sessions' = Put(sessions, R(c), call[c].session)
          /\ responses' = responses /\ turns' = turns
      BY <2>2, <2>3, <2>5, KindsOf DEF CompletedSession, Go, Matches, CompletedMatches,
                              Progress, Working, R
    <3> QED
      BY <1>0, <1>2, <2>1, <3>1 DEF HalfWritten, Put
  <2>6. CASE TerminalResponse(c)
    <3>1. /\ pc'[c] = "insert turn" /\ call[c].op = "commit_terminal"
          /\ R(c) \notin DOMAIN sessions /\ U(c) \notin DOMAIN turns
          /\ responses' = Put(responses, R(c), call[c].response)
          /\ sessions' = sessions /\ turns' = turns
      BY <2>2, <2>3, <2>6 DEF TerminalResponse, Go, Duplicate, Matches, TerminalMatches,
                              Working, R, U
    <3> QED
      BY <1>2, <2>1, <3>1 DEF HalfWritten, Put
  <2>7. CASE ~ (CompletedResponse(c) \/ CompletedSession(c) \/ TerminalResponse(c))
    <3>1. ~ (pc'[c] \in {"insert session", "insert turn"})
      BY <1>2, <2>2, <2>7 DEF Quiet, Validate, CommitChecks, InsertTurn, Read, PutSession,
                              PutResponseJson, PutTurn, Finish, Go
    <3> QED
      BY <1>2, <3>1 DEF HalfWritten
  <2> QED
    BY <2>4, <2>5, <2>6, <2>7
<1>3. CASE d = c /\ ~ Quiet(c)
  <2>1. pc'[c] \in {"validate", "wait", "work", "lock", "unlock", "idle"}
    BY <1>3, StepsOfACall DEF Moves, Invoke, Lock, Acquire, Cancel, Unlock, Return, Go, Finish,
                              LInv, Kinds
  <2> QED
    BY <1>3, <2>1 DEF HalfWritten
<1> QED
  BY <1>1, <1>2, <1>3

LEMMA MInvHolds == Spec => []MInv
<1>1. Init => MInv
  BY DEF Init, MInv, HalfWritten
<1>2. LInv /\ MInv /\ [Next]_vars => MInv'
  <2>1. ASSUME LInv, MInv, Next PROVE MInv'
    BY <2>1, MInvStep, NextMoves DEF MInv
  <2>2. ASSUME MInv, UNCHANGED vars PROVE MInv'
    BY <2>2 DEF MInv, HalfWritten, R, U, vars, clientVars, maps
  <2> QED
    BY <2>1, <2>2
<1> QED
  BY <1>1, <1>2, LInvHolds, PTL DEF Spec

-----------------------------------------------------------------------------
(* What the other callers see of a commit: nothing, until its last write.    *)

\* The theorems about the commits, of the maps as they are seen.
Seen == INSTANCE StoreMapsProofs WITH
  sessions <- VisibleSessions,
  responses <- VisibleResponses

seen == <<VisibleSessions, VisibleResponses, turns>>

LEMMA HiddenNone ==
  ASSUME \A c \in Callers : ~ MidCommit(c)
  PROVE  Hidden = {}
BY DEF Hidden

LEMMA HiddenOne ==
  ASSUME LInv, NEW c \in Callers, MidCommit(c)
  PROVE  Hidden = {R(c)}
<1>1. \A d \in Callers : MidCommit(d) <=> d = c
  BY HalfUnseen DEF HalfCommitsAreUnseen
<1>2. {d \in Callers : MidCommit(d)} = {c}
  BY <1>1
<1> QED
  BY <1>2 DEF Hidden, R

\* A caller that works and may write is the only one that does.
LEMMA WorksAlone ==
  ASSUME LInv, NEW c \in Callers, pc[c] = "work", call[c].op # "get"
  PROVE  /\ \A d \in Callers : ~ MidCommit(d)
         /\ Hidden = {}
<1>1. \A d \in Callers : ~ MidCommit(d)
  BY HalfUnseen DEF HalfCommitsAreUnseen, MidCommit
<1> QED
  BY <1>1, HiddenNone

\* Whether the others are in the middle of a commit does not change, so what
\* is hidden depends on the caller that moves.
LEMMA HiddenStays ==
  ASSUME LInv, NEW c \in Callers, Moves(c), MidCommit(c)' <=> MidCommit(c),
         MidCommit(c) => call'[c] = call[c]
  PROVE  Hidden' = Hidden
<1>1. ASSUME NEW d \in Callers
      PROVE  /\ MidCommit(d)' <=> MidCommit(d)
             /\ MidCommit(d) => R(d)' = R(d)
  BY <1>1, OthersStay DEF LInv, MidCommit, R
<1>2. {d \in Callers : MidCommit(d)}' = {d \in Callers : MidCommit(d)}
  BY <1>1
<1>3. \A x : x \in Hidden <=> \E d \in Callers : MidCommit(d) /\ x = R(d)
  BY DEF Hidden, R
<1>4. \A x : x \in Hidden' <=> \E d \in Callers : MidCommit(d)' /\ x = R(d)'
  BY DEF Hidden, R
<1> QED
  BY <1>1, <1>3, <1>4

\* With nothing hidden the maps are seen as they are.
LEMMA SeenAsTheyAre ==
  ASSUME Hidden = {}
  PROVE  /\ VisibleSessions = [k \in DOMAIN sessions |-> sessions[k]]
         /\ VisibleResponses = [k \in DOMAIN responses |-> responses[k]]
BY DEF VisibleSessions, VisibleResponses, Without

\* The steps that leave the maps alone are not seen.
LEMMA UnseenIfUnchanged ==
  ASSUME LInv, NEW c \in Callers, Moves(c), UNCHANGED maps,
         MidCommit(c)' <=> MidCommit(c), MidCommit(c) => call'[c] = call[c]
  PROVE  UNCHANGED seen
BY HiddenStays DEF maps, seen, VisibleSessions, VisibleResponses, Without

\* Nor are the first writes of a commit.
LEMMA FirstWritesUnseen ==
  ASSUME LInv, MInv, NEW c \in Callers,
         CompletedResponse(c) \/ CompletedSession(c) \/ TerminalResponse(c)
  PROVE  UNCHANGED seen
<1>0. /\ Moves(c) /\ c \in DOMAIN pc /\ HalfWritten(c) /\ LInv'
      /\ pc[c] \in Working => Matches(call[c])
  BY LInvStep, StepsOfACall, KindsOf DEF Moves, Quiet, LInv, Kinds, MInv, Progress
<1>1. CASE CompletedResponse(c) \/ TerminalResponse(c)
  <2>1. /\ pc[c] = "work" /\ call[c].op # "get" /\ call' = call /\ MidCommit(c)'
        /\ R(c) \notin DOMAIN sessions /\ R(c) \notin DOMAIN responses
        /\ sessions' = sessions /\ turns' = turns
    BY <1>0, <1>1 DEF CompletedResponse, TerminalResponse, Go, Duplicate, MidCommit, R
  <2>2. PICK v : responses' = Put(responses, R(c), v)
    BY <1>0, <1>1, <2>1 DEF CompletedResponse, TerminalResponse, Matches, CompletedMatches,
                       TerminalMatches, Working, R
  <2>3. Hidden = {} /\ Hidden' = {R(c)}
    <3>1. Hidden = {}
      BY <2>1, WorksAlone
    <3>2. \A d \in Callers : MidCommit(d)' <=> d = c
      BY <1>0, <2>1, WorksAlone, OthersStay DEF LInv, MidCommit
    <3>3. {d \in Callers : MidCommit(d)}' = {c} /\ R(c)' = R(c)
      BY <2>1, <3>2 DEF R
    <3> QED
      BY <3>1, <3>3 DEF Hidden, R
  <2> QED
    BY <2>1, <2>2, <2>3 DEF seen, VisibleSessions, VisibleResponses, Without, Put
<1>2. CASE CompletedSession(c)
  <2>1. /\ MidCommit(c) /\ MidCommit(c)' /\ call' = call
        /\ R(c) = call[c].session.response_id
        /\ responses' = responses /\ turns' = turns
        /\ sessions' = Put(sessions, R(c), call[c].session)
    BY <1>0, <1>2, KindsOf DEF CompletedSession, Go, MidCommit, Working, Progress, Matches,
                       CompletedMatches, R
  <2>2. Hidden = {R(c)} /\ Hidden' = {R(c)}
    BY <1>0, <2>1, HiddenOne, HiddenStays
  <2> QED
    BY <2>1, <2>2 DEF seen, VisibleSessions, VisibleResponses, Without, Put
<1> QED
  BY <1>1, <1>2

\* The last write shows the whole commit at once.
LEMMA LastWriteSeen ==
  ASSUME LInv, MInv, NEW c \in Callers, InsertTurn(c)
  PROVE  \/ /\ call[c].op = "commit_completed"
            /\ Seen!CommitCompleted(call[c].session, call[c].record)
         \/ /\ call[c].op = "commit_terminal"
            /\ Seen!CommitTerminal(call[c].response_id, call[c].response, call[c].record)
<1> DEFINE k == call[c]
           r == R(c)
<1>1. /\ Moves(c) /\ pc[c] = "insert turn" /\ pc'[c] = "unlock" /\ call' = call
      /\ sessions' = sessions /\ responses' = responses
      /\ turns' = Put(turns, U(c), k.record)
  BY StepsOfACall DEF Moves, Quiet, InsertTurn, Finish, Go, LInv, Kinds, U
<1>2. /\ HalfWritten(c) /\ Matches(k) /\ k.op \in Commits /\ MidCommit(c)
  BY <1>1, KindsOf DEF MInv, Progress, Working, MidCommit
<1>3. Hidden = {r} /\ Hidden' = {}
  <2>1. Hidden = {r}
    BY <1>2, HiddenOne
  <2>2. \A d \in Callers : ~ MidCommit(d)'
    BY <1>1, <1>2, HalfUnseen, OthersStay DEF LInv, MidCommit, HalfCommitsAreUnseen
  <2> QED
    BY <2>1, <2>2 DEF Hidden
<1> HIDE DEF r
<1>4. /\ VisibleSessions = [x \in DOMAIN sessions \ {r} |-> sessions[x]]
      /\ VisibleResponses = [x \in DOMAIN responses \ {r} |-> responses[x]]
      /\ VisibleSessions' = [x \in DOMAIN sessions |-> sessions[x]]
      /\ VisibleResponses' = [x \in DOMAIN responses |-> responses[x]]
  BY <1>1, <1>3 DEF VisibleSessions, VisibleResponses, Without
<1>5. CASE k.op = "commit_completed"
  <2>1. /\ k.session.response_id = r /\ CompletedMatches(k.session, k.record)
        /\ r \in DOMAIN sessions /\ sessions[r] = k.session
        /\ r \in DOMAIN responses /\ responses[r] = k.session.final_response_json
        /\ k.record.turn_id \notin DOMAIN turns
    BY <1>1, <1>2, <1>5 DEF Matches, CompletedMatches, HalfWritten, R, U, r
  <2>2. /\ VisibleSessions' = Put(VisibleSessions, r, k.session)
        /\ VisibleResponses' = Put(VisibleResponses, r, k.session.final_response_json)
    BY <1>4, <2>1 DEF Put
  <2>3. Seen!AcceptsCompleted(k.session, k.record)
    BY <1>4, <2>1 DEF Seen!AcceptsCompleted, Seen!Vacant, CompletedMatches,
                      Seen!CompletedMatches
  <2> QED
    BY <1>1, <1>5, <2>1, <2>2, <2>3 DEF Seen!CommitCompleted, Put, Seen!Put, U
<1>6. CASE k.op = "commit_terminal"
  <2>1. /\ k.response_id = r /\ TerminalMatches(k.response_id, k.record)
        /\ r \notin DOMAIN sessions
        /\ r \in DOMAIN responses /\ responses[r] = k.response
        /\ k.record.turn_id \notin DOMAIN turns
    BY <1>1, <1>2, <1>6 DEF Matches, TerminalMatches, HalfWritten, R, U, r
  <2>2. /\ VisibleSessions' = VisibleSessions
        /\ VisibleResponses' = Put(VisibleResponses, r, k.response)
    BY <1>4, <2>1 DEF Put
  <2>3. Seen!AcceptsTerminal(k.response_id, k.record)
    BY <1>4, <2>1 DEF Seen!AcceptsTerminal, Seen!Vacant, TerminalMatches, Seen!TerminalMatches
  <2> QED
    BY <1>1, <1>6, <2>1, <2>2, <2>3 DEF Seen!CommitTerminal, Put, Seen!Put, U
<1> QED
  BY <1>2, <1>5, <1>6 DEF Commits

\* The maps as they are seen change with the last write of a commit, or with
\* a put around the commits.
LEMMA SeenStep ==
  ASSUME LInv, MInv, NEW c \in Callers, Moves(c)
  PROVE  \/ UNCHANGED seen
         \/ InsertTurn(c)
         \/ call[c].op \in Puts
<1>1. CASE (\E k \in Calls : Invoke(c, k)) \/ Lock(c) \/ Acquire(c) \/ Cancel(c)
             \/ Unlock(c) \/ Return(c)
  <2>1. /\ UNCHANGED maps /\ ~ MidCommit(c) /\ ~ MidCommit(c)'
    BY <1>1 DEF Invoke, Lock, Acquire, Cancel, Unlock, Return, Go, Finish, maps, MidCommit,
                LInv, Kinds
  <2> QED
    BY <2>1, UnseenIfUnchanged
<1>2. CASE Validate(c) \/ CommitChecks(c) \/ Read(c)
  <2>1. /\ UNCHANGED maps /\ ~ MidCommit(c) /\ ~ MidCommit(c)'
    BY <1>2 DEF Validate, CommitChecks, Read, Go, Finish, maps, MidCommit, LInv, Kinds
  <2> QED
    BY <2>1, UnseenIfUnchanged
<1>3. CASE CompletedResponse(c) \/ CompletedSession(c) \/ TerminalResponse(c)
  BY <1>3, FirstWritesUnseen
<1>4. CASE PutSession(c) \/ PutResponseJson(c) \/ PutTurn(c)
  BY <1>4 DEF PutSession, PutResponseJson, PutTurn, Puts
<1> QED
  BY <1>1, <1>2, <1>3, <1>4, StepsOfACall DEF Moves, Quiet

LEMMA NoPutIsMade ==
  ASSUME NoPuts, LInv, NEW c \in Callers
  PROVE  call[c].op \notin Puts
<1>1. call[c] \in Calls \/ call[c] = NoCall
  BY DEF LInv, Kinds
<1> QED
  BY <1>1 DEF NoPuts, Puts, NoCall

LEMMA SeenAgrees ==
  ASSUME NoPuts, LInv, MInv, NEW c \in Callers, Moves(c), Seen!MapsAgree
  PROVE  Seen!MapsAgree'
<1>1. CASE UNCHANGED seen
  BY <1>1, Seen!MapsUnchanged DEF seen, Seen!maps
<1>2. CASE InsertTurn(c)
  BY <1>2, LastWriteSeen, Seen!CommitCompletedAgrees, Seen!CommitTerminalAgrees
<1>3. CASE call[c].op \in Puts
  BY <1>3, NoPutIsMade
<1> QED
  BY <1>1, <1>2, <1>3, SeenStep

LEMMA SeenAgreesHolds == NoPuts => (Spec => []Seen!MapsAgree)
<1> SUFFICES ASSUME NoPuts PROVE Spec => []Seen!MapsAgree
  OBVIOUS
<1>1. Init => Seen!MapsAgree
  <2>1. Init => Seen!MapsInit
    BY DEF Init, MapsInit, EmptyMap, Seen!MapsInit, Seen!EmptyMap, VisibleSessions,
           VisibleResponses, Without
  <2> QED
    BY <2>1, Seen!EmptyMapsAgree
<1>2. LInv /\ MInv /\ Seen!MapsAgree /\ [Next]_vars => Seen!MapsAgree'
  <2>1. ASSUME LInv, MInv, Seen!MapsAgree, Next PROVE Seen!MapsAgree'
    BY <2>1, NextMoves, SeenAgrees
  <2>2. ASSUME Seen!MapsAgree, UNCHANGED vars PROVE Seen!MapsAgree'
    <3>1. UNCHANGED seen
      BY <2>2 DEF vars, clientVars, maps, seen, VisibleSessions, VisibleResponses, Without,
                  Hidden, MidCommit
    <3> QED
      BY <2>2, <3>1, Seen!MapsUnchanged DEF seen, Seen!maps
  <2> QED
    BY <2>1, <2>2
<1> QED
  BY <1>1, <1>2, LInvHolds, MInvHolds, PTL DEF Spec

\* Whenever no commit is between two of its writes the maps agree, however
\* many callers commit, are refused or are dropped while they wait: each
\* commit checks all three maps under its guards before its first insert
\* (session/mod.rs:52-71, :91-104).  The puts around the commits, which
\* replace what is stored, are left out.
THEOREM CommitsAreWholeHolds == NoPuts => (Spec => []CommitsAreWhole)
<1> SUFFICES ASSUME NoPuts PROVE Spec => []CommitsAreWhole
  OBVIOUS
<1>1. Seen!MapsAgree => CommitsAreWhole
  <2> SUFFICES ASSUME Seen!MapsAgree, \A c \in Callers : ~ MidCommit(c)
               PROVE  MapsAgree
    BY DEF CommitsAreWhole
  <2>1. /\ DOMAIN VisibleSessions = DOMAIN sessions
        /\ DOMAIN VisibleResponses = DOMAIN responses
        /\ \A r \in DOMAIN sessions : VisibleSessions[r] = sessions[r]
        /\ \A r \in DOMAIN responses : VisibleResponses[r] = responses[r]
    BY HiddenNone, SeenAsTheyAre
  <2>2. SessionsHaveResponses
    BY <2>1 DEF Seen!MapsAgree, Seen!SessionsHaveResponses, SessionsHaveResponses
  <2>3. TurnsHaveResponses
    BY <2>1 DEF Seen!MapsAgree, Seen!TurnsHaveResponses, TurnsHaveResponses
  <2>4. OneTurnPerResponse
    BY <2>1 DEF Seen!MapsAgree, Seen!OneTurnPerResponse, OneTurnPerResponse
  <2> QED
    BY <2>2, <2>3, <2>4 DEF MapsAgree
<1>2. Spec => []Seen!MapsAgree
  BY SeenAgreesHolds
<1> QED
  BY <1>1, <1>2, PTL

\* What a commit writes, it adds.
LEMMA MovesKeep ==
  ASSUME NoPuts, LInv, MInv, NEW c \in Callers, Moves(c)
  PROVE  Keeps(sessions, sessions') /\ Keeps(responses, responses') /\ Keeps(turns, turns')
<1>0. /\ call[c].op \notin Puts /\ HalfWritten(c)
      /\ pc[c] \in Working => Matches(call[c])
  BY KindsOf, NoPutIsMade DEF MInv, Progress
<1>1. CASE UNCHANGED maps
  BY <1>1, MapsUnchanged
<1>2. CASE CompletedResponse(c) \/ TerminalResponse(c)
  <2>1. /\ R(c) \notin DOMAIN responses
        /\ sessions' = sessions /\ turns' = turns
    BY <1>2 DEF CompletedResponse, TerminalResponse, Duplicate, R
  <2>2. \E v : responses' = Put(responses, R(c), v)
    BY <1>0, <1>2 DEF CompletedResponse, TerminalResponse, Go, Working, Matches,
                      CompletedMatches, TerminalMatches, R
  <2> QED
    BY <2>1, <2>2 DEF Keeps, Put
<1>3. CASE CompletedSession(c)
  <2>1. /\ R(c) \notin DOMAIN sessions
        /\ responses' = responses /\ turns' = turns
        /\ sessions' = Put(sessions, R(c), call[c].session)
    BY <1>0, <1>3, KindsOf DEF CompletedSession, Go, HalfWritten, Progress, Working, Matches,
                      CompletedMatches, R
  <2> QED
    BY <2>1 DEF Keeps, Put
<1>4. CASE InsertTurn(c)
  <2>1. /\ U(c) \notin DOMAIN turns
        /\ sessions' = sessions /\ responses' = responses
        /\ turns' = Put(turns, U(c), call[c].record)
    BY <1>0, <1>4 DEF InsertTurn, Finish, Go, HalfWritten, U
  <2> QED
    BY <2>1 DEF Keeps, Put
<1>5. CASE PutSession(c) \/ PutResponseJson(c) \/ PutTurn(c)
  BY <1>0, <1>5 DEF PutSession, PutResponseJson, PutTurn, Puts
<1>6. CASE \/ \E k \in Calls : Invoke(c, k)
           \/ Lock(c) \/ Acquire(c) \/ Cancel(c) \/ Unlock(c) \/ Return(c)
           \/ Validate(c) \/ CommitChecks(c) \/ Read(c)
  BY <1>1, <1>6 DEF Invoke, Lock, Acquire, Cancel, Unlock, Return, Validate, CommitChecks, Read,
                    maps
<1> QED
  BY <1>2, <1>3, <1>4, <1>5, <1>6, StepsOfACall DEF Moves, Quiet

\* No call replaces or removes what another has stored, the puts left out:
\* when a commit writes, the ids it found vacant are vacant still, although
\* it writes its maps one by one (session/mod.rs:55-71, :94-104).
THEOREM StoredStaysInTheStore == NoPuts => (Spec => StoredStays)
<1> SUFFICES ASSUME NoPuts PROVE Spec => StoredStays
  OBVIOUS
<1> DEFINE Stays ==
      Keeps(sessions, sessions') /\ Keeps(responses, responses') /\ Keeps(turns, turns')
<1>1. LInv /\ MInv /\ [Next]_vars => [Stays]_maps
  <2>1. ASSUME LInv, MInv, Next PROVE Stays
    BY <2>1, NextMoves, MovesKeep
  <2>2. ASSUME UNCHANGED vars PROVE UNCHANGED maps
    BY <2>2 DEF vars
  <2> QED
    BY <2>1, <2>2
<1> QED
  BY <1>1, LInvHolds, MInvHolds, PTL DEF Spec, StoredStays

-----------------------------------------------------------------------------
(* The store implements the atomic one.                                      *)

\* A step inside a call is not seen by its client.
LEMMA ClientStays ==
  ASSUME LInv, NEW c \in Callers, Moves(c),
         Phase(c)' = Phase(c), call'[c] = call[c], answer'[c] = answer[c]
  PROVE  Client' = Client
<1>1. \A d \in Callers : Phase(d)' = Phase(d) /\ call'[d] = call[d] /\ answer'[d] = answer[d]
  BY OthersStay DEF LInv, Phase
<1> QED
  BY <1>1 DEF Client

\* A call that has its answer is answered.
LEMMA ClientIsAnswered ==
  ASSUME LInv, NEW c \in Callers, Moves(c), NEW a,
         pc[c] \notin {"idle", "unlock"}, pc'[c] = "unlock", call'[c] = call[c], answer'[c] = a
  PROVE  /\ Atomic!Answer(c, a)
         /\ Client[c].call = call[c]
<1>1. /\ Client[c] = [phase |-> "called", call |-> call[c], answer |-> answer[c]]
      /\ Client'[c] = [phase |-> "answered", call |-> call[c], answer |-> a]
  BY DEF Client, Phase
<1>2. ASSUME NEW d \in Callers, d # c PROVE Client'[d] = Client[d]
  <2>1. Phase(d)' = Phase(d) /\ call'[d] = call[d] /\ answer'[d] = answer[d]
    BY <1>2, OthersStay DEF LInv, Phase
  <2> QED
    BY <2>1 DEF Client
<1>3. /\ Client = [d \in Callers |-> Client[d]]
      /\ Client' = [d \in Callers |-> Client'[d]]
  BY DEF Client
<1>4. Client' = [Client EXCEPT ![c].phase = "answered", ![c].answer = a]
  <2> DEFINE called == [Client EXCEPT ![c].phase = "answered"]
  <2>1. /\ called = [d \in Callers |-> IF d = c THEN called[c] ELSE Client[d]]
        /\ called[c] = [phase |-> "answered", call |-> call[c], answer |-> answer[c]]
    BY <1>1, <1>3
  <2> HIDE DEF called
  <2>2. [called EXCEPT ![c].answer = a] = [d \in Callers |-> IF d = c THEN Client'[c] ELSE Client[d]]
    BY <1>1, <2>1
  <2>3. Client' = [called EXCEPT ![c].answer = a]
    BY <1>2, <1>3, <2>2
  <2> QED
    BY <2>3 DEF called
<1> QED
  BY <1>1, <1>4 DEF Atomic!Answer

\* Every way to finish answers the client.
LEMMA FinishAnswers ==
  ASSUME LInv, NEW c \in Callers, Moves(c), NEW from \in {"validate", "wait", "insert turn", "work"},
         NEW a, Finish(c, from, a)
  PROVE  /\ Atomic!Answer(c, a)
         /\ Client[c].call = call[c]
         /\ pc[c] = from /\ pc'[c] = "unlock"
<1>1. pc[c] = from /\ pc'[c] = "unlock" /\ call'[c] = call[c] /\ answer'[c] = a
  BY DEF Finish, Go, LInv, Kinds, Answers
<1> QED
  BY <1>1, ClientIsAnswered

\* The steps that the clients see nothing of.
LEMMA InnerSteps ==
  ASSUME LInv, MInv, NEW c \in Callers, Moves(c),
         \/ Lock(c) \/ Acquire(c) \/ Unlock(c)
         \/ Validate(c) /\ Matches(call[c])
         \/ CompletedResponse(c) \/ CompletedSession(c) \/ TerminalResponse(c)
  PROVE  UNCHANGED Atomic!storeVars
<1>1. UNCHANGED seen
  <2>1. CASE Lock(c) \/ Acquire(c) \/ Unlock(c) \/ Validate(c)
    <3>1. UNCHANGED maps /\ ~ MidCommit(c) /\ ~ MidCommit(c)'
      BY <2>1 DEF Lock, Acquire, Unlock, Validate, Go, Finish, maps, MidCommit, LInv, Kinds
    <3> QED
      BY <3>1, UnseenIfUnchanged
  <2> QED
    BY <2>1, FirstWritesUnseen
<1>2. Phase(c)' = Phase(c) /\ call'[c] = call[c] /\ answer'[c] = answer[c]
  <2>1. CASE Lock(c) \/ Unlock(c)
    BY <2>1 DEF Lock, Unlock, Go, Phase, LInv, Kinds
  <2>2. CASE Acquire(c)
    <3>1. pc[c] = "wait" /\ pc'[c] \in {"work", "lock"} /\ call' = call /\ answer' = answer
      BY <2>2 DEF Acquire, LInv, Kinds
    <3> QED
      BY <3>1 DEF Phase
  <2>3. CASE Validate(c) /\ Matches(call[c])
    BY <2>3 DEF Validate, Go, Phase, LInv, Kinds
  <2>4. CASE CompletedResponse(c) \/ CompletedSession(c) \/ TerminalResponse(c)
    BY <2>4 DEF CompletedResponse, CompletedSession, TerminalResponse, Go, Phase, LInv, Kinds
  <2> QED
    BY <2>1, <2>2, <2>3, <2>4
<1>3. Client' = Client
  BY <1>2, ClientStays
<1> QED
  BY <1>1, <1>3 DEF Atomic!storeVars, Atomic!maps, seen

\* The steps that start and end a call, or drop it.
LEMMA OuterSteps ==
  ASSUME LInv, NEW c \in Callers, Moves(c),
         (\E k \in Calls : Invoke(c, k)) \/ Return(c) \/ Cancel(c)
  PROVE  Atomic!StoreNext
<1>1. UNCHANGED seen
  <2>1. UNCHANGED maps /\ ~ MidCommit(c) /\ ~ MidCommit(c)'
    BY DEF Invoke, Return, Cancel, Go, Finish, maps, MidCommit, LInv, Kinds
  <2> QED
    BY <2>1, UnseenIfUnchanged
<1>2. ASSUME NEW d \in Callers, d # c PROVE Client'[d] = Client[d]
  <2>1. Phase(d)' = Phase(d) /\ call'[d] = call[d] /\ answer'[d] = answer[d]
    BY <1>2, OthersStay DEF LInv, Phase
  <2> QED
    BY <2>1 DEF Client
<1>3. /\ Client = [d \in Callers |-> Client[d]]
      /\ Client' = [d \in Callers |-> Client'[d]]
  BY DEF Client
<1>4. ASSUME NEW k \in Calls, Invoke(c, k) PROVE Atomic!Invoke(c, k)
  <2>1. /\ pc[c] = "idle" /\ pc'[c] = "validate" /\ call'[c] = k
        /\ answer[c] = NoAnswer /\ answer' = answer
    BY <1>4, KindsOf DEF Invoke, Progress, LInv, Kinds
  <2>2. /\ Client[c].phase = "idle"
        /\ Client'[c] = [phase |-> "called", call |-> k, answer |-> NoAnswer]
    BY <2>1 DEF Client, Phase
  <2>3. Client' = [Client EXCEPT ![c] = [phase |-> "called", call |-> k, answer |-> NoAnswer]]
    BY <1>2, <1>3, <2>2
  <2> QED
    BY <1>1, <2>2, <2>3 DEF Atomic!Invoke, Atomic!NoAnswer, NoAnswer, Atomic!maps, seen
<1>5. ASSUME Return(c) PROVE Atomic!Return(c)
  <2>1. /\ pc[c] = "unlock" /\ pc'[c] = "idle" /\ call'[c] = NoCall /\ answer'[c] = NoAnswer
    BY <1>5 DEF Return, LInv, Kinds, Answers
  <2>2. /\ Client[c].phase = "answered"
        /\ Client'[c] = Atomic!Idle
    BY <2>1 DEF Client, Phase, Atomic!Idle, Atomic!NoCall, Atomic!NoAnswer, NoCall, NoAnswer
  <2>3. Client' = [Client EXCEPT ![c] = Atomic!Idle]
    BY <1>2, <1>3, <2>2
  <2> QED
    BY <1>1, <2>2, <2>3 DEF Atomic!Return, Atomic!maps, seen
<1>6. ASSUME Cancel(c) PROVE Atomic!Abandon(c)
  <2>1. Atomic!Answer(c, NoAnswer)
    BY <1>6, FinishAnswers DEF Cancel
  <2> QED
    BY <1>1, <2>1 DEF Atomic!Abandon, Atomic!NoAnswer, NoAnswer, Atomic!maps, seen
<1> QED
  BY <1>4, <1>5, <1>6 DEF Atomic!StoreNext

\* A call that is refused could have been refused at once: its arguments do
\* not fit together, or an id is taken in the maps as they are seen.
LEMMA Refusals ==
  ASSUME LInv, NEW c \in Callers, Moves(c),
         (Validate(c) /\ ~ Matches(call[c])) \/ CommitChecks(c)
  PROVE  Atomic!StoreNext
<1> DEFINE k == call[c]
<1>1. /\ Atomic!Answer(c, Refused) /\ Client[c].call = k
      /\ UNCHANGED maps /\ ~ MidCommit(c) /\ ~ MidCommit(c)'
  <2>1. \/ Finish(c, "validate", Refused)
        \/ Finish(c, "work", Refused)
    BY DEF Validate, CommitChecks
  <2> QED
    BY <2>1, FinishAnswers DEF Validate, CommitChecks, MidCommit, maps
<1>2. UNCHANGED seen
  BY <1>1, UnseenIfUnchanged
<1>3. /\ k.op \in Commits
      /\ k.op = "commit_completed" => ~ Atomic!AcceptsCompleted(k.session, k.record)
      /\ k.op = "commit_terminal" => ~ Atomic!AcceptsTerminal(k.response_id, k.record)
  <2>1. CASE ~ Matches(k)
    BY <2>1 DEF Matches, CompletedMatches, TerminalMatches, Commits,
                Atomic!AcceptsCompleted, Atomic!AcceptsTerminal,
                Atomic!CompletedMatches, Atomic!TerminalMatches
  <2>2. CASE CommitChecks(c)
    <3>1. /\ pc[c] = "work" /\ k.op \in Commits
          /\ Duplicate(k.record.turn_id, k.record.response_id)
      BY <2>2 DEF CommitChecks, Finish, Go, Commits
    <3>2. Hidden = {}
      BY <3>1, WorksAlone DEF Commits
    <3>3. /\ DOMAIN VisibleSessions = DOMAIN sessions
          /\ DOMAIN VisibleResponses = DOMAIN responses
      BY <3>2, SeenAsTheyAre
    <3>4. ~ Atomic!Vacant(k.record.response_id, k.record.turn_id)
      BY <3>1, <3>3 DEF Duplicate, Atomic!Vacant
    <3> QED
      BY <3>1, <3>4 DEF Atomic!AcceptsCompleted, Atomic!AcceptsTerminal,
                        Atomic!CompletedMatches, Atomic!TerminalMatches
  <2> QED
    BY <2>1, <2>2
<1>4. Atomic!Completes(c) \/ Atomic!Terminates(c)
  BY <1>1, <1>2, <1>3 DEF Atomic!Completes, Atomic!Terminates, Atomic!Refused, Refused,
                          Atomic!maps, seen, Commits
<1> QED
  BY <1>4 DEF Atomic!StoreNext

\* A commit takes effect with its last write.
LEMMA CommitTakesEffect ==
  ASSUME LInv, MInv, NEW c \in Callers, Moves(c), InsertTurn(c)
  PROVE  Atomic!StoreNext
<1>1. Atomic!Answer(c, Ok) /\ Client[c].call = call[c]
  BY FinishAnswers DEF InsertTurn
<1>2. CASE /\ call[c].op = "commit_completed"
           /\ Seen!CommitCompleted(call[c].session, call[c].record)
  <2>1. Atomic!CommitCompleted(call[c].session, call[c].record)
    BY <1>2 DEF Atomic!Put, Seen!Put, Atomic!Vacant, Seen!Vacant,
                Atomic!CommitCompleted, Seen!CommitCompleted, Atomic!AcceptsCompleted,
                Seen!AcceptsCompleted, Atomic!CompletedMatches, Seen!CompletedMatches
  <2>2. Atomic!Completes(c)
    BY <1>1, <1>2, <2>1 DEF Atomic!Completes, Atomic!Ok, Ok
  <2> QED
    BY <2>2 DEF Atomic!StoreNext
<1>3. CASE /\ call[c].op = "commit_terminal"
           /\ Seen!CommitTerminal(call[c].response_id, call[c].response, call[c].record)
  <2>1. Atomic!CommitTerminal(call[c].response_id, call[c].response, call[c].record)
    BY <1>3 DEF Atomic!Put, Seen!Put, Atomic!Vacant, Seen!Vacant,
                Atomic!CommitTerminal, Seen!CommitTerminal, Atomic!AcceptsTerminal,
                Seen!AcceptsTerminal, Atomic!TerminalMatches, Seen!TerminalMatches
  <2>2. Atomic!Terminates(c)
    BY <1>1, <1>3, <2>1 DEF Atomic!Terminates, Atomic!Ok, Ok
  <2> QED
    BY <2>2 DEF Atomic!StoreNext
<1> QED
  BY <1>2, <1>3, LastWriteSeen

\* A lookup finds what is seen: if a commit is under way it can only be
\* SessionStore::get beside commit_terminal, which writes no session.
LEMMA LookupsSeeTheMaps ==
  ASSUME LInv, MInv, NEW c \in Callers, Moves(c), Read(c)
  PROVE  Atomic!StoreNext
<1> DEFINE k == call[c]
<1>0. k.op \in {"get", "get_response_json", "get_turn", "count"} /\ pc[c] = "work"
  BY DEF Read, Finish, Go
<1>1. UNCHANGED maps /\ ~ MidCommit(c) /\ ~ MidCommit(c)'
  BY DEF Read, Finish, Go, maps, MidCommit, LInv, Kinds
<1>2. UNCHANGED seen
  BY <1>1, UnseenIfUnchanged
<1>3. Client[c].call = k
  BY <1>0 DEF Client
<1>4. CASE k.op = "get"
  <2>1. Atomic!Answer(c, Found(sessions, k.response_id))
    BY <1>4, FinishAnswers DEF Read
  <2>2. Found(sessions, k.response_id) = Atomic!Found(VisibleSessions, k.response_id)
    <3>1. CASE \A d \in Callers : ~ MidCommit(d)
      BY <3>1, HiddenNone, SeenAsTheyAre DEF Found, Atomic!Found
    <3>2. CASE \E d \in Callers : MidCommit(d)
      <4>1. PICK d \in Callers : MidCommit(d)
        BY <3>2
      <4>2. d # c /\ call[d].op = "commit_terminal"
        BY <1>0, <1>1, <4>1, HalfUnseen DEF HalfCommitsAreUnseen
      <4>3. R(d) \notin DOMAIN sessions /\ Hidden = {R(d)}
        BY <4>1, <4>2, HiddenOne, KindsOf DEF MInv, HalfWritten, MidCommit, Progress
      <4>4. /\ DOMAIN VisibleSessions = DOMAIN sessions
            /\ \A x \in DOMAIN sessions : VisibleSessions[x] = sessions[x]
        BY <4>3 DEF VisibleSessions, Without
      <4> QED
        BY <4>4 DEF Found, Atomic!Found
    <3> QED
      BY <3>1, <3>2
  <2>3. Atomic!Reads(c)
    BY <1>2, <1>3, <1>4, <2>1, <2>2 DEF Atomic!Reads, Atomic!maps, seen
  <2> QED
    BY <2>3 DEF Atomic!StoreNext
<1>5. CASE k.op = "get_response_json"
  <2>1. Atomic!Answer(c, Found(responses, k.response_id))
    BY <1>5, FinishAnswers DEF Read
  <2>2. Found(responses, k.response_id) = Atomic!Found(VisibleResponses, k.response_id)
    BY <1>0, <1>5, WorksAlone, SeenAsTheyAre DEF Found, Atomic!Found
  <2>3. Atomic!Reads(c)
    BY <1>2, <1>3, <1>5, <2>1, <2>2 DEF Atomic!Reads, Atomic!maps, seen
  <2> QED
    BY <2>3 DEF Atomic!StoreNext
<1>6. CASE k.op = "get_turn"
  <2>1. Atomic!Answer(c, Found(turns, k.turn_id))
    BY <1>6, FinishAnswers DEF Read
  <2>2. Atomic!Reads(c)
    BY <1>2, <1>3, <1>6, <2>1 DEF Atomic!Reads, Atomic!maps, seen, Found, Atomic!Found
  <2> QED
    BY <2>2 DEF Atomic!StoreNext
<1>7. CASE k.op = "count"
  <2>1. Atomic!Answer(c, Counted(turns))
    BY <1>7, FinishAnswers DEF Read
  <2>2. Counted(turns) = Atomic!Counted(turns)
    BY DEF Counted, Atomic!Counted, Cardinality, Atomic!Cardinality
  <2>3. Atomic!Reads(c)
    BY <1>2, <1>3, <1>7, <2>1, <2>2 DEF Atomic!Reads, Atomic!maps, seen
  <2> QED
    BY <2>3 DEF Atomic!StoreNext
<1> QED
  BY <1>0, <1>4, <1>5, <1>6, <1>7

\* A put around the commits takes effect with its write, when nothing is
\* hidden.
LEMMA PutsTakeEffect ==
  ASSUME LInv, NEW c \in Callers, Moves(c), PutSession(c) \/ PutResponseJson(c) \/ PutTurn(c)
  PROVE  Atomic!StoreNext
<1> DEFINE k == call[c]
<1>1. /\ pc[c] = "work" /\ pc'[c] = "unlock" /\ call' = call /\ k.op \in Puts
  BY DEF PutSession, PutResponseJson, PutTurn, Finish, Go, Puts, LInv, Kinds
<1>2. Hidden = {} /\ Hidden' = {}
  <2>1. Hidden = {}
    BY <1>1, WorksAlone DEF Puts
  <2>2. Hidden' = Hidden
    BY <1>1, HiddenStays DEF MidCommit
  <2> QED
    BY <2>1, <2>2
<1>3. /\ VisibleSessions = [x \in DOMAIN sessions |-> sessions[x]]
      /\ VisibleResponses = [x \in DOMAIN responses |-> responses[x]]
      /\ VisibleSessions' = [x \in DOMAIN sessions' |-> sessions'[x]]
      /\ VisibleResponses' = [x \in DOMAIN responses' |-> responses'[x]]
  BY <1>2 DEF VisibleSessions, VisibleResponses, Without
<1>4. Client[c].call = k
  BY <1>1 DEF Client
<1>5. Atomic!Puts(c)
  <2>1. CASE PutSession(c)
    <3>1. Atomic!Answer(c, Ok)
      BY <2>1, FinishAnswers DEF PutSession
    <3>2. VisibleSessions' = Atomic!Put(VisibleSessions, k.session.response_id, k.session)
      BY <1>3, <2>1 DEF PutSession, Put, Atomic!Put
    <3>3. VisibleResponses' = VisibleResponses
      BY <1>3, <2>1 DEF PutSession
    <3> QED
      BY <1>4, <2>1, <3>1, <3>2, <3>3 DEF PutSession, Atomic!Puts, Atomic!Ok, Ok
  <2>2. CASE PutResponseJson(c)
    <3>1. Atomic!Answer(c, Ok)
      BY <2>2, FinishAnswers DEF PutResponseJson
    <3>2. VisibleResponses' = Atomic!Put(VisibleResponses, k.response_id, k.response)
      BY <1>3, <2>2 DEF PutResponseJson, Put, Atomic!Put
    <3>3. VisibleSessions' = VisibleSessions
      BY <1>3, <2>2 DEF PutResponseJson
    <3> QED
      BY <1>4, <2>2, <3>1, <3>2, <3>3 DEF PutResponseJson, Atomic!Puts, Atomic!Ok, Ok
  <2>3. CASE PutTurn(c)
    <3>1. \/ k.record.turn_id \in DOMAIN turns /\ Atomic!Answer(c, Refused) /\ turns' = turns
          \/ /\ k.record.turn_id \notin DOMAIN turns
             /\ Atomic!Answer(c, Ok)
             /\ turns' = Put(turns, k.record.turn_id, k.record)
      BY <2>3, FinishAnswers DEF PutTurn
    <3>2. VisibleSessions' = VisibleSessions /\ VisibleResponses' = VisibleResponses
      BY <1>3, <2>3 DEF PutTurn
    <3> QED
      BY <1>4, <2>3, <3>1, <3>2 DEF PutTurn, Atomic!Puts, Atomic!Ok, Ok, Atomic!Refused, Refused,
                                    Atomic!maps, Put, Atomic!Put
  <2> QED
    BY <2>1, <2>2, <2>3
<1> QED
  BY <1>5 DEF Atomic!StoreNext

\* The locked store implements the atomic one: every step of its callers is
\* a step of calls that take effect one at a time, or is not seen at all.
\* What any caller is answered it could have been answered by the atomic
\* store, however the locks of session/mod.rs are interleaved and whichever
\* calls are dropped.
THEOREM StoreIsAtomic == Spec => Atomic!StoreSafety
<1>1. Init => Atomic!StoreInit
  <2> SUFFICES ASSUME Init PROVE Atomic!StoreInit
    OBVIOUS
  <2>1. Atomic!MapsInit
    BY DEF Init, MapsInit, EmptyMap, Atomic!MapsInit, Atomic!EmptyMap, VisibleSessions,
           VisibleResponses, Without
  <2>2. Client = [c \in Callers |-> Atomic!Idle]
    BY DEF Init, Client, Phase, Atomic!Idle, Atomic!NoCall, Atomic!NoAnswer, NoCall, NoAnswer
  <2> QED
    BY <2>1, <2>2 DEF Atomic!StoreInit
<1>2. LInv /\ MInv /\ [Next]_vars => [Atomic!StoreNext]_Atomic!storeVars
  <2>1. ASSUME LInv, MInv, NEW c \in Callers, Moves(c)
        PROVE  Atomic!StoreNext \/ UNCHANGED Atomic!storeVars
    <3>1. CASE \/ Lock(c) \/ Acquire(c) \/ Unlock(c)
               \/ Validate(c) /\ Matches(call[c])
               \/ CompletedResponse(c) \/ CompletedSession(c) \/ TerminalResponse(c)
      BY <2>1, <3>1, InnerSteps
    <3>2. CASE (\E k \in Calls : Invoke(c, k)) \/ Return(c) \/ Cancel(c)
      BY <2>1, <3>2, OuterSteps
    <3>3. CASE (Validate(c) /\ ~ Matches(call[c])) \/ CommitChecks(c)
      BY <2>1, <3>3, Refusals
    <3>4. CASE InsertTurn(c)
      BY <2>1, <3>4, CommitTakesEffect
    <3>5. CASE Read(c)
      BY <2>1, <3>5, LookupsSeeTheMaps
    <3>6. CASE PutSession(c) \/ PutResponseJson(c) \/ PutTurn(c)
      BY <2>1, <3>6, PutsTakeEffect
    <3> QED
      BY <2>1, <3>1, <3>2, <3>3, <3>4, <3>5, <3>6, StepsOfACall DEF Moves, Quiet
  <2>2. ASSUME UNCHANGED vars PROVE UNCHANGED Atomic!storeVars
    BY <2>2 DEF vars, clientVars, maps, Atomic!storeVars, Atomic!maps, VisibleSessions,
                VisibleResponses, Without, Hidden, MidCommit, Client, Phase
  <2> QED
    BY <2>1, <2>2, NextMoves
<1> QED
  BY <1>1, <1>2, LInvHolds, MInvHolds, PTL DEF Spec, Atomic!StoreSafety
=============================================================================
