--------------------------- MODULE ExperimentProofs ---------------------------
(***************************************************************************)
(* Proofs about Experiment for every set of targets, benchmarks, checks,   *)
(* answers and ends of processes, any number of invocations, and any       *)
(* failure, crash or change of the tools between two steps.                *)
(***************************************************************************)
EXTENDS Experiment, VerdictProofs, FiniteSetTheorems, TLAPS

(* Products of positive numbers are positive, and grow with their factors. *)
LEMMA Products ==
  ASSUME NEW a \in Nat, NEW k \in Nat
  PROVE  /\ a * k \in Nat
         /\ a # 0 /\ k # 0 => a * k # 0
OBVIOUS

LEMMA Steps ==
  ASSUME NEW a \in Nat, NEW b \in Nat, NEW k \in Nat, a < b
  PROVE  a * k + k <= b * k
<1>1. (b - a - 1) * k \in Nat
  OBVIOUS
<1>2. (b - a - 1) * k = b * k - a * k - k
  OBVIOUS
<1>3. a * k \in Int /\ b * k \in Int
  OBVIOUS
<1>4. QED
  BY <1>1, <1>2, <1>3

(* A number is taken apart into the quotient and the remainder.            *)
LEMMA QuotientAndRest ==
  ASSUME NEW a \in Nat, NEW k \in Nat \ {0}, NEW r \in 0..(k - 1)
  PROVE  (a * k + r) \div k = a /\ (a * k + r) % k = r
OBVIOUS

LEMMA QuotientBound ==
  ASSUME NEW a \in Nat, NEW k \in Nat \ {0}, NEW x \in Nat, x < a * k
  PROVE  x \div k \in Nat /\ x \div k < a
<1> DEFINE q == x \div k
<1>1. q \in Nat /\ x = k * q + (x % k) /\ x % k \in 0..(k - 1)
  OBVIOUS
<1> HIDE DEF q
<1>2. CASE q < a
  BY <1>1, <1>2 DEF q
<1>3. CASE ~(q < a)
  <2>1. a * k <= q * k
    <3>1. CASE a = q
      BY <3>1
    <3>2. CASE a < q
      <4>1. a * k + k <= q * k
        BY <1>1, <3>2, Steps
      <4>2. a * k \in Nat /\ q * k \in Nat
        BY <1>1
      <4>3. QED
        BY <4>1, <4>2
    <3>3. QED
      BY <1>1, <1>3, <3>1, <3>2
  <2>2. x >= q * k
    BY <1>1
  <2>3. a * k \in Nat /\ q * k \in Nat
    BY <1>1
  <2>4. QED
    BY <2>1, <2>2, <2>3
<1>4. QED
  BY <1>2, <1>3

(* The plan is a list of tasks, and not empty.                             *)
TaskAt(x) ==
  [target |-> Targets[(x \div (Len(Suite) * Repetitions)) + 1],
   benchmark |-> Suite[((x \div Repetitions) % Len(Suite)) + 1],
   rep |-> (x % Repetitions) + 1]

LEMMA PlanTyped ==
  /\ Len(Targets) * Len(Suite) * Repetitions \in Nat \ {0}
  /\ Plan \in Seq(Task) /\ Len(Plan) = Len(Targets) * Len(Suite) * Repetitions
  /\ \A i \in 1..Len(Plan) : Plan[i] = TaskAt(i - 1)
<1> DEFINE m == Len(Targets)
           n == Len(Suite)
           k == Repetitions
           size == m * n * k
<1>1. m \in Nat \ {0} /\ n \in Nat \ {0} /\ k \in Nat \ {0}
  BY ExperimentAssumption
<1>2. Plan = [i \in 1..size |-> TaskAt(i - 1)]
  BY Zenon DEF Plan, TaskAt
<1> HIDE DEF m, n, k
<1>3. n * k \in Nat \ {0} /\ m * n \in Nat \ {0} /\ size = m * (n * k)
  <2>1. n * k \in Nat /\ n * k # 0
    BY <1>1, Products
  <2>2. m * n \in Nat /\ m * n # 0
    BY <1>1, Products
  <2>3. size = m * (n * k)
    BY <1>1
  <2>4. QED
    BY <2>1, <2>2, <2>3
<1>4. size \in Nat \ {0}
  BY <1>1, <1>3, Products
<1> HIDE DEF size
<1>5. ASSUME NEW x \in 0..(size - 1) PROVE TaskAt(x) \in Task
  <2>1. x \in Nat /\ x < m * (n * k)
    BY <1>3, <1>4
  <2>2. x \div (n * k) \in Nat /\ x \div (n * k) < m
    BY <1>1, <1>3, <2>1, QuotientBound
  <2>3. x \div k \in Nat /\ x % k \in 0..(k - 1)
    BY <1>1, <2>1
  <2>4. (x \div k) % n \in 0..(n - 1)
    BY <1>1, <2>3
  <2>5. Targets[(x \div (n * k)) + 1] \in Range(Targets)
    <3>1. (x \div (n * k)) + 1 \in 1..m
      BY <1>1, <2>2
    <3>2. DOMAIN Targets = 1..m
      BY ExperimentAssumption DEF m
    <3>3. QED
      BY <3>1, <3>2 DEF Range
  <2>6. Suite[((x \div k) % n) + 1] \in Range(Suite)
    <3>1. ((x \div k) % n) + 1 \in 1..n
      BY <1>1, <2>4
    <3>2. DOMAIN Suite = 1..n
      BY ExperimentAssumption DEF n
    <3>3. QED
      BY <3>1, <3>2 DEF Range
  <2>7. (x % k) + 1 \in 1..k
    BY <1>1, <2>3
  <2>8. QED
    BY <2>5, <2>6, <2>7 DEF TaskAt, Task, n, k
<1>6. Plan \in Seq(Task) /\ Len(Plan) = size /\ \A i \in 1..size : Plan[i] = TaskAt(i - 1)
  BY <1>2, <1>4, <1>5
<1>7. QED
  BY <1>4, <1>6 DEF size, m, n, k

(* Every target, benchmark and repetition is in the plan.                  *)
LEMMA PlanCovers ==
  ASSUME NEW task \in Task
  PROVE  \E i \in 1..Len(Plan) : Plan[i] = task
<1> DEFINE m == Len(Targets)
           n == Len(Suite)
           k == Repetitions
<1>1. m \in Nat \ {0} /\ n \in Nat \ {0} /\ k \in Nat \ {0}
  BY ExperimentAssumption
<1>2. PICK t \in DOMAIN Targets, b \in DOMAIN Suite :
        task.target = Targets[t] /\ task.benchmark = Suite[b]
  BY DEF Task, Range
<1>3. DOMAIN Targets = 1..m /\ DOMAIN Suite = 1..n /\ task.rep \in 1..k
  BY ExperimentAssumption DEF Task
<1> HIDE DEF m, n, k
<1> DEFINE a == t - 1
           c == b - 1
           r == task.rep - 1
           q == a * n + c
           x == q * k + r
<1>4. a \in 0..(m - 1) /\ c \in 0..(n - 1) /\ r \in 0..(k - 1) /\ a \in Nat /\ c \in Nat /\ r \in Nat
  <2>1. t \in 1..m /\ b \in 1..n /\ task.rep \in 1..k
    BY <1>2, <1>3
  <2>2. a \in 0..(m - 1) /\ a \in Nat
    BY <1>1, <2>1
  <2>3. c \in 0..(n - 1) /\ c \in Nat
    BY <1>1, <2>1
  <2>4. r \in 0..(k - 1) /\ r \in Nat
    BY <1>1, <2>1
  <2>5. QED
    BY <2>2, <2>3, <2>4
<1> HIDE DEF a, c, r
<1>5. q \in Nat /\ q % n = c
  <2>1. q \in Nat
    BY <1>1, <1>4
  <2>2. q % n = c
    BY <1>1, <1>4, QuotientAndRest
  <2>3. QED
    BY <2>1, <2>2
<1> HIDE DEF q
<1>6. x \div k = q /\ x % k = r
  BY <1>1, <1>4, <1>5, QuotientAndRest
<1>7. (x \div k) % n = c
  BY <1>5, <1>6
<1>8. n * k \in Nat \ {0}
  BY <1>1, Products
<1>9. c * k + r \in 0..(n * k - 1)
  <2>1. c * k \in Nat /\ n * k \in Nat
    BY <1>1, <1>4, <1>8
  <2>2. c * k + k <= n * k
    BY <1>1, <1>4, Steps
  <2>3. QED
    BY <1>1, <1>4, <2>1, <2>2
<1>10. x = a * (n * k) + (c * k + r)
  BY <1>1, <1>4 DEF q
<1>11. x \div (n * k) = a
  BY <1>4, <1>8, <1>9, <1>10, QuotientAndRest
<1>12. x \in Nat /\ x < m * (n * k)
  <2>1. a * (n * k) \in Nat /\ m * (n * k) \in Nat
    BY <1>1, <1>4, <1>8
  <2>2. a * (n * k) + n * k <= m * (n * k)
    BY <1>1, <1>4, <1>8, Steps
  <2>3. QED
    BY <1>8, <1>9, <1>10, <2>1, <2>2
<1>13. Len(Plan) = m * (n * k)
  <2>1. Len(Plan) = m * n * k
    BY PlanTyped DEF m, n, k
  <2>2. QED
    BY <1>1, <2>1
<1> HIDE DEF x
<1>14. x + 1 \in 1..Len(Plan) /\ Plan[x + 1] = TaskAt(x)
  <2>1. x + 1 \in 1..Len(Plan) /\ (x + 1) - 1 = x
    BY <1>12, <1>13
  <2>2. QED
    BY <2>1, PlanTyped
<1>15. TaskAt(x) = [target |-> Targets[a + 1], benchmark |-> Suite[c + 1], rep |-> r + 1]
  BY <1>6, <1>7, <1>11 DEF TaskAt, n, k
<1>16. Targets[a + 1] = task.target /\ Suite[c + 1] = task.benchmark /\ r + 1 = task.rep
  BY <1>2, <1>3 DEF a, c, r
<1>17. task = [target |-> task.target, benchmark |-> task.benchmark, rep |-> task.rep]
  BY DEF Task
<1>18. QED
  BY <1>14, <1>15, <1>16, <1>17

(* The checks run in an order of their own: each of them once, and those   *)
(* that start a process before those that do not (runDeterministicChecks). *)
LEMMA AuthorityOrder ==
  ASSUME NEW S, NEW checks \in Seq(S)
  PROVE  /\ InAuthorityOrder(checks) \in Seq(Range(checks))
         /\ \E p \in Bijection(DOMAIN checks, DOMAIN checks) :
              \A k \in DOMAIN checks : InAuthorityOrder(checks)[k] = checks[p[k]]
         /\ \A k, l \in DOMAIN checks :
              k < l /\ InAuthorityOrder(checks)[l].kind = "command"
                => InAuthorityOrder(checks)[k].kind = "command"
<1> DEFINE n == Len(checks)
           D == DOMAIN checks
           command(i) == checks[i].kind = "command"
           before(i, j) == \/ command(i) /\ ~command(j)
                           \/ (command(i) <=> command(j)) /\ i < j
           earlier(i) == {j \in D : before(j, i)}
           place(i) == Cardinality({j \in D : before(j, i)}) + 1
           at(k) == CHOOSE i \in D : place(i) = k
<1>1. n \in Nat /\ D = 1..n
  OBVIOUS
<1>2. InAuthorityOrder(checks) = [k \in D |-> checks[at(k)]]
  BY Zenon DEF InAuthorityOrder
<1>3. IsFiniteSet(D) /\ Cardinality(D) = n
  <2>1. 1 \in Int /\ n \in Int
    BY <1>1
  <2>2. IsFiniteSet(1..n) /\ Cardinality(1..n) = IF 1 > n THEN 0 ELSE n - 1 + 1
    BY <2>1, FS_Interval
  <2>3. QED
    BY <1>1, <2>2
<1>4. /\ \A i \in D : ~before(i, i)
      /\ \A i, j \in D : i # j => before(i, j) \/ before(j, i)
      /\ \A i, j, l \in D : before(i, j) /\ before(j, l) => before(i, l)
      /\ \A i, j \in D : before(i, j) /\ command(j) => command(i)
  BY <1>1
<1> HIDE DEF n, D, before
<1>5. \A i \in D : /\ IsFiniteSet(earlier(i)) /\ earlier(i) \subseteq D /\ i \notin earlier(i)
                   /\ Cardinality(earlier(i)) \in Nat /\ place(i) = Cardinality(earlier(i)) + 1
  BY <1>3, <1>4, FS_Subset, FS_CardinalityType
<1>6. \A i, j \in D : before(i, j) => place(i) < place(j)
  <2> SUFFICES ASSUME NEW i \in D, NEW j \in D, before(i, j) PROVE place(i) < place(j)
    OBVIOUS
  <2>1. earlier(i) \cup {i} \subseteq earlier(j)
    BY <1>4
  <2>2. Cardinality(earlier(i) \cup {i}) = Cardinality(earlier(i)) + 1
    BY <1>5, FS_AddElement
  <2>3. Cardinality(earlier(i) \cup {i}) <= Cardinality(earlier(j))
    BY <1>5, <2>1, FS_Subset
  <2> HIDE DEF earlier
  <2>4. QED
    BY <1>5, <2>2, <2>3
<1>7. \A i \in D : place(i) \in D
  <2> SUFFICES ASSUME NEW i \in D PROVE place(i) \in D
    OBVIOUS
  <2>1. Cardinality(earlier(i) \cup {i}) = Cardinality(earlier(i)) + 1
    BY <1>5, FS_AddElement
  <2>2. Cardinality(earlier(i) \cup {i}) <= n
    <3>1. earlier(i) \cup {i} \subseteq D
      BY <1>5
    <3>2. QED
      BY <1>3, <3>1, FS_Subset
  <2> HIDE DEF earlier
  <2>3. QED
    BY <1>1, <1>5, <2>1, <2>2
<1> HIDE DEF earlier
<1>8. \A i \in D : place(i) \in Nat
  BY <1>1, <1>7
<1> HIDE DEF place
<1>9. \A i, j \in D : place(i) = place(j) => i = j
  BY <1>4, <1>6, <1>8
<1>10. \A k \in D : \E i \in D : place(i) = k
  <2> DEFINE f == [i \in D |-> place(i)]
  <2>1. f \in Injection(D, D)
    BY <1>7, <1>9 DEF Injection, IsInjective
  <2>2. f \in Surjection(D, D)
    BY <1>3, <2>1, FS_Injection
  <2>3. QED
    BY <2>2 DEF Surjection
<1>11. \A k \in D : at(k) \in D /\ place(at(k)) = k
  BY <1>10
<1> HIDE DEF at
<1>12. InAuthorityOrder(checks) \in Seq(Range(checks))
  <2>1. \A k \in D : checks[at(k)] \in Range(checks)
    BY <1>11 DEF Range, D
  <2>2. QED
    BY <1>1, <1>2, <2>1
<1>13. \E p \in Bijection(D, D) : \A k \in D : InAuthorityOrder(checks)[k] = checks[p[k]]
  <2> DEFINE p == [k \in D |-> at(k)]
  <2>1. p \in Injection(D, D)
    <3>1. \A k, l \in D : at(k) = at(l) => k = l
      BY <1>11
    <3>2. QED
      BY <1>11, <3>1 DEF Injection, IsInjective
  <2>2. p \in Surjection(D, D)
    BY <1>3, <2>1, FS_Injection
  <2>3. p \in Bijection(D, D)
    BY <2>1, <2>2 DEF Bijection
  <2>4. \A k \in D : InAuthorityOrder(checks)[k] = checks[p[k]]
    BY <1>2
  <2>5. QED
    BY <2>3, <2>4
<1>14. ASSUME NEW k \in D, NEW l \in D, k < l, InAuthorityOrder(checks)[l].kind = "command"
       PROVE  InAuthorityOrder(checks)[k].kind = "command"
  <2>1. command(at(l))
    BY <1>2, <1>14
  <2>2. before(at(k), at(l))
    <3>1. at(k) \in D /\ at(l) \in D /\ place(at(k)) = k /\ place(at(l)) = l
      BY <1>11
    <3>2. at(k) # at(l) /\ ~(place(at(l)) < place(at(k)))
      BY <1>1, <1>14, <3>1
    <3>3. QED
      BY <1>4, <1>6, <3>1, <3>2
  <2>3. command(at(k))
    BY <1>4, <1>11, <2>1, <2>2
  <2>4. QED
    BY <1>2, <2>3
<1>15. QED
  BY <1>12, <1>13, <1>14 DEF D

-----------------------------------------------------------------------------
(* The repetition under way is the one of the plan that comes when as many *)
(* are left.                                                               *)
LEMMA UnderWay ==
  ASSUME CommandInOrder, pc # "idle"
  PROVE  /\ Len(Plan) \in Nat /\ Len(todo) \in 1..Len(Plan) /\ Len(Tail(todo)) = Len(todo) - 1
         /\ Current \in Task /\ Current = Plan[Len(Plan) + 1 - Len(todo)]
         /\ FileOf(Current, Now) = FileAt(session, Len(todo))
         /\ Current.target \in Range(Targets) /\ Current.benchmark \in Range(Suite)
         /\ Definition.checks \in Seq(Range(Definition.checks))
         /\ \A c \in Range(Definition.checks) : IsCheck(c)
<1>1. Plan \in Seq(Task) /\ Len(Plan) \in Nat
  BY PlanTyped
<1>2. todo \in Seq(Task) /\ todo # << >> /\ Len(todo) <= Len(Plan)
  BY DEF CommandInOrder
<1>3. Len(todo) \in 1..Len(Plan) /\ Len(Tail(todo)) = Len(todo) - 1 /\ 1 \in DOMAIN todo
  BY <1>1, <1>2
<1>4. Current = todo[1] /\ Current \in Task
  BY <1>2, <1>3 DEF Current
<1>5. todo[1] = Plan[Len(Plan) - Len(todo) + 1]
  BY <1>3 DEF CommandInOrder
<1>6. Len(Plan) - Len(todo) + 1 = Len(Plan) + 1 - Len(todo)
  BY <1>1, <1>3
<1>7. FileOf(Current, Now) = FileAt(session, Len(todo))
  BY <1>4, <1>5, <1>6 DEF FileOf, FileAt, Now
<1>8. Current.target \in Range(Targets) /\ Current.benchmark \in Range(Suite)
  BY <1>4 DEF Task
<1>9. Current.benchmark \in Benchmarks
  BY <1>8, ExperimentAssumption
<1>10. QED
  BY <1>1, <1>3, <1>4, <1>5, <1>6, <1>7, <1>8, <1>9, ExperimentAssumption DEF Definition

(* What the name of a file says.                                          *)
LEMMA NamesTyped ==
  ASSUME NEW s, NEW k
  PROVE  FileAt(s, k)[1] = Plan[Len(Plan) + 1 - k] /\ FileAt(s, k)[2] = <<s, k>> /\ FileAt(s, k)[2][1] = s
BY DEF FileAt, FileOf

(* An invocation that is aborted leaves nothing to be done.                *)
LEMMA AbortInOrder ==
  ASSUME Abort PROVE CommandInOrder' /\ DraftOfCurrent'
<1>1. pc' = "idle" /\ todo' = << >> /\ uninspected' = << >> /\ draft' = NoDraft
  BY DEF Abort
<1>2. << >> \in Seq(Task) /\ << >> \in Seq(Range(Targets)) /\ Len(<< >>) = 0 /\ DOMAIN << >> = {}
  OBVIOUS
<1>3. Len(Plan) \in Nat
  BY PlanTyped
<1>4. QED
  BY <1>1, <1>2, <1>3 DEF CommandInOrder, DraftOfCurrent

(* A request that is sent is the first of the repetitions left.            *)
LEMMA SendInOrder ==
  ASSUME ExperimentInv, NEW tasks, Send(tasks), UNCHANGED uninspected \/ uninspected' = << >>,
         tasks \in Seq(Task), tasks # << >>, Len(tasks) <= Len(Plan),
         \A i \in DOMAIN tasks : tasks[i] = Plan[Len(Plan) - Len(tasks) + i]
  PROVE  CommandInOrder' /\ DraftOfCurrent'
<1>1. pc' = "send" /\ todo' = tasks /\ draft' = Draft(Head(tasks))
  BY DEF Send
<1>2. uninspected' \in Seq(Range(Targets))
  <2>1. << >> \in Seq(Range(Targets))
    OBVIOUS
  <2>2. QED
    BY <2>1 DEF ExperimentInv, CommandInOrder
<1>3. CommandInOrder'
  BY <1>1, <1>2 DEF CommandInOrder
<1>4. Head(tasks) \in Task /\ Current' = Head(tasks)
  BY <1>1 DEF Current
<1> DEFINE d == Draft(Head(tasks))
<1>5. d \in Record
  <2>1. << >> \in Seq(Evaluated) /\ << >> \in Seq(Judgments)
    OBVIOUS
  <2>2. Head(tasks).target \in Range(Targets) /\ Head(tasks).benchmark \in Range(Suite)
    BY <1>4 DEF Task
  <2>3. QED
    BY <2>1, <2>2 DEF Draft, Record
<1>6. d.target = Head(tasks).target /\ d.benchmark = Head(tasks).benchmark /\ d.evals = << >>
  BY DEF Draft
<1> HIDE DEF d
<1>7. DraftOfCurrent'
  BY <1>1, <1>4, <1>5, <1>6 DEF DraftOfCurrent, OfCurrent, d
<1>8. QED
  BY <1>3, <1>7

(* What a check that starts a process, and one that does not, can come to;  *)
(* without its tool the former neither passes nor fails.                   *)
LEMMA StatusesTyped ==
  /\ \A check, end, prints : CommandStatus(check, SandboxExec(end), prints) \in Statuses
  /\ \A check, prints : CommandStatus(check, SandboxExec("absent"), prints) = "not_available"
  /\ \A check, output, has, ws :
       IsCheck(check) /\ check.kind # "command" => StructuralStatus(check, output, has, ws) \in Statuses
<1>1. \A check, end, prints : CommandStatus(check, SandboxExec(end), prints) \in Statuses
  BY DEF CommandStatus, PassIf, Statuses
<1>2. \A check, prints : CommandStatus(check, SandboxExec("absent"), prints) = "not_available"
  BY DEF CommandStatus, SandboxExec, Exec
<1>3. ASSUME NEW check, NEW output, NEW has, NEW ws, IsCheck(check), check.kind # "command"
      PROVE  StructuralStatus(check, output, has, ws) \in Statuses
  <2> USE DEF Statuses, PassIf
  <2>1. CASE check.kind = "json_schema" /\ check.source = "output"
    BY <2>1 DEF StructuralStatus
  <2>2. CASE check.kind = "json_schema" /\ check.source = "file"
    BY <2>2 DEF StructuralStatus
  <2>3. CASE check.kind = "required_sections"
    BY <2>3 DEF StructuralStatus
  <2>4. CASE check.kind = "regex"
    BY <2>4 DEF StructuralStatus
  <2>5. CASE check.kind = "file_exists"
    BY <2>5 DEF StructuralStatus
  <2>6. QED
    BY <1>3, <2>1, <2>2, <2>3, <2>4, <2>5 DEF IsCheck
<1>4. QED
  BY <1>1, <1>2, <1>3

(* Grounded, for given starts and refusals.                                *)
Grounds(e, f, i, starts, refused) ==
  ~e.structural /\ e.status \in {"pass", "fail"} =>
    \/ <<f, i>> \in starts
    \/ <<f, i>> \in refused /\ (e.status = "fail" \/ ExitOneExpected)

LEMMA GroundedIs ==
  ASSUME NEW e, NEW f, NEW i
  PROVE  /\ Grounded(e, f, i) <=> Grounds(e, f, i, ran, refusals)
         /\ Grounded(e, f, i)' <=> Grounds(e, f, i, ran', refusals')
<1>1. ExitOneExpected' <=> ExitOneExpected
  BY DEF ExitOneExpected
<1>2. QED
  BY <1>1 DEF Grounded, Grounds

(* What is grounded stays so while starts and refusals are only added.     *)
LEMMA GroundsStay ==
  ASSUME NEW e, NEW f, NEW i, ran \subseteq ran' /\ refusals \subseteq refusals',
         Grounds(e, f, i, ran, refusals)
  PROVE  Grounds(e, f, i, ran', refusals')
BY DEF Grounds

(* A process that is refused passes a check only if the check expects exit *)
(* code 1.                                                                 *)
LEMMA RefusedPasses ==
  ASSUME NEW check \in Range(Definition.checks), check.kind = "command", NEW prints,
         Current.benchmark \in Benchmarks,
         CommandStatus(check, SandboxExec("refused"), prints) = "pass"
  PROVE  ExitOneExpected
<1>1. check.expectExitCode = 1
  BY DEF CommandStatus, SandboxExec, Exec, PassIf
<1>2. QED
  BY <1>1 DEF ExitOneExpected, Definition

(* While a repetition is under way the command stays in its order.         *)
LEMMA StaysInOrder ==
  ASSUME ExperimentInv, UNCHANGED <<todo, uninspected>>, pc \notin {"idle", "inspect"},
         pc' \notin {"idle", "inspect"},
         pc' \in {"workspace", "checks"} => pending' \in Seq(Range(Definition.checks))
  PROVE  CommandInOrder'
<1>1. Definition' = Definition
  BY DEF Definition, Current
<1>2. QED
  BY <1>1 DEF ExperimentInv, CommandInOrder

(* The record being made keeps its target and its benchmark, and its       *)
(* results; a new result stands on its own.                                *)
LEMMA DraftStays ==
  ASSUME ExperimentInv, UNCHANGED <<todo, session>>, pc \notin {"idle", "inspect"}, ran \subseteq ran' /\ refusals \subseteq refusals',
         draft' \in Record, draft'.target = draft.target, draft'.benchmark = draft.benchmark,
         \A i \in DOMAIN draft'.evals :
           \/ i \in DOMAIN draft.evals /\ draft'.evals[i] = draft.evals[i]
           \/ Grounds(draft'.evals[i], FileOf(Current, Now), i, ran', refusals')
  PROVE  DraftOfCurrent'
<1> DEFINE file == FileOf(Current, Now)
<1>1. Current' = Current /\ file' = file
  BY DEF Current, FileOf, Now
<1>2. DraftOfCurrent
  BY DEF ExperimentInv
<1>3. OfCurrent(draft)'
  BY <1>1, <1>2 DEF DraftOfCurrent, OfCurrent
<1>4. \A i \in DOMAIN draft.evals : Grounds(draft.evals[i], file, i, ran, refusals)
  BY <1>2, GroundedIs DEF DraftOfCurrent
<1>5. \A i \in DOMAIN draft'.evals : Grounds(draft'.evals[i], file, i, ran', refusals')
  BY <1>4, GroundsStay
<1>6. \A i \in DOMAIN draft'.evals : Grounded(draft.evals[i], file, i)'
  <2>1. ExitOneExpected' <=> ExitOneExpected
    BY DEF ExitOneExpected
  <2> HIDE DEF file
  <2>2. QED
    BY <1>1, <1>5, <2>1 DEF Grounded, Grounds
<1>7. QED
  BY <1>3, <1>6 DEF DraftOfCurrent

(* A check that is settled adds its result, and leaves the others to do.   *)
LEMMA SettleInOrder ==
  ASSUME ExperimentInv, Checking, NEW status \in Statuses, Settle(Head(pending), status),
         UNCHANGED <<pc, session, todo, uninspected>>, ran \subseteq ran' /\ refusals \subseteq refusals',
         Head(pending).kind = "command" /\ status \in {"pass", "fail"}
           => LET verdict == <<FileOf(Current, Now), Len(draft.evals) + 1>>
              IN  verdict \in ran' \/ (verdict \in refusals' /\ (status = "fail" \/ ExitOneExpected))
  PROVE  CommandInOrder' /\ DraftOfCurrent'
<1> DEFINE check == Head(pending)
           result == Result(check, status)
           evals == Append(draft.evals, result)
<1>1. pc = "checks" /\ pc' = "checks" /\ pending # << >>
  BY DEF Checking
<1>2. pending \in Seq(Range(Definition.checks)) /\ CommandInOrder /\ DraftOfCurrent
  BY <1>1 DEF ExperimentInv, CommandInOrder
<1>3. pending' = Tail(pending) /\ draft' = [draft EXCEPT !.evals = evals]
  BY DEF Settle
<1>4. CommandInOrder'
  <2>1. pending' \in Seq(Range(Definition.checks))
    BY <1>1, <1>2, <1>3
  <2>2. QED
    BY <1>1, <2>1, StaysInOrder
<1>5. check \in Range(Definition.checks) /\ IsCheck(check)
  BY <1>1, <1>2, UnderWay
<1>6. result \in Evaluated /\ result.status = status /\ (~result.structural => check.kind = "command")
  BY <1>5 DEF IsCheck, Result, Evaluated
<1>7. draft \in Record /\ draft.evals \in Seq(Evaluated)
  BY <1>1, <1>2 DEF DraftOfCurrent, OfCurrent, Record
<1> HIDE DEF result, check
<1>8. /\ evals \in Seq(Evaluated) /\ DOMAIN evals = 1..(Len(draft.evals) + 1)
      /\ DOMAIN draft.evals = 1..Len(draft.evals) /\ Len(draft.evals) \in Nat
      /\ \A i \in 1..Len(draft.evals) : evals[i] = draft.evals[i]
      /\ evals[Len(draft.evals) + 1] = result
  BY <1>6, <1>7
<1> HIDE DEF evals
<1>9. /\ draft' \in Record /\ draft'.evals = evals /\ draft'.target = draft.target
      /\ draft'.benchmark = draft.benchmark
  BY <1>3, <1>7, <1>8 DEF Record
<1>10. ASSUME NEW i \in DOMAIN draft'.evals
       PROVE  \/ i \in DOMAIN draft.evals /\ draft'.evals[i] = draft.evals[i]
              \/ Grounds(draft'.evals[i], FileOf(Current, Now), i, ran', refusals')
  <2>1. CASE i \in 1..Len(draft.evals)
    BY <1>8, <1>9, <2>1
  <2>2. CASE i = Len(draft.evals) + 1
    BY <1>6, <1>8, <1>9, <2>2 DEF check, Grounds
  <2>3. QED
    BY <1>8, <1>9, <1>10, <2>1, <2>2
<1>11. DraftOfCurrent'
  BY <1>1, <1>9, <1>10, DraftStays
<1>12. QED
  BY <1>4, <1>11

-----------------------------------------------------------------------------
(* The parts of the invariant, step by step.                               *)

LEMMA Initial ==
  ASSUME Init PROVE ExperimentInv
<1> USE DEF Init
<1>1. << >> \in Seq(Task) /\ << >> \in Seq(Range(Targets)) /\ Len(<< >>) = 0 /\ DOMAIN << >> = {}
  OBVIOUS
<1>2. CommandInOrder /\ DraftOfCurrent
  BY <1>1, PlanTyped DEF CommandInOrder, DraftOfCurrent
<1>3. FilesOfRepetitions /\ DoneIsFiled /\ NoVerdictWithoutRun
  BY <1>1 DEF FilesOfRepetitions, DoneIsFiled, NoVerdictWithoutRun, Intact
<1>4. OnlyOrphansLeft
  BY DEF OnlyOrphansLeft
<1>5. 0 \in 0..MaxSessions
  BY ExperimentAssumption
<1>6. \A t \in DOMAIN cache : cache[t] \in {"unknown", "available", "missing"}
  BY DEF Unknown
<1>7. QED
  BY <1>2, <1>3, <1>4, <1>5, <1>6 DEF ExperimentInv

(* The command awaits one thing at a time, and knows of a tool that it is  *)
(* there, that it is missing, or nothing.                                  *)
Types ==
  /\ pc \in {"idle", "inspect", "send", "body", "workspace", "checks", "write", "writing"}
  /\ session \in 0..MaxSessions /\ timer \in BOOLEAN /\ thrown \in BOOLEAN
  /\ \A t \in DOMAIN cache : cache[t] \in {"unknown", "available", "missing"}

LEMMA AbortTyped ==
  ASSUME Types, Abort, UNCHANGED session PROVE Types'
BY DEF Types, Abort, Unknown

(* A workspace is made, or the command is on its way out.                  *)
LEMMA MakesWorkspace ==
  ASSUME MakeWorkspace
  PROVE  /\ pc = "workspace" /\ disk' = disk \cup {WorkspaceId}
         /\ UNCHANGED <<session, files, complete, ran, refusals>>
         /\ \/ Abort /\ excused' = excused \cup {WorkspaceId}
            \/ pc' = "checks" /\ UNCHANGED <<request, draft, pending, thrown, cache, excused>>
<1>1. UNCHANGED <<session, installed, files, complete, ran, refusals, bounds>>
  BY Zenon DEF MakeWorkspace, Leave, spawned
<1>2. pc = "workspace" /\ disk' = disk \cup {WorkspaceId}
  BY Zenon DEF MakeWorkspace
<1>3. \/ Abort /\ excused' = excused \cup {WorkspaceId}
      \/ pc' = "checks" /\ UNCHANGED <<request, draft, pending, thrown, cache, excused>>
  BY Zenon DEF MakeWorkspace
<1>4. QED
  BY <1>1, <1>2, <1>3

LEMMA TypesStep ==
  ASSUME Types, [Next]_vars PROVE Types'
<1>1. CASE StartExperiment
  <2>1. /\ session < MaxSessions /\ session' = session + 1 /\ pc' = "inspect"
        /\ cache' = Unknown /\ timer' = timer /\ thrown' = thrown
    BY <1>1, Zenon DEF StartExperiment, Leave
  <2>2. session \in 0..MaxSessions /\ MaxSessions \in Nat
    BY ExperimentAssumption DEF Types
  <2>3. session' \in 0..MaxSessions
    BY <2>1, <2>2
  <2>4. \A t \in DOMAIN cache' : cache'[t] \in {"unknown", "available", "missing"}
    BY <2>1 DEF Unknown
  <2>5. QED
    BY <2>1, <2>3, <2>4 DEF Types
<1>2. CASE InspectDone \/ HeadersArrive \/ RequestFails \/ TimerFires \/ Refused \/ Answered
  <2>1. UNCHANGED <<session, thrown, cache>>
    BY <1>2 DEF InspectDone, HeadersArrive, RequestFails, TimerFires, Refused, Answered, Fails,
                Leave, checking
  <2>2. pc' \in {pc, "send", "body", "write", "workspace", "checks"}
    BY <1>2 DEF InspectDone, Send, HeadersArrive, RequestFails, TimerFires, Refused, Answered, Fails
  <2>3. timer' \in BOOLEAN
    <3>1. CASE Answered
      BY <3>1 DEF Answered, Leave, request, Types
    <3>2. CASE InspectDone
      BY <3>2 DEF InspectDone, Send, Types
    <3>3. QED
      BY <1>2, <3>1, <3>2 DEF HeadersArrive, RequestFails, TimerFires, Refused, Fails
  <2>4. QED
    BY <2>1, <2>2, <2>3 DEF Types
<1>3. CASE MakeWorkspace
  <2>1. UNCHANGED session /\ (Abort \/ (pc' = "checks" /\ UNCHANGED <<timer, thrown, cache>>))
    BY <1>3, MakesWorkspace DEF request
  <2>2. QED
    BY <2>1, AbortTyped DEF Types
<1>4. CASE MakeWorkspaceFails \/ WriteFails \/ Crash
  <2>1. Abort /\ UNCHANGED session
    BY <1>4 DEF MakeWorkspaceFails, WriteFails, Crash, Leave
  <2>2. QED
    BY <2>1, AbortTyped
<1>5. CASE SkipTool \/ RunTool \/ RefuseTool \/ EvaluateStructural
  <2>1. UNCHANGED <<pc, session, timer, thrown, cache>>
    BY <1>5 DEF SkipTool, RunTool, RefuseTool, EvaluateStructural, Leave, request
  <2>2. QED
    BY <2>1 DEF Types
<1>6. CASE ProbeTool
  <2>1. UNCHANGED <<pc, session, timer, thrown>>
    BY <1>6 DEF ProbeTool, Leave, request
  <2>2. PICK tool, end : cache' = [cache EXCEPT ![tool] =
                            IF Available(SandboxExec(end)) THEN "available" ELSE "missing"]
    BY <1>6 DEF ProbeTool
  <2>3. QED
    BY <2>1, <2>2 DEF Types
<1>7. CASE ProbeThrows
  <2>1. UNCHANGED <<pc, session, timer, cache>> /\ thrown' = TRUE
    BY <1>7 DEF ProbeThrows, Leave, request
  <2>2. QED
    BY <2>1 DEF Types
<1>8. CASE ChecksDone \/ RemovalFails
  <2>1. UNCHANGED session /\ (Abort \/ (pc' = "write" /\ UNCHANGED <<timer, thrown, cache>>))
    BY <1>8 DEF ChecksDone, RemovalFails, Leave, request
  <2>2. QED
    BY <2>1, AbortTyped DEF Types
<1>9. CASE OpenRecord
  BY <1>9 DEF OpenRecord, Leave, request, checking, Types
<1>10. CASE CompleteRecord
  <2>1. UNCHANGED session /\ (Abort \/ (pc' = "send" /\ timer' \in BOOLEAN /\ UNCHANGED <<thrown, cache>>))
    BY <1>10 DEF CompleteRecord, Send, Leave
  <2>2. QED
    BY <2>1, AbortTyped DEF Types
<1>11. CASE ChangeTools \/ ApplyJudgesToRecord \/ RunMatrix \/ UNCHANGED vars
  <2>1. UNCHANGED <<pc, session, timer, thrown, cache>>
    BY <1>11 DEF ChangeTools, ApplyJudgesToRecord, RunMatrix, Leave, request, checking, vars
  <2>2. QED
    BY <2>1 DEF Types
<1>12. QED
  BY <1>1, <1>2, <1>3, <1>4, <1>5, <1>6, <1>7, <1>8, <1>9, <1>10, <1>11
     DEF Next, CheckStep, RecordStep

(* What goes on beside the command leaves its order as it is.              *)
LEMMA RestsInOrder ==
  ASSUME ExperimentInv, UNCHANGED <<pc, session, uninspected, todo, draft, pending, ran, refusals>>
  PROVE  CommandInOrder' /\ DraftOfCurrent'
<1>1. Definition' = Definition /\ Current' = Current /\ FileOf(Current, Now)' = FileOf(Current, Now)
  BY DEF Definition, Current, FileOf, Now
<1>2. CommandInOrder'
  BY <1>1 DEF ExperimentInv, CommandInOrder
<1>3. CASE pc \notin {"idle", "inspect"}
  <2>1. draft \in Record
    BY <1>3 DEF ExperimentInv, DraftOfCurrent, OfCurrent
  <2>2. QED
    BY <1>2, <1>3, <2>1, DraftStays
<1>4. CASE pc \in {"idle", "inspect"}
  BY <1>2, <1>4 DEF DraftOfCurrent
<1>5. QED
  BY <1>3, <1>4

(* A repetition goes on, and its record is as it was.                      *)
LEMMA GoesOnInOrder ==
  ASSUME ExperimentInv, UNCHANGED <<session, uninspected, todo, draft, ran, refusals>>,
         pc \notin {"idle", "inspect"}, pc' \notin {"idle", "inspect"},
         pc' \in {"workspace", "checks"} => pending' \in Seq(Range(Definition.checks))
  PROVE  CommandInOrder' /\ DraftOfCurrent'
<1>1. draft \in Record
  BY DEF ExperimentInv, DraftOfCurrent, OfCurrent
<1>2. DraftOfCurrent'
  BY <1>1, DraftStays
<1>3. QED
  BY <1>2, StaysInOrder

LEMMA StartInOrder ==
  ASSUME ExperimentInv, StartExperiment PROVE CommandInOrder' /\ DraftOfCurrent'
<1>1. /\ pc = "idle" /\ pc' = "inspect" /\ uninspected' = Targets /\ todo' = Plan
      /\ UNCHANGED draft
  BY DEF StartExperiment, Leave
<1>2. draft = NoDraft
  BY <1>1 DEF ExperimentInv, CommandInOrder
<1>3. Plan \in Seq(Task) /\ Len(Plan) \in Nat \ {0}
  BY PlanTyped
<1>4. Plan # << >> /\ \A i \in DOMAIN Plan : Len(Plan) - Len(Plan) + i = i
  BY <1>3
<1>5. Targets \in Seq(Range(Targets)) /\ Targets # << >>
  BY ExperimentAssumption
<1>6. CommandInOrder'
  BY <1>1, <1>2, <1>3, <1>4, <1>5 DEF CommandInOrder
<1>7. DraftOfCurrent'
  BY <1>1 DEF DraftOfCurrent
<1>8. QED
  BY <1>6, <1>7

LEMMA InspectedInOrder ==
  ASSUME ExperimentInv, InspectDone PROVE CommandInOrder' /\ DraftOfCurrent'
<1>1. pc = "inspect" /\ uninspected' = Tail(uninspected)
  BY DEF InspectDone
<1>2. /\ todo = Plan /\ uninspected \in Seq(Range(Targets)) /\ uninspected # << >> /\ todo # << >>
      /\ todo \in Seq(Task) /\ Len(todo) <= Len(Plan) /\ draft = NoDraft
      /\ \A i \in DOMAIN todo : todo[i] = Plan[Len(Plan) - Len(todo) + i]
  BY <1>1 DEF ExperimentInv, CommandInOrder
<1>3. Tail(uninspected) \in Seq(Range(Targets))
  BY <1>2
<1>4. CASE Tail(uninspected) = << >>
  <2>1. Send(todo)
    BY <1>4 DEF InspectDone
  <2>2. QED
    BY <1>1, <1>2, <1>4, <2>1, SendInOrder
<1>5. CASE Tail(uninspected) # << >>
  <2>1. UNCHANGED <<pc, todo, draft>>
    BY <1>5 DEF InspectDone
  <2>2. CommandInOrder'
    BY <1>1, <1>2, <1>3, <1>5, <2>1 DEF CommandInOrder
  <2>3. DraftOfCurrent'
    BY <1>1, <2>1 DEF DraftOfCurrent
  <2>4. QED
    BY <2>2, <2>3
<1>6. QED
  BY <1>4, <1>5

LEMMA FailsInOrder ==
  ASSUME ExperimentInv, Fails, pc \in {"send", "body"} PROVE CommandInOrder' /\ DraftOfCurrent'
<1>1. /\ pc' = "write" /\ draft' = [draft EXCEPT !.error = "error"]
      /\ UNCHANGED <<session, uninspected, todo, ran, refusals>>
  BY DEF Fails, Leave, ghosts, spawned
<1>2. draft \in Record
  BY DEF ExperimentInv, DraftOfCurrent, OfCurrent
<1>3. /\ draft' \in Record /\ draft'.evals = draft.evals /\ draft'.target = draft.target
      /\ draft'.benchmark = draft.benchmark
  BY <1>1, <1>2 DEF Record
<1>4. DraftOfCurrent'
  BY <1>1, <1>3, DraftStays
<1>5. QED
  BY <1>1, <1>4, StaysInOrder

LEMMA AnsweredInOrder ==
  ASSUME ExperimentInv, Answered PROVE CommandInOrder' /\ DraftOfCurrent'
<1>1. /\ pc \in {"send", "body"} /\ pc' \in {"workspace", "checks"}
      /\ pending' = InAuthorityOrder(Definition.checks)
      /\ UNCHANGED <<session, uninspected, todo, ran, refusals>>
  BY DEF Answered, Leave, ghosts, spawned, request
<1>2. PICK output \in Outputs \cup {Blank} : draft' = [draft EXCEPT !.output = output]
  BY DEF Answered
<1>3. draft \in Record
  BY <1>1 DEF ExperimentInv, DraftOfCurrent, OfCurrent
<1>4. /\ draft' \in Record /\ draft'.evals = draft.evals /\ draft'.target = draft.target
      /\ draft'.benchmark = draft.benchmark
  BY <1>2, <1>3 DEF Record
<1>5. DraftOfCurrent'
  BY <1>1, <1>4, DraftStays
<1>6. InAuthorityOrder(Definition.checks) \in Seq(Range(Definition.checks))
  <2>1. Definition.checks \in Seq(Range(Definition.checks))
    BY <1>1, UnderWay DEF ExperimentInv
  <2>2. QED
    BY <2>1, AuthorityOrder
<1>7. QED
  BY <1>1, <1>5, <1>6, StaysInOrder

(* What a step of the checks leaves of the rest of the command.            *)
LEMMA CheckFrame ==
  ASSUME CheckStep
  PROVE  /\ pc = "checks" /\ UNCHANGED <<session, files, complete>> /\ ran \subseteq ran' /\ refusals \subseteq refusals'
         /\ \/ Abort
            \/ UNCHANGED <<uninspected, todo, timer>> /\ pc' \in {"checks", "write"}
<1>1. CASE SkipTool \/ RunTool \/ RefuseTool \/ EvaluateStructural
  <2>1. pc = "checks" /\ UNCHANGED <<pc, session, request, files, complete>>
    BY <1>1 DEF SkipTool, RunTool, RefuseTool, EvaluateStructural, Checking, Leave, ghosts, spawned
  <2>2. ran \subseteq ran' /\ refusals \subseteq refusals'
    BY <1>1 DEF SkipTool, RunTool, RefuseTool, EvaluateStructural, Leave, ghosts, spawned
  <2>3. QED
    BY <2>1, <2>2 DEF request
<1>2. CASE ProbeTool \/ ProbeThrows
  BY <1>2 DEF ProbeTool, ProbeThrows, Checking, Leave, ghosts, spawned, request
<1>3. CASE ChecksDone \/ RemovalFails
  BY <1>3 DEF ChecksDone, RemovalFails, Leave, ghosts, spawned, request
<1>4. QED
  BY <1>1, <1>2, <1>3 DEF CheckStep

LEMMA ChecksInOrder ==
  ASSUME ExperimentInv, CheckStep PROVE CommandInOrder' /\ DraftOfCurrent'
<1>1. pc = "checks" /\ UNCHANGED session /\ ran \subseteq ran' /\ refusals \subseteq refusals'
  BY CheckFrame
<1>2. pending \in Seq(Range(Definition.checks))
  BY <1>1 DEF ExperimentInv, CommandInOrder
<1>3. CASE SkipTool
  <2>1. /\ Checking /\ Head(pending).kind = "command"
        /\ UNCHANGED <<pc, session, uninspected, todo>>
    BY <1>3 DEF SkipTool, Leave, request
  <2>2. Settle(Head(pending), IF Head(pending).tool \in Allowlist THEN "not_available" ELSE "error")
    BY <1>3 DEF SkipTool
  <2>3. PICK status \in {"not_available", "error"} : Settle(Head(pending), status)
    BY <2>2
  <2>4. status \in Statuses
    BY DEF Statuses
  <2>5. QED
    BY <1>1, <2>1, <2>3, <2>4, SettleInOrder
<1>4. CASE RunTool
  <2> DEFINE check == Head(pending)
  <2>1. Checking /\ UNCHANGED <<pc, session, uninspected, todo>>
    BY <1>4 DEF RunTool, Leave, request
  <2>2. PICK end \in EndsOf(check.tool), prints \in Prints :
          /\ Settle(check, CommandStatus(check, SandboxExec(end), prints))
          /\ ran' = IF end = "absent" THEN ran
                    ELSE ran \cup {<<FileOf(Current, Now), Len(draft.evals) + 1>>}
    BY <1>4 DEF RunTool
  <2> DEFINE status == CommandStatus(check, SandboxExec(end), prints)
  <2>3. status \in Statuses /\ (end = "absent" => status = "not_available")
    BY StatusesTyped
  <2>4. Settle(check, status)
    BY <2>2
  <2>5. status \in {"pass", "fail"} => <<FileOf(Current, Now), Len(draft.evals) + 1>> \in ran'
    BY <2>2, <2>3
  <2> HIDE DEF status
  <2>6. QED
    BY <1>1, <2>1, <2>3, <2>4, <2>5, SettleInOrder
<1>10. CASE RefuseTool
  <2> DEFINE check == Head(pending)
             verdict == <<FileOf(Current, Now), Len(draft.evals) + 1>>
  <2>1. Checking /\ check.kind = "command" /\ UNCHANGED <<pc, session, uninspected, todo>>
    BY <1>10 DEF RefuseTool, Leave, request
  <2>2. verdict \in refusals'
    BY <1>10 DEF RefuseTool
  <2>3. PICK prints \in Prints : Settle(check, CommandStatus(check, SandboxExec("refused"), prints))
    BY <1>10 DEF RefuseTool
  <2> DEFINE status == CommandStatus(check, SandboxExec("refused"), prints)
  <2>4. status \in Statuses
    BY StatusesTyped
  <2>5. check \in Range(Definition.checks)
    BY <1>2, <2>1 DEF Checking
  <2>6. Current.benchmark \in Benchmarks
    BY <1>1, UnderWay, ExperimentAssumption DEF ExperimentInv
  <2>7. status = "pass" => ExitOneExpected
    BY <2>1, <2>5, <2>6, RefusedPasses
  <2>8. Settle(check, status)
    BY <2>3
  <2> HIDE DEF status, verdict
  <2>9. status \in {"pass", "fail"} => verdict \in refusals' /\ (status = "fail" \/ ExitOneExpected)
    BY <2>2, <2>7
  <2>10. QED
    BY <1>1, <2>1, <2>4, <2>8, <2>9, SettleInOrder DEF verdict
<1>5. CASE EvaluateStructural
  <2> DEFINE status == StructuralStatus(Head(pending), draft.output, NeedsWorkspace(Definition), workspace)
  <2>1. /\ Checking /\ Head(pending).kind # "command"
        /\ UNCHANGED <<pc, session, uninspected, todo>>
    BY <1>5 DEF EvaluateStructural, Leave, request
  <2>2. Settle(Head(pending), status)
    BY <1>5 DEF EvaluateStructural
  <2>3. IsCheck(Head(pending))
    <3>1. Head(pending) \in Range(Definition.checks)
      BY <1>2, <2>1 DEF Checking
    <3>2. QED
      BY <1>1, <3>1, UnderWay DEF ExperimentInv
  <2>4. status \in Statuses
    BY <2>1, <2>3, StatusesTyped
  <2> HIDE DEF status
  <2>5. QED
    BY <1>1, <2>1, <2>2, <2>4, SettleInOrder
<1>6. CASE ProbeTool
  <2>1. UNCHANGED <<pc, session, uninspected, todo, draft, pending, ran, refusals>>
    BY <1>6 DEF ProbeTool, Leave, request, ghosts, spawned
  <2>2. QED
    BY <2>1, RestsInOrder
<1>7. CASE ProbeThrows
  <2>1. UNCHANGED <<pc, session, uninspected, todo, draft, ran, refusals>> /\ pending' = << >>
    BY <1>7 DEF ProbeThrows, Leave, request, ghosts, spawned
  <2>2. << >> \in Seq(Range(Definition.checks))
    OBVIOUS
  <2>3. QED
    BY <1>1, <2>1, <2>2, GoesOnInOrder
<1>8. CASE ChecksDone \/ RemovalFails
  <2>1. CASE Abort
    BY <2>1, AbortInOrder
  <2>2. CASE ~Abort
    <3>1. pc' = "write" /\ UNCHANGED <<uninspected, todo, draft, ran, refusals>>
      BY <1>8, <2>2 DEF ChecksDone, RemovalFails, Leave, request, ghosts, spawned
    <3>2. QED
      BY <1>1, <3>1, GoesOnInOrder
  <2>3. QED
    BY <2>1, <2>2
<1>9. QED
  BY <1>3, <1>4, <1>5, <1>6, <1>7, <1>8, <1>10 DEF CheckStep

(* What is left after a repetition are the last of the plan again.         *)
LEMMA RestOfPlan ==
  ASSUME CommandInOrder, pc # "idle"
  PROVE  /\ Tail(todo) \in Seq(Task) /\ Len(Tail(todo)) = Len(todo) - 1 /\ Len(Tail(todo)) <= Len(Plan)
         /\ \A i \in DOMAIN Tail(todo) : Tail(todo)[i] = Plan[Len(Plan) - Len(Tail(todo)) + i]
<1>1. /\ todo \in Seq(Task) /\ todo # << >> /\ Len(todo) <= Len(Plan)
      /\ \A i \in DOMAIN todo : todo[i] = Plan[Len(Plan) - Len(todo) + i]
  BY DEF CommandInOrder
<1>2. Len(Plan) \in Nat
  BY PlanTyped
<1>3. Tail(todo) \in Seq(Task) /\ Len(Tail(todo)) = Len(todo) - 1 /\ Len(Tail(todo)) <= Len(Plan)
  BY <1>1, <1>2
<1>4. ASSUME NEW i \in DOMAIN Tail(todo)
      PROVE  Tail(todo)[i] = Plan[Len(Plan) - Len(Tail(todo)) + i]
  <2>1. i + 1 \in DOMAIN todo /\ Tail(todo)[i] = todo[i + 1] /\ i \in Nat
    BY <1>1, <1>3
  <2>2. Len(Plan) - Len(todo) + (i + 1) = Len(Plan) - Len(Tail(todo)) + i
    BY <1>1, <1>2, <1>3, <2>1
  <2>3. QED
    BY <1>1, <2>1, <2>2
<1>5. QED
  BY <1>3, <1>4

LEMMA OrderStep ==
  ASSUME ExperimentInv, [Next]_vars PROVE CommandInOrder' /\ DraftOfCurrent'
<1>1. CASE StartExperiment
  BY <1>1, StartInOrder
<1>2. CASE InspectDone
  BY <1>2, InspectedInOrder
<1>3. CASE HeadersArrive
  <2>1. pc = "send" /\ pc' = "body" /\ UNCHANGED <<session, uninspected, todo, draft, ran, refusals>>
    BY <1>3 DEF HeadersArrive, Leave, checking, ghosts, spawned
  <2>2. QED
    BY <2>1, GoesOnInOrder
<1>4. CASE RequestFails \/ TimerFires \/ Refused
  <2>1. Fails /\ pc \in {"send", "body"}
    BY <1>4 DEF RequestFails, TimerFires, Refused
  <2>2. QED
    BY <2>1, FailsInOrder
<1>5. CASE Answered
  BY <1>5, AnsweredInOrder
<1>6. CASE MakeWorkspace
  <2>1. CASE Abort
    BY <2>1, AbortInOrder
  <2>2. CASE ~Abort
    <3>1. /\ pc = "workspace" /\ pc' = "checks"
          /\ UNCHANGED <<session, uninspected, todo, draft, pending, ran, refusals>>
      BY <1>6, <2>2, MakesWorkspace DEF request
    <3>2. pending \in Seq(Range(Definition.checks))
      BY <3>1 DEF ExperimentInv, CommandInOrder
    <3>3. QED
      BY <3>1, <3>2, GoesOnInOrder
  <2>3. QED
    BY <2>1, <2>2
<1>7. CASE MakeWorkspaceFails \/ WriteFails \/ Crash
  <2>1. Abort
    BY <1>7 DEF MakeWorkspaceFails, WriteFails, Crash
  <2>2. QED
    BY <2>1, AbortInOrder
<1>8. CASE CheckStep
  BY <1>8, ChecksInOrder
<1>9. CASE OpenRecord
  <2>1. pc = "write" /\ pc' = "writing" /\ UNCHANGED <<session, uninspected, todo, draft, ran, refusals>>
    BY <1>9 DEF OpenRecord, Leave, checking, request, ghosts, spawned
  <2>2. QED
    BY <2>1, GoesOnInOrder
<1>10. CASE CompleteRecord
  <2>1. CASE Tail(todo) # << >>
    <3>1. Send(Tail(todo)) /\ UNCHANGED uninspected /\ pc # "idle"
      BY <1>10, <2>1 DEF CompleteRecord
    <3>2. CommandInOrder
      BY DEF ExperimentInv
    <3>3. QED
      BY <2>1, <3>1, <3>2, RestOfPlan, SendInOrder
  <2>2. CASE Tail(todo) = << >>
    BY <1>10, <2>2, AbortInOrder DEF CompleteRecord
  <2>3. QED
    BY <2>1, <2>2
<1>11. CASE ChangeTools \/ ApplyJudgesToRecord \/ RunMatrix \/ UNCHANGED vars
  <2>1. UNCHANGED <<pc, session, uninspected, todo, draft, pending, ran, refusals>>
    BY <1>11 DEF ChangeTools, ApplyJudgesToRecord, RunMatrix, Leave, request, checking, ghosts, spawned, vars
  <2>2. QED
    BY <2>1, RestsInOrder
<1>12. QED
  BY <1>1, <1>2, <1>3, <1>4, <1>5, <1>6, <1>7, <1>8, <1>9, <1>10, <1>11 DEF Next, RecordStep

-----------------------------------------------------------------------------
(* The records on disk.                                                    *)

LEMMA TornIsNoRecord ==
  ASSUME NEW record \in Record PROVE record # Torn
<1>1. record.error \in {"none", "error"}
  BY DEF Record
<1>2. QED
  BY <1>1 DEF Torn

(* The record that is opened is a new file, and torn.                      *)
LEMMA OpenedFile ==
  ASSUME ExperimentInv, OpenRecord,
         NEW new, new = FileOf(Current, Now)
  PROVE  /\ new \notin DOMAIN files /\ DOMAIN files' = DOMAIN files \cup {new}
         /\ files'[new] = Torn /\ \A f \in DOMAIN files : files'[f] = files[f]
         /\ Intact' = Intact
<1>1. pc = "write" /\ Save(Torn)
  BY DEF OpenRecord
<1>2. new = FileAt(session, Len(todo)) /\ Len(todo) \in Nat
  BY <1>1, UnderWay DEF ExperimentInv
<1>3. new \notin DOMAIN files
  <2> SUFFICES ASSUME new \in DOMAIN files PROVE FALSE
    OBVIOUS
  <2>1. PICK s \in 1..session, k \in 1..Len(Plan) :
          /\ new = FileAt(s, k)
          /\ s = session => k > Len(todo)
    BY <1>1 DEF ExperimentInv, FilesOfRepetitions
  <2>2. FileAt(session, Len(todo)) = FileAt(s, k)
    BY <1>2, <2>1
  <2>3. s = session /\ k = Len(todo)
    BY <2>2 DEF FileAt, FileOf
  <2>4. QED
    BY <1>2, <2>1, <2>3
<1>4. files' = [f \in DOMAIN files \cup {new} |-> IF f = new THEN Torn ELSE files[f]]
  BY <1>1 DEF Save
<1>5. DOMAIN files' = DOMAIN files \cup {new} /\ files'[new] = Torn
  BY <1>4
<1>6. \A f \in DOMAIN files : files'[f] = files[f]
  BY <1>3, <1>4
<1>7. Intact' = Intact
  BY <1>5, <1>6 DEF Intact
<1>8. QED
  BY <1>3, <1>5, <1>6, <1>7

(* The record that is completed is the one that was opened.                *)
LEMMA CompletedFile ==
  ASSUME ExperimentInv, CompleteRecord,
         NEW new, new = FileOf(Current, Now)
  PROVE  /\ new \in DOMAIN files /\ new \notin Intact /\ DOMAIN files' = DOMAIN files
         /\ files'[new] = draft /\ OfCurrent(draft)
         /\ \A f \in DOMAIN files : f # new => files'[f] = files[f]
         /\ Intact' = Intact \cup {new}
<1>1. pc = "writing" /\ Save(draft)
  BY DEF CompleteRecord
<1>2. new = FileAt(session, Len(todo)) /\ Len(todo) \in Nat
  BY <1>1, UnderWay DEF ExperimentInv
<1>3. new \in DOMAIN files
  BY <1>1 DEF ExperimentInv, DoneIsFiled
<1>4. files[new] = Torn
  <2>1. PICK s \in 1..session, k \in 1..Len(Plan) :
          /\ new = FileAt(s, k)
          /\ s = session => k > Len(todo) \/ files[new] = Torn
    BY <1>1, <1>3 DEF ExperimentInv, FilesOfRepetitions
  <2>2. FileAt(session, Len(todo)) = FileAt(s, k)
    BY <1>2, <2>1
  <2>3. s = session /\ k = Len(todo)
    BY <2>2 DEF FileAt, FileOf
  <2>4. QED
    BY <1>2, <2>1, <2>3
<1>5. OfCurrent(draft) /\ draft # Torn
  <2>1. OfCurrent(draft)
    BY <1>1 DEF ExperimentInv, DraftOfCurrent
  <2>2. QED
    BY <2>1, TornIsNoRecord DEF OfCurrent
<1>6. files' = [f \in DOMAIN files |-> IF f = new THEN draft ELSE files[f]]
  <2>1. DOMAIN files \cup {new} = DOMAIN files
    BY <1>3
  <2>2. QED
    BY <1>1, <2>1 DEF Save
<1>7. /\ DOMAIN files' = DOMAIN files /\ files'[new] = draft
      /\ \A f \in DOMAIN files : f # new => files'[f] = files[f]
  BY <1>3, <1>6
<1>8. Intact' = Intact \cup {new} /\ new \notin Intact
  BY <1>3, <1>4, <1>5, <1>7 DEF Intact
<1>9. QED
  BY <1>3, <1>5, <1>7, <1>8

(* A record that is judged is still about what it was about.               *)
LEMMA JudgedFile ==
  ASSUME ExperimentInv, ApplyJudgesToRecord
  PROVE  /\ DOMAIN files' = DOMAIN files /\ Intact' = Intact
         /\ \A f \in Intact :
              /\ files[f] \in Record /\ files'[f] \in Record
              /\ files'[f].target = files[f].target /\ files'[f].benchmark = files[f].benchmark
              /\ files'[f].evals = files[f].evals
              /\ files'[f] = [files[f] EXCEPT !.judges = files'[f].judges]
         /\ \A f \in DOMAIN files : f \notin Intact => files'[f] = files[f]
<1>1. PICK g \in Intact, panel \in Panels : files' = [files EXCEPT ![g] = Judged(@, panel)]
  BY DEF ApplyJudgesToRecord
<1>2. \A f \in Intact : f \in DOMAIN files /\ files[f] \in Record
  BY DEF ExperimentInv, FilesOfRepetitions, Intact
<1> DEFINE judges == IF panel = << >> THEN files[g].judges
                     ELSE [i \in DOMAIN panel |-> JudgeEvaluate(panel[i], files[g].output)]
           judged == [files[g] EXCEPT !.judges = judges]
<1>3. judges \in Seq(Judgments)
  <2>0. files[g].judges \in Seq(Judgments)
    BY <1>2 DEF Record
  <2> DEFINE made == [i \in DOMAIN panel |-> JudgeEvaluate(panel[i], files[g].output)]
  <2>1. files[g].output \in Outputs \cup {Blank}
    BY <1>2 DEF Record
  <2>2. \A i \in DOMAIN panel : made[i] \in Judgments
    BY <2>1 DEF Judgments
  <2>3. DOMAIN panel = 1..Len(panel) /\ Len(panel) \in Nat
    BY ExperimentAssumption
  <2>4. made \in Seq(Judgments)
    BY <2>2, <2>3
  <2>5. QED
    BY <2>0, <2>4
<1>4. files' = [files EXCEPT ![g] = judged]
  <2>1. CASE panel = << >>
    <3>1. files[g] = [files[g] EXCEPT !.judges = files[g].judges]
      BY <1>2 DEF Record
    <3>2. QED
      BY <1>1, <2>1, <3>1 DEF Judged
  <2>2. CASE panel # << >>
    BY <1>1, <2>2 DEF Judged
  <2>3. QED
    BY <2>1, <2>2
<1> HIDE DEF judges
<1>5. /\ judged \in Record /\ judged.target = files[g].target /\ judged.benchmark = files[g].benchmark
      /\ judged.evals = files[g].evals /\ judged.judges = judges
  BY <1>2, <1>3 DEF Record
<1> HIDE DEF judged
<1>6. /\ DOMAIN files' = DOMAIN files /\ files'[g] = judged
      /\ \A f \in DOMAIN files : f # g => files'[f] = files[f]
  BY <1>2, <1>4
<1>7. judged # Torn /\ files[g] # Torn
  BY <1>5, TornIsNoRecord DEF Intact
<1>8. Intact' = Intact
  BY <1>2, <1>6, <1>7 DEF Intact
<1>9. ASSUME NEW f \in Intact
      PROVE  /\ files[f] \in Record /\ files'[f] \in Record
             /\ files'[f].target = files[f].target /\ files'[f].benchmark = files[f].benchmark
             /\ files'[f].evals = files[f].evals
             /\ files'[f] = [files[f] EXCEPT !.judges = files'[f].judges]
  <2>1. CASE f = g
    <3>1. judged = [files[g] EXCEPT !.judges = judged.judges]
      BY <1>5 DEF judged
    <3>2. QED
      BY <1>2, <1>5, <1>6, <2>1, <3>1
  <2>2. CASE f # g
    <3>1. files'[f] = files[f] /\ files[f] \in Record
      BY <1>2, <1>6, <2>2
    <3>2. files[f] = [files[f] EXCEPT !.judges = files[f].judges]
      BY <3>1 DEF Record
    <3>3. QED
      BY <3>1, <3>2
  <2>3. QED
    BY <2>1, <2>2
<1>10. QED
  BY <1>6, <1>8, <1>9

(* Nothing else touches a record.                                          *)
LEMMA FilesUntouched ==
  ASSUME [Next]_vars, ~OpenRecord, ~CompleteRecord, ~ApplyJudgesToRecord
  PROVE  UNCHANGED files /\ ran \subseteq ran' /\ refusals \subseteq refusals'
<1>1. CASE StartExperiment \/ InspectDone \/ HeadersArrive \/ Answered
  BY <1>1 DEF StartExperiment, InspectDone, HeadersArrive, Answered, Leave, ghosts, spawned
<1>2. CASE RequestFails \/ TimerFires \/ Refused
  BY <1>2 DEF RequestFails, TimerFires, Refused, Fails, Leave, ghosts, spawned
<1>3. CASE MakeWorkspace
  BY <1>3, MakesWorkspace
<1>4. CASE MakeWorkspaceFails \/ WriteFails \/ Crash
  BY <1>4 DEF MakeWorkspaceFails, WriteFails, Crash, Leave, ghosts, spawned
<1>5. CASE CheckStep
  BY <1>5, CheckFrame
<1>6. CASE ChangeTools \/ RunMatrix \/ UNCHANGED vars
  BY <1>6 DEF ChangeTools, RunMatrix, vars, Leave, ghosts, spawned
<1>7. QED
  BY <1>1, <1>2, <1>3, <1>4, <1>5, <1>6 DEF Next, RecordStep

(* An invocation that ended leaves its records as they are.                *)
LEMMA EndedKeepsFiles ==
  ASSUME ExperimentInv, pc' = "idle", UNCHANGED <<session, files, complete>>
  PROVE  FilesOfRepetitions' /\ DoneIsFiled'
<1>1. FilesOfRepetitions'
  BY DEF ExperimentInv, FilesOfRepetitions
<1>2. Intact' = Intact
  BY DEF Intact
<1>3. DoneIsFiled'
  BY <1>2 DEF ExperimentInv, DoneIsFiled
<1>4. QED
  BY <1>1, <1>3

(* A repetition that goes on has no file yet.                              *)
LEMMA GoingOnKeepsFiles ==
  ASSUME ExperimentInv, UNCHANGED <<session, todo, files, complete>>,
         \/ UNCHANGED pc
         \/ pc \notin {"idle", "writing"} /\ pc' \notin {"idle", "writing"}
  PROVE  FilesOfRepetitions' /\ DoneIsFiled'
<1>1. FilesOfRepetitions'
  BY DEF ExperimentInv, FilesOfRepetitions
<1>2. Intact' = Intact /\ FileOf(Current, Now)' = FileOf(Current, Now)
  BY DEF Intact, FileOf, Current, Now
<1>3. DoneIsFiled'
  BY <1>2 DEF ExperimentInv, DoneIsFiled
<1>4. QED
  BY <1>1, <1>3

LEMMA StartKeepsFiles ==
  ASSUME ExperimentInv, StartExperiment PROVE FilesOfRepetitions' /\ DoneIsFiled'
<1>1. /\ pc = "idle" /\ pc' = "inspect" /\ session' = session + 1 /\ todo' = Plan
      /\ UNCHANGED <<files, complete>>
  BY DEF StartExperiment, Leave, ghosts, spawned
<1>2. session \in Nat /\ Len(Plan) \in Nat
  BY PlanTyped, ExperimentAssumption DEF ExperimentInv
<1>3. 1..session \subseteq 1..session' /\ session' \notin 1..session /\ session' # 0
  BY <1>1, <1>2
<1>4. FilesOfRepetitions'
  <2> SUFFICES ASSUME NEW f \in DOMAIN files
               PROVE  \E s \in 1..session', k \in 1..Len(Plan) :
                        /\ f = FileAt(s, k)
                        /\ \/ files[f] = Torn
                           \/ /\ files[f] \in Record
                              /\ files[f].target = f[1].target /\ files[f].benchmark = f[1].benchmark
                        /\ s = session' /\ pc' # "idle" =>
                             k > Len(todo') \/ (k = Len(todo') /\ pc' = "writing" /\ files'[f] = Torn)
    BY <1>1 DEF FilesOfRepetitions
  <2>1. QED
    BY <1>3 DEF ExperimentInv, FilesOfRepetitions
<1>5. Intact' = Intact
  BY <1>1 DEF Intact
<1>6. DoneIsFiled'
  <2>1. \A k \in 1..Len(Plan) : ~(k > Len(todo'))
    BY <1>1, <1>2
  <2>2. \A s \in complete' : s \in 1..session' /\ s # session'
    BY <1>1, <1>3 DEF ExperimentInv, DoneIsFiled
  <2>3. QED
    BY <1>1, <1>3, <1>5, <2>1, <2>2 DEF ExperimentInv, DoneIsFiled
<1>7. QED
  BY <1>4, <1>6

LEMMA OpenKeepsFiles ==
  ASSUME ExperimentInv, OpenRecord PROVE FilesOfRepetitions' /\ DoneIsFiled'
<1> DEFINE new == FileOf(Current, Now)
<1>1. /\ pc = "write" /\ pc' = "writing" /\ UNCHANGED <<session, todo, complete>>
  BY DEF OpenRecord, Leave, request, ghosts, spawned
<1>2. /\ new = FileAt(session, Len(todo)) /\ Len(todo) \in 1..Len(Plan)
  BY <1>1, UnderWay DEF ExperimentInv
<1>3. /\ DOMAIN files' = DOMAIN files \cup {new}
      /\ files'[new] = Torn /\ \A f \in DOMAIN files : files'[f] = files[f]
      /\ Intact' = Intact
  BY OpenedFile
<1>4. new' = new
  BY <1>1 DEF FileOf, Current, Now
<1>5. session \in 1..session
  BY <1>1, ExperimentAssumption DEF ExperimentInv, DoneIsFiled
<1> HIDE DEF new
<1>6. FilesOfRepetitions'
  <2> SUFFICES ASSUME NEW f \in DOMAIN files'
               PROVE  \E s \in 1..session, k \in 1..Len(Plan) :
                        /\ f = FileAt(s, k)
                        /\ \/ files'[f] = Torn
                           \/ /\ files'[f] \in Record
                              /\ files'[f].target = f[1].target /\ files'[f].benchmark = f[1].benchmark
                        /\ s = session => k > Len(todo) \/ (k = Len(todo) /\ files'[f] = Torn)
    BY <1>1 DEF FilesOfRepetitions
  <2>1. CASE f = new
    BY <1>2, <1>3, <1>5, <2>1
  <2>2. CASE f # new
    <3>1. f \in DOMAIN files /\ files'[f] = files[f]
      BY <1>3, <2>2
    <3>2. QED
      BY <1>1, <3>1 DEF ExperimentInv, FilesOfRepetitions
  <2>3. QED
    BY <2>1, <2>2
<1>7. DoneIsFiled'
  BY <1>1, <1>3, <1>4 DEF ExperimentInv, DoneIsFiled, new
<1>8. QED
  BY <1>6, <1>7

LEMMA CompleteKeepsFiles ==
  ASSUME ExperimentInv, CompleteRecord PROVE FilesOfRepetitions' /\ DoneIsFiled'
<1> DEFINE new == FileOf(Current, Now)
<1>1. pc = "writing" /\ UNCHANGED session
  BY DEF CompleteRecord, Leave
<1>2. /\ new = FileAt(session, Len(todo)) /\ Len(todo) \in 1..Len(Plan) /\ Len(Plan) \in Nat
      /\ Len(Tail(todo)) = Len(todo) - 1
  BY <1>1, UnderWay DEF ExperimentInv
<1>3. /\ DOMAIN files' = DOMAIN files
      /\ files'[new] = draft /\ OfCurrent(draft)
      /\ \A f \in DOMAIN files : f # new => files'[f] = files[f]
      /\ Intact' = Intact \cup {new}
  BY CompletedFile
<1>4. \/ /\ Tail(todo) # << >> /\ pc' = "send" /\ todo' = Tail(todo) /\ UNCHANGED complete
      \/ /\ Tail(todo) = << >> /\ pc' = "idle" /\ complete' = complete \cup {session}
  BY DEF CompleteRecord, Send, Abort
<1>5. session # 0 /\ session \in Nat /\ session \in 1..session
  BY <1>1, ExperimentAssumption DEF ExperimentInv, DoneIsFiled
<1>6. new[1] = Current
  BY DEF FileOf
<1> HIDE DEF new
<1>7. FilesOfRepetitions'
  <2> SUFFICES ASSUME NEW f \in DOMAIN files
               PROVE  \E s \in 1..session, k \in 1..Len(Plan) :
                        /\ f = FileAt(s, k)
                        /\ \/ files'[f] = Torn
                           \/ /\ files'[f] \in Record
                              /\ files'[f].target = f[1].target /\ files'[f].benchmark = f[1].benchmark
                        /\ s = session /\ pc' # "idle" => k > Len(todo')
    BY <1>1, <1>3 DEF FilesOfRepetitions
  <2>1. CASE f = new
    <3>1. pc' # "idle" => Len(todo) > Len(todo')
      BY <1>2, <1>4
    <3>2. QED
      BY <1>2, <1>3, <1>5, <1>6, <2>1, <3>1 DEF OfCurrent
  <2>2. CASE f # new
    <3>1. files'[f] = files[f]
      BY <1>3, <2>2
    <3>2. PICK s \in 1..session, k \in 1..Len(Plan) :
            /\ f = FileAt(s, k)
            /\ \/ files[f] = Torn
               \/ /\ files[f] \in Record
                  /\ files[f].target = f[1].target /\ files[f].benchmark = f[1].benchmark
            /\ s = session => k > Len(todo) \/ k = Len(todo)
      BY <1>1 DEF ExperimentInv, FilesOfRepetitions
    <3>3. s = session /\ pc' # "idle" => k > Len(todo')
      BY <1>2, <1>4, <3>2
    <3>4. QED
      BY <3>1, <3>2, <3>3
  <2>3. QED
    BY <2>1, <2>2
<1>8. \A k \in 1..Len(Plan) : k >= Len(todo) => FileAt(session, k) \in Intact'
  <2> SUFFICES ASSUME NEW k \in 1..Len(Plan), k >= Len(todo) PROVE FileAt(session, k) \in Intact'
    OBVIOUS
  <2>1. CASE k = Len(todo)
    BY <1>2, <1>3, <2>1
  <2>2. CASE k > Len(todo)
    BY <1>1, <1>3, <2>2 DEF ExperimentInv, DoneIsFiled
  <2>3. QED
    BY <1>2, <2>1, <2>2
<1>9. /\ \A s \in complete : s \in 1..session /\ s # session
      /\ \A s \in complete, k \in 1..Len(Plan) : FileAt(s, k) \in Intact'
  BY <1>1, <1>3 DEF ExperimentInv, DoneIsFiled
<1>10. DoneIsFiled'
  <2>1. CASE Tail(todo) # << >>
    <3>1. pc' = "send" /\ todo' = Tail(todo) /\ UNCHANGED complete
      BY <1>4, <2>1
    <3>2. \A k \in 1..Len(Plan) : k > Len(todo') => k >= Len(todo)
      BY <1>2, <3>1
    <3>3. QED
      BY <1>1, <1>5, <1>8, <1>9, <3>1, <3>2 DEF DoneIsFiled
  <2>2. CASE Tail(todo) = << >>
    <3>1. pc' = "idle" /\ complete' = complete \cup {session}
      BY <1>4, <2>2
    <3>2. \A k \in 1..Len(Plan) : k >= Len(todo)
      <4>1. Len(<< >>) = 0
        OBVIOUS
      <4>2. Len(Tail(todo)) = 0
        BY Zenon, <2>2, <4>1
      <4>3. Len(todo) = 1
        BY <1>2, <4>2
      <4>4. QED
        BY <4>3
    <3>3. QED
      BY <1>1, <1>5, <1>8, <1>9, <3>1, <3>2 DEF DoneIsFiled
  <2>3. QED
    BY <2>1, <2>2
<1>11. QED
  BY <1>7, <1>10

LEMMA JudgingKeepsFiles ==
  ASSUME ExperimentInv, ApplyJudgesToRecord PROVE FilesOfRepetitions' /\ DoneIsFiled'
<1>1. UNCHANGED <<pc, session, todo, complete>>
  BY DEF ApplyJudgesToRecord, Leave, request, ghosts, spawned
<1>2. /\ DOMAIN files' = DOMAIN files /\ Intact' = Intact
      /\ \A f \in Intact :
           /\ files'[f] \in Record
           /\ files'[f].target = files[f].target /\ files'[f].benchmark = files[f].benchmark
      /\ \A f \in DOMAIN files : f \notin Intact => files'[f] = files[f]
  BY JudgedFile
<1>3. FileOf(Current, Now)' = FileOf(Current, Now)
  BY <1>1 DEF FileOf, Current, Now
<1>4. \A f \in DOMAIN files : f \notin Intact <=> files[f] = Torn
  BY DEF Intact
<1>5. FilesOfRepetitions'
  <2> SUFFICES ASSUME NEW f \in DOMAIN files
               PROVE  \E s \in 1..session, k \in 1..Len(Plan) :
                        /\ f = FileAt(s, k)
                        /\ \/ files'[f] = Torn
                           \/ /\ files'[f] \in Record
                              /\ files'[f].target = f[1].target /\ files'[f].benchmark = f[1].benchmark
                        /\ s = session /\ pc # "idle" =>
                             k > Len(todo) \/ (k = Len(todo) /\ pc = "writing" /\ files'[f] = Torn)
    BY <1>1, <1>2 DEF FilesOfRepetitions
  <2>1. PICK s \in 1..session, k \in 1..Len(Plan) :
          /\ f = FileAt(s, k)
          /\ \/ files[f] = Torn
             \/ /\ files[f] \in Record
                /\ files[f].target = f[1].target /\ files[f].benchmark = f[1].benchmark
          /\ s = session /\ pc # "idle" =>
               k > Len(todo) \/ (k = Len(todo) /\ pc = "writing" /\ files[f] = Torn)
    BY DEF ExperimentInv, FilesOfRepetitions
  <2>2. CASE f \in Intact
    BY <1>2, <1>4, <2>1, <2>2
  <2>3. CASE f \notin Intact
    BY <1>2, <1>4, <2>1, <2>3
  <2>4. QED
    BY <2>2, <2>3
<1>6. DoneIsFiled'
  BY <1>1, <1>2, <1>3 DEF ExperimentInv, DoneIsFiled
<1>7. QED
  BY <1>5, <1>6

LEMMA FilesStep ==
  ASSUME ExperimentInv, [Next]_vars PROVE FilesOfRepetitions' /\ DoneIsFiled'
<1>1. CASE StartExperiment
  BY <1>1, StartKeepsFiles
<1>2. CASE InspectDone
  <2>1. /\ UNCHANGED <<session, todo, files, complete>> /\ pc = "inspect" /\ pc' \in {"inspect", "send"}
    BY <1>2 DEF InspectDone, Send, Leave, ghosts, spawned
  <2>2. QED
    BY <2>1, GoingOnKeepsFiles
<1>3. CASE HeadersArrive \/ Answered
  <2>1. /\ UNCHANGED <<session, todo, files, complete>>
        /\ pc \in {"send", "body"} /\ pc' \in {"body", "workspace", "checks"}
    BY <1>3 DEF HeadersArrive, Answered, Leave, request, ghosts, spawned
  <2>2. QED
    BY <2>1, GoingOnKeepsFiles
<1>4. CASE RequestFails \/ TimerFires \/ Refused
  <2>1. UNCHANGED <<session, todo, files, complete>> /\ pc \in {"send", "body"} /\ pc' = "write"
    BY <1>4 DEF RequestFails, TimerFires, Refused, Fails, Leave, ghosts, spawned
  <2>2. QED
    BY <2>1, GoingOnKeepsFiles
<1>5. CASE MakeWorkspace
  <2>1. UNCHANGED <<session, files, complete>> /\ pc = "workspace"
    BY <1>5, MakesWorkspace
  <2>2. pc' = "idle" \/ (pc' = "checks" /\ UNCHANGED todo)
    BY <1>5, MakesWorkspace DEF Abort, request
  <2>3. QED
    BY <2>1, <2>2, GoingOnKeepsFiles, EndedKeepsFiles
<1>6. CASE MakeWorkspaceFails \/ WriteFails \/ Crash
  <2>1. pc' = "idle" /\ UNCHANGED <<session, files, complete>>
    BY <1>6 DEF MakeWorkspaceFails, WriteFails, Crash, Abort, Leave, ghosts, spawned
  <2>2. QED
    BY <2>1, EndedKeepsFiles
<1>7. CASE CheckStep
  <2>1. UNCHANGED <<session, files, complete>> /\ pc = "checks"
    BY <1>7, CheckFrame
  <2>2. pc' = "idle" \/ (pc' \in {"checks", "write"} /\ UNCHANGED todo)
    BY <1>7, CheckFrame DEF Abort
  <2>3. QED
    BY <2>1, <2>2, GoingOnKeepsFiles, EndedKeepsFiles
<1>8. CASE OpenRecord
  BY <1>8, OpenKeepsFiles
<1>9. CASE CompleteRecord
  BY <1>9, CompleteKeepsFiles
<1>10. CASE ApplyJudgesToRecord
  BY <1>10, JudgingKeepsFiles
<1>11. CASE ChangeTools \/ RunMatrix \/ UNCHANGED vars
  <2>1. UNCHANGED <<pc, session, todo, files, complete>>
    BY <1>11 DEF ChangeTools, RunMatrix, vars, Leave, request, ghosts, spawned
  <2>2. QED
    BY <2>1, GoingOnKeepsFiles
<1>12. QED
  BY <1>1, <1>2, <1>3, <1>4, <1>5, <1>6, <1>7, <1>8, <1>9, <1>10, <1>11 DEF Next, RecordStep

(* What is on disk beyond the workspace in use is what no code removes.    *)
LEMMA OrphansStep ==
  ASSUME ExperimentInv, [Next]_vars PROVE OnlyOrphansLeft'
<1> DEFINE id == WorkspaceId
<1>1. disk \subseteq excused \cup (IF pc = "checks" THEN {id} ELSE {})
  BY DEF ExperimentInv, OnlyOrphansLeft
<1>2. CASE StartExperiment \/ InspectDone \/ HeadersArrive \/ Answered
  <2>1. UNCHANGED <<disk, excused>> /\ pc # "checks"
    BY <1>2 DEF StartExperiment, InspectDone, HeadersArrive, Answered, Leave, ghosts, spawned
  <2>2. QED
    BY <1>1, <2>1 DEF OnlyOrphansLeft
<1>3. CASE RequestFails \/ TimerFires \/ Refused \/ OpenRecord \/ CompleteRecord \/ WriteFails
  <2>1. UNCHANGED <<disk, excused>> /\ pc # "checks"
    BY <1>3 DEF RequestFails, TimerFires, Refused, Fails, OpenRecord, CompleteRecord, WriteFails,
                Leave, ghosts, spawned
  <2>2. QED
    BY <1>1, <2>1 DEF OnlyOrphansLeft
<1>4. CASE MakeWorkspace
  <2>1. pc = "workspace" /\ disk' = disk \cup {id} /\ UNCHANGED session
    BY <1>4, MakesWorkspace
  <2>2. CASE Abort /\ excused' = excused \cup {id}
    BY <1>1, <2>1, <2>2 DEF OnlyOrphansLeft
  <2>3. CASE pc' = "checks" /\ UNCHANGED <<request, draft, pending, thrown, cache, excused>>
    <3>1. id' = id
      BY <2>1, <2>3 DEF request, WorkspaceId, Now
    <3>2. QED
      BY <1>1, <2>1, <2>3, <3>1 DEF OnlyOrphansLeft
  <2>4. QED
    BY <1>4, <2>2, <2>3, MakesWorkspace
<1>5. CASE MakeWorkspaceFails
  <2>1. PICK left \in {{}, {id}} : disk' = disk \cup left /\ excused' = excused \cup left
    BY <1>5 DEF MakeWorkspaceFails
  <2>2. pc = "workspace"
    BY <1>5 DEF MakeWorkspaceFails
  <2>3. QED
    BY <1>1, <2>1, <2>2 DEF OnlyOrphansLeft
<1>6. CASE SkipTool \/ RunTool \/ RefuseTool \/ EvaluateStructural \/ ProbeTool \/ ProbeThrows
  <2>1. UNCHANGED <<pc, session, todo, disk, excused>>
    BY <1>6 DEF SkipTool, RunTool, RefuseTool, EvaluateStructural, ProbeTool, ProbeThrows, Leave,
                request, ghosts, spawned
  <2>2. id' = id
    BY <2>1 DEF WorkspaceId, Now
  <2>3. QED
    BY <1>1, <2>1, <2>2 DEF OnlyOrphansLeft
<1>7. CASE ChecksDone
  <2>1. disk' = disk \ {id} /\ UNCHANGED excused
    BY <1>7 DEF ChecksDone, Removed, Leave, ghosts, spawned
  <2>2. QED
    BY <1>1, <2>1 DEF OnlyOrphansLeft
<1>8. CASE RemovalFails
  <2>1. UNCHANGED disk /\ excused' = excused \cup {id}
    BY <1>8 DEF RemovalFails, Leave
  <2>2. QED
    BY <1>1, <2>1 DEF OnlyOrphansLeft
<1>9. CASE Crash
  <2>1. UNCHANGED disk /\ excused' = excused \cup disk
    BY <1>9 DEF Crash, Leave
  <2>2. QED
    BY <2>1 DEF OnlyOrphansLeft
<1>10. CASE ChangeTools \/ ApplyJudgesToRecord \/ RunMatrix \/ UNCHANGED vars
  <2>1. UNCHANGED <<pc, session, todo, disk, excused>>
    BY <1>10 DEF ChangeTools, ApplyJudgesToRecord, RunMatrix, vars, Leave, request, ghosts, spawned
  <2>2. id' = id
    BY <2>1 DEF WorkspaceId, Now
  <2>3. QED
    BY <1>1, <2>1, <2>2 DEF OnlyOrphansLeft
<1>11. QED
  BY <1>2, <1>3, <1>4, <1>5, <1>6, <1>7, <1>8, <1>9, <1>10 DEF Next, CheckStep, RecordStep

(* A verdict that is written is grounded.                                  *)
LEMMA VerdictsStep ==
  ASSUME ExperimentInv, [Next]_vars PROVE NoVerdictWithoutRun'
<1>1. \A f \in Intact : \A i \in DOMAIN files[f].evals : Grounds(files[f].evals[i], f, i, ran, refusals)
  BY GroundedIs DEF ExperimentInv, NoVerdictWithoutRun
<1> SUFFICES \A f \in Intact' : \A i \in DOMAIN files'[f].evals :
                Grounds(files'[f].evals[i], f, i, ran', refusals')
  <2>1. ExitOneExpected' <=> ExitOneExpected
    BY DEF ExitOneExpected
  <2>2. QED
    BY <2>1 DEF NoVerdictWithoutRun, Grounded, Grounds
<1>2. CASE OpenRecord
  <2>1. /\ Intact' = Intact /\ UNCHANGED <<ran, refusals>>
        /\ \A f \in DOMAIN files : files'[f] = files[f]
    BY <1>2, OpenedFile DEF OpenRecord, Leave, ghosts, spawned
  <2>2. \A f \in Intact : files'[f] = files[f]
    BY <2>1 DEF Intact
  <2>3. QED
    BY <1>1, <2>1, <2>2
<1>3. CASE CompleteRecord
  <2> DEFINE new == FileOf(Current, Now)
  <2>1. /\ Intact' = Intact \cup {new} /\ files'[new] = draft
        /\ \A f \in Intact : f # new => files'[f] = files[f]
    BY <1>3, CompletedFile DEF Intact
  <2>2. \A i \in DOMAIN draft.evals : Grounds(draft.evals[i], new, i, ran, refusals)
    BY <1>3, GroundedIs DEF CompleteRecord, ExperimentInv, DraftOfCurrent
  <2>3. UNCHANGED <<ran, refusals>>
    BY <1>3 DEF CompleteRecord, Leave, spawned
  <2> HIDE DEF new
  <2>4. QED
    BY <1>1, <2>1, <2>2, <2>3
<1>4. CASE ApplyJudgesToRecord
  <2>1. /\ Intact' = Intact /\ UNCHANGED <<ran, refusals>>
        /\ \A f \in Intact : files'[f].evals = files[f].evals
    BY <1>4, JudgedFile DEF ApplyJudgesToRecord, Leave, ghosts, spawned
  <2>2. QED
    BY <1>1, <2>1
<1>5. CASE ~OpenRecord /\ ~CompleteRecord /\ ~ApplyJudgesToRecord
  <2>1. UNCHANGED files /\ ran \subseteq ran' /\ refusals \subseteq refusals'
    BY <1>5, FilesUntouched
  <2>2. Intact' = Intact
    BY <2>1 DEF Intact
  <2>3. QED
    BY <1>1, <2>1, <2>2, GroundsStay
<1>6. QED
  BY <1>2, <1>3, <1>4, <1>5

-----------------------------------------------------------------------------
(* The theorems.                                                           *)

(* In every state that an experiment can reach, over any number of         *)
(* invocations, failures and crashes, the command is where its plan says,  *)
(* the record being made is of the repetition under way, and every file is *)
(* one of a repetition, whole only if it is about it (runExperiment and    *)
(* runSingle, src/experiment/runner.ts).                                   *)
THEOREM ExperimentInvariant == Spec => []ExperimentInv
<1>1. Init => ExperimentInv
  BY Initial
<1>2. ExperimentInv /\ [Next]_vars => ExperimentInv'
  <2> SUFFICES ASSUME ExperimentInv, [Next]_vars PROVE ExperimentInv'
    OBVIOUS
  <2>1. Types'
    BY TypesStep DEF ExperimentInv, Types
  <2>2. QED
    BY <2>1, OrderStep, FilesStep, OrphansStep, VerdictsStep DEF ExperimentInv, Types
<1>3. QED
  BY <1>1, <1>2, PTL DEF Spec

(* An invocation that ended normally has left as many files as its plan    *)
(* has repetitions, none of them lost to a second one of the same name,    *)
(* and a whole record for every target, benchmark and repetition.          *)
THEOREM InvocationsAccounted == Spec => []RecordsAccounted
<1>1. ExperimentInv => RecordsAccounted
  <2> SUFFICES ASSUME ExperimentInv, NEW s \in complete
               PROVE  /\ Cardinality({f \in DOMAIN files : f[2][1] = s})
                           = Len(Targets) * Len(Suite) * Repetitions
                      /\ \A task \in Task : \E f \in Intact :
                           /\ f[1] = task /\ f[2][1] = s
                           /\ files[f].target = task.target /\ files[f].benchmark = task.benchmark
    BY DEF RecordsAccounted
  <2> DEFINE K == 1..Len(Plan)
             own == {f \in DOMAIN files : f[2][1] = s}
  <2>1. \A k \in K : FileAt(s, k) \in Intact
    BY DEF ExperimentInv, DoneIsFiled
  <2>2. Len(Plan) \in Nat /\ Len(Plan) = Len(Targets) * Len(Suite) * Repetitions
    BY PlanTyped
  <2>3. \A f \in own : \E k \in K : f = FileAt(s, k)
    <3> SUFFICES ASSUME NEW f \in own PROVE \E k \in K : f = FileAt(s, k)
      OBVIOUS
    <3>1. PICK r \in 1..session, k \in K : f = FileAt(r, k)
      BY DEF ExperimentInv, FilesOfRepetitions
    <3>2. r = s
      BY <3>1, NamesTyped
    <3>3. QED
      BY <3>1, <3>2
  <2>4. Cardinality(own) = Len(Plan)
    <3> DEFINE name == [k \in K |-> FileAt(s, k)]
    <3>1. \A k \in K : FileAt(s, k) \in own
      BY <2>1, NamesTyped DEF Intact
    <3>2. \A k, l \in K : FileAt(s, k) = FileAt(s, l) => k = l
      BY DEF FileAt, FileOf
    <3>3. name \in Bijection(K, own)
      BY <2>3, <3>1, <3>2 DEF Bijection, Injection, IsInjective, Surjection
    <3>4. IsFiniteSet(K) /\ Cardinality(K) = Len(Plan)
      <4>1. 1 \in Int /\ Len(Plan) \in Int
        BY <2>2
      <4>2. IsFiniteSet(K) /\ Cardinality(K) = IF 1 > Len(Plan) THEN 0 ELSE Len(Plan) - 1 + 1
        BY <4>1, FS_Interval
      <4>3. QED
        BY <2>2, <4>2
    <3> HIDE DEF name, own, K
    <3>5. Cardinality(own) = Cardinality(K)
      <4>1. ExistsBijection(K, own)
        BY <3>3 DEF ExistsBijection
      <4>2. QED
        BY <3>4, <4>1, FS_Bijection
    <3>6. QED
      BY <3>4, <3>5
  <2>5. ASSUME NEW task \in Task
        PROVE  \E f \in Intact : /\ f[1] = task /\ f[2][1] = s
                                 /\ files[f].target = task.target /\ files[f].benchmark = task.benchmark
    <3>1. PICK i \in K : Plan[i] = task
      BY PlanCovers
    <3> DEFINE k == Len(Plan) + 1 - i
               f == FileAt(s, k)
    <3>2. k \in K /\ Len(Plan) + 1 - k = i
      BY <2>2
    <3>3. f \in Intact /\ f[1] = task /\ f[2][1] = s
      BY <2>1, <3>1, <3>2, NamesTyped
    <3>4. files[f].target = f[1].target /\ files[f].benchmark = f[1].benchmark
      BY <3>3 DEF ExperimentInv, FilesOfRepetitions, Intact
    <3>5. QED
      BY <3>3, <3>4
  <2>6. QED
    BY <2>2, <2>4, <2>5
<1>2. QED
  BY <1>1, ExperimentInvariant, PTL

(* Workspaces are removed however their checks end; what else is left      *)
(* behind is of a crash or of a call that failed (runSingle's finally).    *)
THEOREM WorkspacesRemoved == Spec => []OnlyOrphansLeft
<1>1. ExperimentInv => OnlyOrphansLeft
  BY DEF ExperimentInv
<1>2. QED
  BY <1>1, ExperimentInvariant, PTL

(* No record says that a command check passed or failed without a process  *)
(* of it that really ran, except for the exit code 1 that the code makes   *)
(* of a process the system would not start: a failure then, and a pass     *)
(* only where some check expects 1.  A tool that is not there never yields *)
(* either, however stale what the command knows of its tools may be        *)
(* (tools.ts:8-10, sandbox.ts:97-133).                                     *)
THEOREM VerdictsGroundedInRuns == Spec => []NoVerdictWithoutRun
<1>1. ExperimentInv => NoVerdictWithoutRun
  BY DEF ExperimentInv
<1>2. QED
  BY <1>1, ExperimentInvariant, PTL

(* No step replaces, tears or loses a whole record, and judging one        *)
(* changes nothing but its judgments.                                      *)
THEOREM RecordsAreKept == Spec => RecordsKept
<1>1. ASSUME ExperimentInv, [Next]_vars
      PROVE  \A f \in Intact : /\ f \in DOMAIN files' /\ files'[f] # Torn
                               /\ [files'[f] EXCEPT !.judges = files[f].judges] = files[f]
  <2> SUFFICES ASSUME NEW f \in Intact
               PROVE  /\ f \in DOMAIN files' /\ files'[f] # Torn
                      /\ [files'[f] EXCEPT !.judges = files[f].judges] = files[f]
    OBVIOUS
  <2>1. f \in DOMAIN files /\ files[f] \in Record /\ files[f] # Torn
    BY <1>1 DEF ExperimentInv, FilesOfRepetitions, Intact
  <2>2. [files[f] EXCEPT !.judges = files[f].judges] = files[f]
    BY <2>1 DEF Record
  <2>3. CASE ApplyJudgesToRecord
    <3>1. /\ f \in DOMAIN files' /\ files'[f] \in Record
          /\ files'[f] = [files[f] EXCEPT !.judges = files'[f].judges]
      BY <1>1, <2>1, <2>3, JudgedFile
    <3>2. [files'[f] EXCEPT !.judges = files[f].judges] = files[f]
      BY <2>1, <3>1 DEF Record
    <3>3. QED
      BY <3>1, <3>2, TornIsNoRecord
  <2>4. CASE ~ApplyJudgesToRecord
    <3>1. f \in DOMAIN files' /\ files'[f] = files[f]
      <4>1. CASE OpenRecord
        BY <1>1, <2>1, <4>1, OpenedFile
      <4>2. CASE CompleteRecord
        BY <1>1, <2>1, <4>2, CompletedFile
      <4>3. CASE ~OpenRecord /\ ~CompleteRecord
        BY <1>1, <2>1, <2>4, <4>3, FilesUntouched
      <4>4. QED
        BY <4>1, <4>2, <4>3
    <3>2. QED
      BY <2>1, <2>2, <3>1
  <2>5. QED
    BY <2>3, <2>4
<1>2. ExperimentInv /\ [Next]_vars
      => [\A f \in Intact : /\ f \in DOMAIN files' /\ files'[f] # Torn
                            /\ [files'[f] EXCEPT !.judges = files[f].judges] = files[f]]_vars
  BY <1>1
<1>3. QED
  BY <1>2, ExperimentInvariant, PTL DEF Spec, RecordsKept
-----------------------------------------------------------------------------
(* The verdicts.                                                           *)

(* What the signal of a record says of the record.                         *)
LEMMA SignalSays ==
  ASSUME NEW record, record.error \in {"none", "error"}, record.judges \in Seq(Judgments)
  PROVE  LET s == DeriveRepetitionSignal(record)
         IN  /\ ~IsInfrastructure(s) => Sound(record)
             /\ s.blockingFail <=> Has(record, "fail")
             /\ s.blockingNotAvailable <=> Has(record, "not_available")
             /\ s.emptyOutput => record.output.text # "answer"
             /\ s.refusal => record.output.text # "answer" \/ record.judges # << >>
             /\ s.overall # << >> <=> record.judges # << >>
             /\ Len(s.normalized) >= 2 => record.judges # << >>
<1> DEFINE s == DeriveRepetitionSignal(record)
           det == SummarizeDeterministic(record.evals)
<1>1. /\ det.hasBlockingFailure = Has(record, "fail")
      /\ det.hasBlockingNotAvailable = Has(record, "not_available")
      /\ det.hasError = (\E i \in DOMAIN record.evals : record.evals[i].status = "error")
  BY DEF SummarizeDeterministic, Has
<1>2. /\ s.backendError = ~HasResponse(record)
      /\ s.emptyOutput = (HasResponse(record) /\ record.output.text = "blank")
      /\ s.blockingFail = det.hasBlockingFailure
      /\ s.blockingNotAvailable = det.hasBlockingNotAvailable
      /\ s.deterministicError = det.hasError
      /\ s.refusal = \/ \E i \in DOMAIN record.judges : record.judges[i].refusal
                     \/ HasResponse(record) /\ LooksLikeRefusal(record.output)
  BY DEF DeriveRepetitionSignal
<1>3. /\ s.overall # << >> <=> record.judges # << >>
      /\ Len(s.normalized) >= 2 => record.judges # << >>
  BY SignalOfRecord
<1> HIDE DEF s, det
<1>4. ~IsInfrastructure(s) => Sound(record)
  BY <1>1, <1>2 DEF IsInfrastructure, Sound
<1>5. (\E i \in DOMAIN record.judges : record.judges[i].refusal) => record.judges # << >>
  OBVIOUS
<1>6. /\ s.blockingFail <=> Has(record, "fail")
      /\ s.blockingNotAvailable <=> Has(record, "not_available")
  BY <1>1, <1>2
<1>7. s.emptyOutput => record.output.text # "answer"
  BY <1>2
<1>8. s.refusal => record.output.text # "answer" \/ record.judges # << >>
  BY <1>2, <1>5 DEF LooksLikeRefusal
<1>9. QED
  BY <1>3, <1>4, <1>6, <1>7, <1>8 DEF s

(* There are finitely many files.                                          *)
LEMMA FinitelyManyFiles ==
  ASSUME ExperimentInv
  PROVE  IsFiniteSet(DOMAIN files)
<1> DEFINE times == (1..session) \X (1..Len(Plan))
           name == [t \in times |-> FileAt(t[1], t[2])]
<1>1. session \in Nat /\ Len(Plan) \in Nat
  BY ExperimentAssumption, PlanTyped DEF ExperimentInv
<1>2. IsFiniteSet(1..session) /\ IsFiniteSet(1..Len(Plan))
  <2>1. 1 \in Int /\ session \in Int /\ Len(Plan) \in Int
    BY <1>1
  <2>2. QED
    BY <2>1, FS_Interval
<1>3. IsFiniteSet(times)
  BY <1>2, FS_Product
<1>4. \A f \in DOMAIN files : \E t \in times : name[t] = f
  <2> SUFFICES ASSUME NEW f \in DOMAIN files PROVE \E t \in times : name[t] = f
    OBVIOUS
  <2>1. PICK s \in 1..session, k \in 1..Len(Plan) : f = FileAt(s, k)
    BY DEF ExperimentInv, FilesOfRepetitions
  <2>2. <<s, k>> \in times /\ name[<<s, k>>] = f
    BY <2>1
  <2>3. QED
    BY <2>2
<1> DEFINE names == {name[t] : t \in times}
<1>5. IsFiniteSet(names)
  <2>1. name \in Surjection(times, names)
    BY DEF Surjection
  <2> HIDE DEF name, names, times
  <2>2. QED
    BY <1>3, <2>1, FS_Surjection
<1>6. DOMAIN files \subseteq names
  BY <1>4
<1> HIDE DEF names
<1>7. QED
  BY <1>5, <1>6, FS_Subset


(* What a benchmark's repetition shows is shown by a record on disk.       *)
LEMMA ShownByRecord ==
  ASSUME ExperimentInv, Intact = DOMAIN files, NEW target, NEW b,
         NEW i \in Decidable(SignalsOf(files, target, b))
  PROVE  /\ files[i] \in EvidenceOn(target, b) /\ Sound(files[i])
         /\ LET s == SignalsOf(files, target, b)[i]
                r == files[i]
            IN  /\ s.blockingFail <=> Has(r, "fail")
                /\ s.blockingNotAvailable <=> Has(r, "not_available")
                /\ IsCatastrophic(s) =>
                     Has(r, "fail") \/ r.output.text # "answer" \/ r.judges # << >>
                /\ s.overall # << >> <=> r.judges # << >>
                /\ Len(s.normalized) >= 2 => r.judges # << >>
<1> DEFINE s == DeriveRepetitionSignal(files[i])
           r == files[i]
<1>1. i \in About(files, target, b) /\ SignalsOf(files, target, b)[i] = s /\ ~IsInfrastructure(s)
  BY DEF Decidable, SignalsOf
<1>2. i \in Intact /\ files[i].target = target /\ files[i].benchmark = b
  BY <1>1 DEF About
<1>3. files[i] \in Record
  BY <1>2 DEF ExperimentInv, FilesOfRepetitions, Intact
<1>4. r.error \in {"none", "error"} /\ r.judges \in Seq(Judgments)
  BY <1>3 DEF Record
<1>5. /\ ~IsInfrastructure(s) => Sound(r)
      /\ s.blockingFail <=> Has(r, "fail")
      /\ s.blockingNotAvailable <=> Has(r, "not_available")
      /\ s.emptyOutput => r.output.text # "answer"
      /\ s.refusal => r.output.text # "answer" \/ r.judges # << >>
      /\ s.overall # << >> <=> r.judges # << >>
      /\ Len(s.normalized) >= 2 => r.judges # << >>
  BY <1>4, SignalSays
<1>6. files[i] \in EvidenceOn(target, b)
  BY <1>2 DEF EvidenceOn
<1> HIDE DEF s, r
<1>7. IsCatastrophic(s) => Has(r, "fail") \/ r.output.text # "answer" \/ r.judges # << >>
  BY <1>5 DEF IsCatastrophic
<1>8. QED
  BY <1>1, <1>5, <1>6, <1>7 DEF r

(* There is evidence on a benchmark just where there are records of it,    *)
(* and finitely many of them.                                              *)
LEMMA EvidenceIsRecords ==
  ASSUME ExperimentInv, Intact = DOMAIN files, NEW target, NEW b
  PROVE  /\ EvidenceOn(target, b) # {} <=> About(files, target, b) # {}
         /\ IsFiniteSet(DOMAIN SignalsOf(files, target, b))
<1>1. EvidenceOn(target, b) = {files[f] : f \in About(files, target, b)}
  BY DEF EvidenceOn, About
<1>2. IsFiniteSet(About(files, target, b))
  <2>1. About(files, target, b) \subseteq DOMAIN files
    BY DEF About
  <2>2. QED
    BY <2>1, FinitelyManyFiles, FS_Subset
<1>3. DOMAIN SignalsOf(files, target, b) = About(files, target, b)
  BY DEF SignalsOf
<1>4. QED
  BY <1>1, <1>2, <1>3

(* The matrix that is made next.                                           *)
NextMatrix == BuildCapabilityMatrix(files, ExcludeFromRankings /\ SpecFound, Threshold)

LEMMA QualifiedByRecords ==
  ASSUME ExperimentInv, Intact = DOMAIN files,
         \A b \in Benchmarks : Demanding(Benchmark[b].qualification),
         NEW e \in NextMatrix, NEW d \in e.qualifiedDomains
  PROVE  LET counted == {b \in Benchmarks : /\ Benchmark[b].domain = d /\ ~Benchmark[b].prototype
                                            /\ EvidenceOn(e.target, b) # {}}
             good(r, b) == /\ Sound(r) /\ ~Has(r, "fail") /\ ~Has(r, "not_available")
                           /\ Less(Zero, Benchmark[b].qualification.minimumDomainScore)
                                => r.judges # << >>
         IN  counted # {} /\ \A b \in counted : \E r \in EvidenceOn(e.target, b) : good(r, b)
<1> DEFINE exclude == ExcludeFromRankings /\ SpecFound
<1>1. exclude \in BOOLEAN
  OBVIOUS
<1> HIDE DEF exclude
<1>2. PICK target : e = BuildEntry(files, target, exclude, Threshold)
  BY DEF NextMatrix, BuildCapabilityMatrix, exclude
<1>3. e.target = target
  BY <1>2 DEF BuildEntry
<1> DEFINE counted == {b \in Benchmarks : /\ Benchmark[b].domain = d /\ ~Benchmark[b].prototype
                                          /\ EvidenceOn(target, b) # {}}
           about == {b \in Benchmarks : /\ Benchmark[b].domain = d /\ ~Benchmark[b].prototype
                                        /\ About(files, target, b) # {}}
<1>4. counted = about
  BY EvidenceIsRecords
<1>5. about # {} /\ \A b \in about : StatusOn(files, target, b, Threshold) = "qualified"
  <2>1. d \in BuildEntry(files, target, exclude, Threshold).qualifiedDomains
    BY <1>2
  <2>2. QED
    BY <1>1, <2>1, DomainQualified
<1> HIDE DEF about
<1>6. ASSUME NEW b \in counted
      PROVE  \E r \in EvidenceOn(target, b) :
               /\ Sound(r) /\ ~Has(r, "fail") /\ ~Has(r, "not_available")
               /\ Less(Zero, Benchmark[b].qualification.minimumDomainScore) => r.judges # << >>
  <2> DEFINE signals == SignalsOf(files, target, b)
             q == Benchmark[b].qualification
  <2>1. IsFiniteSet(DOMAIN signals)
    BY EvidenceIsRecords
  <2>2. Demanding(q)
    OBVIOUS
  <2>3. Aggregate(signals, q, Threshold).status = "qualified"
    BY <1>4, <1>5 DEF StatusOn
  <2>4. \E i \in Decidable(signals) :
          /\ ~signals[i].blockingFail /\ ~signals[i].blockingNotAvailable
          /\ Less(Zero, q.minimumDomainScore) => signals[i].overall # << >>
    <3> HIDE DEF signals, q
    <3>1. QED
      BY <2>1, <2>2, <2>3, QualifiedSignal
  <2>5. PICK i \in Decidable(signals) :
          /\ ~signals[i].blockingFail /\ ~signals[i].blockingNotAvailable
          /\ Less(Zero, q.minimumDomainScore) => signals[i].overall # << >>
    BY <2>4
  <2>6. /\ files[i] \in EvidenceOn(target, b) /\ Sound(files[i])
        /\ signals[i].blockingFail <=> Has(files[i], "fail")
        /\ signals[i].blockingNotAvailable <=> Has(files[i], "not_available")
        /\ signals[i].overall # << >> <=> files[i].judges # << >>
    BY ShownByRecord
  <2>7. QED
    BY <2>5, <2>6
<1>7. counted # {}
  BY <1>4, <1>5
<1>8. QED
  BY <1>3, <1>6, <1>7

LEMMA DisqualifiedByRecords ==
  ASSUME ExperimentInv, Intact = DOMAIN files,
         NEW e \in NextMatrix, NEW cell \in e.statuses, cell[2] = "disqualified"
  PROVE  \E b \in Benchmarks : \E r \in EvidenceOn(e.target, b) :
           /\ Benchmark[b].domain = cell[1] /\ ~Benchmark[b].prototype /\ Sound(r)
           /\ Has(r, "fail") \/ r.output.text # "answer" \/ r.judges # << >>
<1> DEFINE exclude == ExcludeFromRankings /\ SpecFound
<1>1. exclude \in BOOLEAN
  OBVIOUS
<1> HIDE DEF exclude
<1>2. PICK target : e = BuildEntry(files, target, exclude, Threshold)
  BY DEF NextMatrix, BuildCapabilityMatrix, exclude
<1>3. e.target = target /\ cell = <<cell[1], "disqualified">>
  <2> DEFINE aggregates == BenchmarkAggregates(files, target, exclude, Threshold)
             domains == {a.domain : a \in aggregates}
             status(d) == DomainStatus({a \in aggregates : a.domain = d})
  <2>1. e.target = target /\ e.statuses = {<<d, status(d)>> : d \in domains}
    BY <1>2 DEF BuildEntry
  <2> HIDE DEF aggregates, domains, status
  <2>2. PICK d \in domains : cell = <<d, status(d)>>
    BY <2>1
  <2>3. QED
    BY <2>1, <2>2
<1>4. PICK b \in Benchmarks : /\ Benchmark[b].domain = cell[1] /\ ~Benchmark[b].prototype
                              /\ StatusOn(files, target, b, Threshold) = "disqualified"
  <2>1. <<cell[1], "disqualified">> \in BuildEntry(files, target, exclude, Threshold).statuses
    BY <1>2, <1>3
  <2>2. QED
    BY <1>1, <2>1, DomainDisqualified
<1> DEFINE signals == SignalsOf(files, target, b)
           q == Benchmark[b].qualification
<1>5. /\ IsShare(q.deterministicPassRate) /\ IsShare(q.maximumCatastrophicFailureRate)
      /\ IsShare(q.maximumEvaluatorDisagreement)
  BY VerdictAssumption
<1>6. IsFiniteSet(DOMAIN signals)
  BY EvidenceIsRecords
<1>7. Aggregate(signals, q, Threshold).status = "disqualified"
  BY <1>4 DEF StatusOn
<1>8. \E i \in Decidable(signals) :
        \/ signals[i].blockingFail \/ IsCatastrophic(signals[i])
        \/ signals[i].overall # << >> \/ Len(signals[i].normalized) >= 2
  <2> HIDE DEF signals, q
  <2>1. QED
    BY <1>5, <1>6, <1>7, DisqualifiedSignal
<1>9. PICK i \in Decidable(signals) :
        \/ signals[i].blockingFail \/ IsCatastrophic(signals[i])
        \/ signals[i].overall # << >> \/ Len(signals[i].normalized) >= 2
  BY <1>8
<1>10. /\ files[i] \in EvidenceOn(target, b) /\ Sound(files[i])
       /\ signals[i].blockingFail <=> Has(files[i], "fail")
       /\ IsCatastrophic(signals[i]) =>
            Has(files[i], "fail") \/ files[i].output.text # "answer" \/ files[i].judges # << >>
       /\ signals[i].overall # << >> <=> files[i].judges # << >>
       /\ Len(signals[i].normalized) >= 2 => files[i].judges # << >>
  BY ShownByRecord
<1>11. Has(files[i], "fail") \/ files[i].output.text # "answer" \/ files[i].judges # << >>
  BY <1>9, <1>10
<1>12. QED
  BY <1>3, <1>4, <1>10, <1>11


(* Only the matrix command leaves a matrix behind, made from whole records *)
(* that it does not touch.                                                 *)
LEMMA MatrixStep ==
  ASSUME ExperimentInv, Next
  PROVE  \/ matrix' = {}
         \/ Intact = DOMAIN files /\ matrix' = NextMatrix /\ UNCHANGED files
<1>1. CASE RunMatrix
  BY <1>1 DEF RunMatrix, NextMatrix
<1>2. CASE MakeWorkspace
  BY <1>2, Zenon DEF MakeWorkspace, Leave
<1>3. CASE ~RunMatrix /\ ~MakeWorkspace
  BY <1>3 DEF Next, CheckStep, RecordStep, StartExperiment, InspectDone, HeadersArrive, RequestFails,
     TimerFires, Refused, Fails, Answered, MakeWorkspaceFails, SkipTool, ProbeTool,
     ProbeThrows, RunTool, RefuseTool, EvaluateStructural, ChecksDone, RemovalFails, OpenRecord, CompleteRecord,
     WriteFails, Crash, ChangeTools, ApplyJudgesToRecord, Leave
<1>4. QED
  BY <1>1, <1>2, <1>3

LEMMA EvidenceUntouched ==
  ASSUME UNCHANGED files, NEW target, NEW b
  PROVE  EvidenceOn(target, b)' = EvidenceOn(target, b)
BY DEF EvidenceOn, Intact

(* The records that the verdict of e on domain d rests on.                 *)
Qualifying(e, d) ==
  LET counted == {b \in Benchmarks : /\ Benchmark[b].domain = d /\ ~Benchmark[b].prototype
                                     /\ EvidenceOn(e.target, b) # {}}
      good(r, b) == /\ Sound(r) /\ ~Has(r, "fail") /\ ~Has(r, "not_available")
                    /\ Less(Zero, Benchmark[b].qualification.minimumDomainScore)
                         => r.judges # << >>
  IN  counted # {} /\ \A b \in counted : \E r \in EvidenceOn(e.target, b) : good(r, b)

Disqualifying(e, d) ==
  \E b \in Benchmarks : \E r \in EvidenceOn(e.target, b) :
    /\ Benchmark[b].domain = d /\ ~Benchmark[b].prototype /\ Sound(r)
    /\ Has(r, "fail") \/ r.output.text # "answer" \/ r.judges # << >>

LEMMA GroundsUntouched ==
  ASSUME UNCHANGED files, NEW e, NEW d
  PROVE  /\ Qualifying(e, d)' <=> Qualifying(e, d)
         /\ Disqualifying(e, d)' <=> Disqualifying(e, d)
<1>1. \A b : EvidenceOn(e.target, b)' = EvidenceOn(e.target, b)
  BY EvidenceUntouched
<1> DEFINE counted == {b \in Benchmarks : /\ Benchmark[b].domain = d /\ ~Benchmark[b].prototype
                                          /\ EvidenceOn(e.target, b) # {}}
           after == {b \in Benchmarks : /\ Benchmark[b].domain = d /\ ~Benchmark[b].prototype
                                        /\ EvidenceOn(e.target, b)' # {}}
           good(r, b) == /\ Sound(r) /\ ~Has(r, "fail") /\ ~Has(r, "not_available")
                         /\ Less(Zero, Benchmark[b].qualification.minimumDomainScore)
                              => r.judges # << >>
<1>2. after = counted
  BY <1>1
<1>3. /\ Qualifying(e, d) <=>
           counted # {} /\ \A b \in counted : \E r \in EvidenceOn(e.target, b) : good(r, b)
      /\ Qualifying(e, d)' <=>
           after # {} /\ \A b \in after : \E r \in EvidenceOn(e.target, b)' : good(r, b)
  BY DEF Qualifying
<1>4. Disqualifying(e, d)' <=> Disqualifying(e, d)
  BY <1>1 DEF Disqualifying
<1> HIDE DEF counted, after, good
<1>5. QED
  BY <1>1, <1>2, <1>3, <1>4

(* Where qualifications ask for something, as the default does, that every *)
(* repetition pass its checks (suite/schema.ts:179), a target qualifies in *)
(* a domain only on benchmarks that count, each with an answer that passed *)
(* all of its checks and, where a score is asked for, was judged.          *)
THEOREM QualifiedHasEvidence ==
  ASSUME \A b \in Benchmarks : Demanding(Benchmark[b].qualification)
  PROVE  Spec => []QualifiedOnEvidence
<1>1. Init => QualifiedOnEvidence
  BY DEF Init, QualifiedOnEvidence
<1>2. ASSUME ExperimentInv, QualifiedOnEvidence, [Next]_vars
      PROVE  QualifiedOnEvidence'
  <2>1. SUFFICES ASSUME NEW e \in matrix', NEW d \in e.qualifiedDomains
                 PROVE  Qualifying(e, d)'
    BY DEF QualifiedOnEvidence, Qualifying
  <2>2. CASE UNCHANGED vars
    <3>1. UNCHANGED files /\ matrix' = matrix
      BY <2>2 DEF vars
    <3>2. Qualifying(e, d)
      BY <1>2, <3>1, Zenon DEF QualifiedOnEvidence, Qualifying
    <3>3. QED
      BY <3>1, <3>2, GroundsUntouched
  <2>3. CASE Intact = DOMAIN files /\ matrix' = NextMatrix /\ UNCHANGED files
    <3>1. e \in NextMatrix
      BY <2>3
    <3>2. Qualifying(e, d)
      BY <1>2, <2>3, <3>1, QualifiedByRecords DEF Qualifying
    <3>3. QED
      BY <2>3, <3>2, GroundsUntouched
  <2>4. QED
    BY <1>2, <2>2, <2>3, MatrixStep
<1>3. QED
  BY <1>1, <1>2, ExperimentInvariant, PTL DEF Spec

(* Whatever the thresholds, a disqualification rests on an answer: failing *)
(* requests, missing tools and failing checks never do it (verdict.ts:8).  *)
THEOREM DisqualifiedHasEvidence == Spec => []DisqualifiedOnEvidence
<1>1. Init => DisqualifiedOnEvidence
  BY DEF Init, DisqualifiedOnEvidence
<1>2. ASSUME ExperimentInv, DisqualifiedOnEvidence, [Next]_vars
      PROVE  DisqualifiedOnEvidence'
  <2>1. SUFFICES ASSUME NEW e \in matrix', NEW cell \in e.statuses, cell[2] = "disqualified"
                 PROVE  Disqualifying(e, cell[1])'
    BY DEF DisqualifiedOnEvidence, Disqualifying
  <2>2. CASE UNCHANGED vars
    <3>1. UNCHANGED files /\ matrix' = matrix
      BY <2>2 DEF vars
    <3>2. Disqualifying(e, cell[1])
      BY <1>2, <2>1, <3>1 DEF DisqualifiedOnEvidence, Disqualifying
    <3>3. QED
      BY <3>1, <3>2, GroundsUntouched
  <2>3. CASE Intact = DOMAIN files /\ matrix' = NextMatrix /\ UNCHANGED files
    <3>1. e \in NextMatrix
      BY <2>3
    <3>2. Disqualifying(e, cell[1])
      BY <1>2, <2>1, <2>3, <3>1, DisqualifiedByRecords DEF Disqualifying
    <3>3. QED
      BY <2>3, <3>2, GroundsUntouched
  <2>4. QED
    BY <1>2, <2>2, <2>3, MatrixStep
<1>3. QED
  BY <1>1, <1>2, ExperimentInvariant, PTL DEF Spec
=============================================================================
