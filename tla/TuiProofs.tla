----------------------------- MODULE TuiProofs -----------------------------
(***************************************************************************)
(* The menu, for any groups and files, any number of jobs and keys: who    *)
(* waits waits for a job that is on its way, every index and every place   *)
(* that a key uses is one of the list it is used on, the group on the      *)
(* screen stays through a late job, and enter takes the link of the row.   *)
(***************************************************************************)
EXTENDS Tui, FiniteSetTheorems, SequenceTheorems, WellFoundedInduction, TLAPS

(* An action is awaited.                                                   *)
ActionOut == \E j \in jobs : j.kind # "bench"

(* A benchmark is awaited.                                                 *)
BenchOut == \E j \in jobs : j.kind = "bench"

(* The live status that esc cancels is awaited.                            *)
LiveOut == \E j \in jobs : j.id = cancelFn /\ j.kind = "live"

(* What a new job is.                                                      *)
LEMMA FreshJob ==
    ASSUME NEW kind
    PROVE  Fresh(kind).kind = kind /\ Fresh(kind).id = started + 1
BY DEF Fresh

LEMMA FreshGroup ==
    ASSUME NEW kind, NEW g, NEW i
    PROVE  [Fresh(kind) EXCEPT !.group = g, !.idx = i].kind = kind
BY DEF Fresh

LEMMA FreshName ==
    ASSUME NEW kind, NEW g, NEW n
    PROVE  /\ [Fresh(kind) EXCEPT !.name = n].kind = kind
           /\ [Fresh(kind) EXCEPT !.group = g, !.name = n].kind = kind
BY DEF Fresh

LEMMA FreshRows ==
    ASSUME NEW g, NEW rows
    PROVE  [Fresh("bench") EXCEPT !.group = g, !.rows = rows].kind = "bench"
BY DEF Fresh

(* A key that starts an action makes the menu wait for it; nothing else    *)
(* that is awaited is lost.                                                *)
LEMMA RunActionKeeps ==
    ASSUME NEW job, job.kind # "bench", WaitsForAJob, RunAction(job),
           UNCHANGED benchRunning
    PROVE  WaitsForAJob'
<1>1. jobs' = jobs \cup {job} /\ running' /\ cancelFn' = cancelFn
  BY DEF RunAction, Launch
<1>2. (\E j \in jobs : j.kind = "bench") => (\E j \in jobs' : j.kind = "bench")
  BY <1>1
<1>3. \E j \in jobs' : j.kind # "bench"
  BY <1>1
<1> QED
  BY <1>1, <1>2, <1>3 DEF WaitsForAJob

(* A step that leaves the waits and the jobs alone.                        *)
LEMMA QuietKeeps ==
    ASSUME WaitsForAJob, UNCHANGED <<running, cancelFn, benchRunning, jobs>>
    PROVE  WaitsForAJob'
BY DEF WaitsForAJob

(* The keys that change no wait and start no job.                          *)
LEMMA OtherKeysKeep ==
    ASSUME WaitsForAJob,
           \/ ctrlC \/ Dismiss \/ SwitchTab \/ Move \/ Flip \/ ServersDialog
           \/ (\E i \in DOMAIN groups : ShowGroup(i))
           \/ SubsDialog \/ ConfirmMove \/ ConfirmClose \/ ConfirmNo \/ ConfirmUpdate
           \/ DeleteGroup \/ DeleteSub \/ InputClose
    PROVE  WaitsForAJob'
<1>1. UNCHANGED <<running, cancelFn, benchRunning, jobs>>
  BY DEF ctrlC, Dismiss, SwitchTab, Move, Flip, ServersDialog, OnlyDialog, ShowGroup,
         SubsDialog, ConfirmMove, ConfirmClose, ConfirmNo, ConfirmUpdate, DeleteGroup,
         DeleteSub, InputClose, waitVars, jobVars, benchVars
<1> QED
  BY <1>1, QuietKeeps

(* Home: live-status takes the cancel for itself, and it is on its way.    *)
LEMMA HomeEnterKeeps == ASSUME WaitsForAJob, HomeEnter PROVE WaitsForAJob'
<1>1. UNCHANGED benchRunning
  BY DEF HomeEnter, benchVars
<1>2. CASE UNCHANGED <<waitVars, jobVars>>
  BY <1>1, <1>2, QuietKeeps DEF waitVars, jobVars
<1>3. CASE RunAction(Fresh("task"))
  BY <1>1, <1>3, RunActionKeeps, FreshJob
<1>4. CASE RunAction(Fresh("update"))
  BY <1>1, <1>4, RunActionKeeps, FreshJob
<1>5. CASE Launch(Fresh("live")) /\ running' = TRUE /\ cancelFn' = started + 1
  <2>1. jobs' = jobs \cup {Fresh("live")}
    BY <1>5 DEF Launch
  <2>2. Fresh("live") \in jobs' /\ Fresh("live").kind = "live"
        /\ Fresh("live").id = cancelFn'
    BY <2>1, <1>5, FreshJob
  <2>3. benchRunning => \E j \in jobs' : j.kind = "bench"
    BY <2>1 DEF WaitsForAJob
  <2>4. (\E j \in jobs' : j.kind # "bench")
        /\ (\E j \in jobs' : j.id = cancelFn' /\ j.kind = "live")
    BY <2>2
  <2> QED
    BY <1>1, <1>5, <2>3, <2>4 DEF WaitsForAJob
<1> QED
  BY <1>2, <1>3, <1>4, <1>5
     DEF HomeEnter, executeHomeAction, OnlyDialog, OnlyJob, waitVars, jobVars

(* A benchmark is one more job.                                            *)
LEMMA BenchKeeps == ASSUME WaitsForAJob, Bench PROVE WaitsForAJob'
<1>1. PICK rows :
        Launch([Fresh("bench") EXCEPT !.group = Shown, !.rows = rows])
  BY DEF Bench
<1>2. PICK job : job.kind = "bench" /\ jobs' = jobs \cup {job}
  BY <1>1, FreshRows DEF Launch
<1>3. UNCHANGED <<running, cancelFn>>
  BY DEF Bench, waitVars
<1>4. (ActionOut => ActionOut') /\ BenchOut' /\ (LiveOut => LiveOut')
  BY <1>2, <1>3 DEF ActionOut, BenchOut, LiveOut
<1> QED
  BY <1>3, <1>4 DEF WaitsForAJob, ActionOut, BenchOut, LiveOut

(* The other keys that start an action.                                    *)
LEMMA ActionKeysKeep ==
    ASSUME WaitsForAJob,
           ServersEnter \/ TestSingle \/ SubsUpdate \/ ConfirmJob \/ InputEnter
    PROVE  WaitsForAJob'
<1>0. UNCHANGED benchRunning
  BY DEF ServersEnter, TestSingle, SubsUpdate, ConfirmJob, InputEnter, benchVars
<1>1. CASE ServersEnter
  <2>1. CASE UNCHANGED <<waitVars, jobVars>>
    BY <1>0, <2>1, QuietKeeps DEF waitVars, jobVars
  <2>2. CASE RunAction([Fresh("select") EXCEPT !.group = Shown, !.idx = Selected])
    BY <1>0, <2>2, RunActionKeeps, FreshGroup
  <2> QED
    BY <1>1, <2>1, <2>2 DEF ServersEnter
<1>2. CASE TestSingle
  <2>1. PICK i : RunAction([Fresh("test") EXCEPT !.group = Shown, !.idx = i])
    BY <1>2 DEF TestSingle
  <2> QED
    BY <1>0, <2>1, RunActionKeeps, FreshGroup
<1>3. CASE SubsUpdate
  <2>1. CASE RunAction(Fresh("update"))
    BY <1>0, <2>1, RunActionKeeps, FreshJob
  <2>2. CASE RunAction([Fresh("update") EXCEPT !.group = SubsRow])
    <3>1. [Fresh("update") EXCEPT !.group = SubsRow].kind # "bench"
      BY DEF Fresh
    <3> QED
      BY <1>0, <2>2, <3>1, RunActionKeeps
  <2> QED
    BY <1>3, <2>1, <2>2 DEF SubsUpdate
<1>4. CASE ConfirmJob
  BY <1>0, <1>4, RunActionKeeps, FreshGroup, FreshJob DEF ConfirmJob
<1>5. CASE InputEnter
  <2>1. \/ \E k \in {"task", "add-link"} : RunAction(Fresh(k))
        \/ \E k \in {"sub-add", "create"} : \E n \in Typed :
              RunAction([Fresh(k) EXCEPT !.name = n])
        \/ \E n \in Typed :
              RunAction([Fresh("rename") EXCEPT !.group = input.group, !.name = n])
    BY <1>5 DEF InputEnter
  <2> QED
    BY <1>0, <2>1, RunActionKeeps, FreshName, FreshJob
<1> QED
  BY <1>1, <1>2, <1>3, <1>4, <1>5

(* esc awaits nothing any more, and cannot cancel twice.                   *)
LEMMA EscKeeps == ASSUME WaitsForAJob, Esc PROVE WaitsForAJob'
BY DEF WaitsForAJob, Esc, benchVars, jobVars

(* A message ends its own wait and no other.                               *)
LEMMA JobKeeps ==
    ASSUME WaitsForAJob, NEW j \in jobs,
           Finish(j) \/ BenchDoneMsg(j) \/ ActionDoneMsg(j)
    PROVE  WaitsForAJob'
<1>1. CASE Finish(j)
  <2>1. PICK n : jobs' = (jobs \ {j}) \cup {[j EXCEPT !.back = TRUE, !.name = n]}
    BY <1>1 DEF Finish
  <2>2. UNCHANGED <<running, cancelFn, benchRunning>>
    BY <1>1 DEF Finish, waitVars, benchVars
  <2>3. [j EXCEPT !.back = TRUE, !.name = n].kind = j.kind
        /\ [j EXCEPT !.back = TRUE, !.name = n].id = j.id
    OBVIOUS
  <2>4. \A i \in jobs : \E k \in jobs' : k.kind = i.kind /\ k.id = i.id
    BY <2>1, <2>3
  <2> QED
    BY <2>2, <2>4 DEF WaitsForAJob
<1>2. CASE BenchDoneMsg(j)
  <2>1. UNCHANGED <<running, cancelFn>> /\ ~benchRunning' /\ jobs' = jobs \ {j}
        /\ j.kind = "bench"
    BY <1>2 DEF BenchDoneMsg, waitVars
  <2>2. (ActionOut => ActionOut') /\ (LiveOut => LiveOut')
    BY <2>1 DEF ActionOut, LiveOut
  <2> QED
    BY <2>1, <2>2 DEF WaitsForAJob, ActionOut, LiveOut
<1>3. CASE ActionDoneMsg(j)
  <2>1. ~running' /\ cancelFn' = 0 /\ UNCHANGED benchRunning /\ jobs' = jobs \ {j}
        /\ j.kind # "bench"
    BY <1>3 DEF ActionDoneMsg, benchVars
  <2>2. BenchOut => BenchOut'
    BY <2>1 DEF BenchOut
  <2> QED
    BY <2>1, <2>2 DEF WaitsForAJob, BenchOut
<1> QED
  BY <1>1, <1>2, <1>3

(* However many jobs the user has left behind with esc, and in whatever    *)
(* order they come back: "running" means that an action is on its way,     *)
(* "Testing..." that a benchmark is, and esc cancels the live status that  *)
(* is awaited.                                                             *)
THEOREM TuiWaits == Spec => []WaitsForAJob
<1>1. Init => WaitsForAJob
  BY DEF Init, WaitsForAJob
<1>2. WaitsForAJob /\ [Next]_vars => WaitsForAJob'
  <2> SUFFICES ASSUME WaitsForAJob, [Next]_vars PROVE WaitsForAJob'
    OBVIOUS
  <2>1. CASE Keys
    BY <2>1, OtherKeysKeep, HomeEnterKeeps, BenchKeeps, ActionKeysKeep, EscKeeps DEF Keys
  <2>2. CASE JobSteps
    BY <2>2, JobKeeps DEF JobSteps
  <2>3. CASE UNCHANGED vars
    BY <2>3, QuietKeeps DEF vars, waitVars, benchVars, jobVars
  <2> QED
    BY <2>1, <2>2, <2>3 DEF Next, Key
<1> QED
  BY <1>1, <1>2, PTL DEF Spec

-----------------------------------------------------------------------------
(* The members of a set in their order                                     *)

(* A set of naturals has a least element.                                  *)
LEMMA Least ==
    ASSUME NEW S \in SUBSET Nat, S # {}
    PROVE  \E n \in S : \A m \in S : n <= m
<1> DEFINE R == {p \in Nat \X Nat : p[1] < p[2]}
<1>1. IsWellFoundedOn(R, Nat)
  BY NatLessThanWellFounded DEF OpToRel
<1> HIDE DEF R
<1>2. PICK n \in S : \A m \in S : <<m, n>> \notin R
  BY <1>1, WFMin
<1>3. ASSUME NEW m \in S PROVE n <= m
  <2>1. <<m, n>> \notin R /\ m \in Nat /\ n \in Nat
    BY <1>2
  <2>2. ~(m < n)
    BY <2>1 DEF R
  <2> QED
    BY <2>1, <2>2
<1> QED
  BY <1>3

(* What comes up to the members of a set: of two, less to the one than to   *)
(* the other.                                                              *)
Nested(upTo, S) ==
    /\ upTo = [x \in S |-> upTo[x]]
    /\ \A x \in S : upTo[x] \subseteq S /\ x \in upTo[x]
    /\ \A x, y \in S : x # y =>
          \/ upTo[x] \subseteq upTo[y] /\ y \notin upTo[x]
          \/ upTo[y] \subseteq upTo[x] /\ x \notin upTo[y]

(* What comes up to each of two members is not as much, so each member has *)
(* a place of its own and no place is empty.                               *)
LEMMA InOrderIs ==
    ASSUME NEW S, IsFiniteSet(S), NEW upTo, Nested(upTo, S)
    PROVE  /\ Cardinality(S) \in Nat /\ DOMAIN InOrder(upTo) = 1..Cardinality(S)
           /\ \A k \in 1..Cardinality(S) : InOrder(upTo)[k] \in S
           /\ \A x \in S : \E k \in 1..Cardinality(S) : InOrder(upTo)[k] = x
<1> USE DEF Nested
<1> DEFINE n == Cardinality(S)
           rank == [x \in S |-> Cardinality(upTo[x])]
<1>1. n \in Nat
  BY FS_CardinalityType
<1>2. \A x \in S : IsFiniteSet(upTo[x]) /\ Cardinality(upTo[x]) <= n
  BY FS_Subset
<1>3. \A x \in S : Cardinality(upTo[x]) \in Nat /\ Cardinality(upTo[x]) # 0
  <2> TAKE x \in S
  <2>1. upTo[x] # {}
    OBVIOUS
  <2> QED
    BY <1>2, <2>1, FS_CardinalityType, FS_EmptySet
<1>4. rank \in [S -> 1..n]
  BY <1>1, <1>2, <1>3
<1>5. ASSUME NEW x \in S, NEW y \in S, x # y, upTo[x] \subseteq upTo[y], y \notin upTo[x]
      PROVE  rank[x] # rank[y]
  <2>1. upTo[x] # upTo[y]
    BY <1>5
  <2>2. Cardinality(upTo[y]) # Cardinality(upTo[x])
    BY <1>2, <1>5, <2>1, FS_Subset
  <2> QED
    BY <2>2
<1>6. \A x, y \in S : rank[x] = rank[y] => x = y
  BY <1>5
<1> HIDE DEF rank
<1>7. rank \in Injection(S, 1..n)
  BY <1>4, <1>6 DEF Injection, IsInjective
<1>8. IsFiniteSet(1..n) /\ Cardinality(1..n) = n
  BY <1>1, FS_Interval
<1>9. rank \in Surjection(S, 1..n)
  BY <1>7, <1>8, FS_Injection
<1>10. \A k \in 1..n : \E x \in S : rank[x] = k
  BY <1>9 DEF Surjection
<1>11. DOMAIN upTo = S
  OBVIOUS
<1>12. InOrder(upTo) = [k \in 1..n |-> CHOOSE x \in S : Cardinality(upTo[x]) = k]
  BY <1>11 DEF InOrder
<1>13. \A x \in S : rank[x] = Cardinality(upTo[x])
  BY DEF rank
<1> HIDE DEF n
<1>14. ASSUME NEW k \in 1..n
       PROVE  InOrder(upTo)[k] \in S /\ rank[InOrder(upTo)[k]] = k
  <2>1. \E x \in S : Cardinality(upTo[x]) = k
    BY <1>10, <1>13
  <2>2. InOrder(upTo)[k] = CHOOSE x \in S : Cardinality(upTo[x]) = k
    BY <1>12
  <2> QED
    BY <1>13, <2>1, <2>2
<1>15. ASSUME NEW x \in S
       PROVE  \E k \in 1..n : InOrder(upTo)[k] = x
  <2>1. rank[x] \in 1..n
    BY <1>4
  <2>2. InOrder(upTo)[rank[x]] = x
    BY <1>6, <1>14, <2>1
  <2> QED
    BY <2>1, <2>2
<1>16. DOMAIN InOrder(upTo) = 1..n
  BY <1>12
<1> QED
  BY <1>1, <1>14, <1>15, <1>16 DEF n

(* Only keeps what it should and loses nothing of it.                      *)
LEMMA OnlyIs ==
    ASSUME NEW T, NEW list \in Seq(T), NEW kept
    PROVE  /\ Only(list, kept) \in Seq(T)
           /\ \A k \in DOMAIN Only(list, kept) :
                \E i \in DOMAIN list : Only(list, kept)[k] = list[i] /\ list[i] \in kept
           /\ \A i \in DOMAIN list : list[i] \in kept =>
                \E k \in DOMAIN Only(list, kept) : Only(list, kept)[k] = list[i]
<1> DEFINE places == {i \in DOMAIN list : list[i] \in kept}
           upTo == [i \in places |-> {j \in places : j <= i}]
           order == InOrder(upTo)
           n == Cardinality(places)
<1>1. Len(list) \in Nat /\ DOMAIN list = 1..Len(list)
  BY LenProperties
<1>2. places \subseteq 1..Len(list) /\ places \subseteq Nat
  BY <1>1
<1>3. IsFiniteSet(places)
  <2>1. IsFiniteSet(1..Len(list))
    BY <1>1, FS_Interval
  <2> HIDE DEF places
  <2> QED
    BY <1>2, <2>1, FS_Subset
<1>4. \A x \in places : upTo[x] = {j \in places : j <= x}
  OBVIOUS
<1>5. upTo = [x \in places |-> upTo[x]]
  OBVIOUS
<1>6. Only(list, kept) = [k \in DOMAIN order |-> list[order[k]]]
  BY DEF Only
<1>7. \A i \in places : i \in DOMAIN list /\ list[i] \in kept
  OBVIOUS
<1>8. \A i \in DOMAIN list : list[i] \in kept => i \in places
  OBVIOUS
<1> HIDE DEF places, upTo
<1>9. \A x \in places : upTo[x] \subseteq places /\ x \in upTo[x]
  BY <1>2, <1>4
<1>10. \A x, y \in places : x # y =>
          \/ upTo[x] \subseteq upTo[y] /\ y \notin upTo[x]
          \/ upTo[y] \subseteq upTo[x] /\ x \notin upTo[y]
  <2>1. ASSUME NEW x \in places, NEW y \in places, x < y
        PROVE  upTo[x] \subseteq upTo[y] /\ y \notin upTo[x]
    <3>1. ~(y <= x) /\ \A z \in places : z <= x => z <= y
      BY <1>2, <2>1
    <3> QED
      BY <1>4, <3>1
  <2>2. \A x, y \in places : x # y => x < y \/ y < x
    BY <1>2
  <2> QED
    BY <2>1, <2>2
<1>11. /\ n \in Nat /\ DOMAIN order = 1..n
       /\ \A k \in 1..n : order[k] \in places
       /\ \A x \in places : \E k \in 1..n : order[k] = x
  <2>1. Nested(upTo, places)
    BY <1>5, <1>9, <1>10 DEF Nested
  <2> QED
    BY <1>3, <2>1, InOrderIs
<1> HIDE DEF order, n
<1>12. \A i \in DOMAIN list : list[i] \in T
  BY <1>1, ElementOfSeq
<1>13. Only(list, kept) \in [1..n -> T]
  BY <1>6, <1>7, <1>11, <1>12
<1>14. Only(list, kept) \in Seq(T)
  BY <1>11, <1>13, SeqDef
<1> DEFINE only == Only(list, kept)
<1>15. DOMAIN only = 1..n /\ \A k \in 1..n : only[k] = list[order[k]]
  BY <1>6, <1>11
<1> HIDE DEF only
<1>16. \A k \in 1..n : \E i \in DOMAIN list : only[k] = list[i] /\ list[i] \in kept
  BY <1>7, <1>11, <1>15
<1>17. ASSUME NEW i \in DOMAIN list, list[i] \in kept
       PROVE  \E k \in 1..n : only[k] = list[i]
  <2>1. PICK k \in 1..n : order[k] = i
    BY <1>8, <1>11, <1>17
  <2> QED
    BY <1>15, <2>1
<1> QED
  BY <1>14, <1>15, <1>16, <1>17 DEF only

(* The order of the results is one.                                        *)
LEMMA BeforeIsOrder ==
    ASSUME NEW results, NEW asc, NEW a \in Nat, NEW b \in Nat, NEW c \in Nat,
           results[a].ms \in Nat, results[b].ms \in Nat, results[c].ms \in Nat
    PROVE  /\ a # b => Before(results, asc, a, b) \/ Before(results, asc, b, a)
           /\ Before(results, asc, a, b) => ~Before(results, asc, b, a)
           /\ Before(results, asc, a, b) /\ Before(results, asc, b, c)
                => Before(results, asc, a, c)
<1> DEFINE x == results[a].ms
           y == results[b].ms
           z == results[c].ms
<1>1. \A i, j : Before(results, asc, i, j) <=>
         LET u == results[i].ms
             v == results[j].ms
         IN  \/ u > 0 /\ v > 0 /\ u # v /\ IF asc THEN u < v ELSE u > v
             \/ ~(u > 0 /\ v > 0 /\ u # v) /\ (u > 0) # (v > 0) /\ u > 0
             \/ ~(u > 0 /\ v > 0 /\ u # v) /\ ~((u > 0) # (v > 0)) /\ i < j
  BY DEF Before
<1> QED
  BY <1>1

(* Sorting keeps every row.                                                *)
LEMMA SortedIs ==
    ASSUME NEW results \in Seq(Rows), NEW asc
    PROVE  /\ DOMAIN Sorted(results, asc) = 1..Len(results)
           /\ Len(Sorted(results, asc)) = Len(results)
           /\ \A k \in 1..Len(results) :
                \E i \in DOMAIN results : Sorted(results, asc)[k] = results[i]
<1> DEFINE rows == DOMAIN results
           upTo == [a \in rows |-> {b \in rows : b = a \/ Before(results, asc, b, a)}]
           order == InOrder(upTo)
           n == Len(results)
<1>1. n \in Nat /\ rows = 1..n
  BY LenProperties
<1>2. IsFiniteSet(rows) /\ Cardinality(rows) = n
  BY <1>1, FS_Interval
<1>3. \A a \in rows : a \in Nat /\ results[a].ms \in Nat
  <2> TAKE a \in rows
  <2>1. results[a] \in Rows
    BY <1>1, ElementOfSeq
  <2> QED
    BY <1>1, <2>1 DEF Rows
<1>4. \A x \in rows : upTo[x] = {b \in rows : b = x \/ Before(results, asc, b, x)}
  OBVIOUS
<1>5. upTo = [x \in rows |-> upTo[x]]
  OBVIOUS
<1>6. Sorted(results, asc) = [k \in DOMAIN order |-> results[order[k]]]
  BY DEF Sorted
<1> HIDE DEF rows, upTo
<1>7. \A x \in rows : upTo[x] \subseteq rows /\ x \in upTo[x]
  BY <1>4
<1>8. ASSUME NEW x \in rows, NEW y \in rows, x # y, Before(results, asc, x, y)
      PROVE  upTo[x] \subseteq upTo[y] /\ y \notin upTo[x]
  <2>1. \A z \in upTo[x] : z \in rows /\ (z = x \/ Before(results, asc, z, x))
    BY <1>4
  <2>2. \A z \in upTo[x] : z = y \/ Before(results, asc, z, y)
    BY <1>3, <1>8, <2>1, BeforeIsOrder
  <2>3. ~Before(results, asc, y, x)
    BY <1>3, <1>8, BeforeIsOrder
  <2> QED
    BY <1>4, <1>8, <2>1, <2>2, <2>3
<1>9. \A x, y \in rows : x # y => Before(results, asc, x, y) \/ Before(results, asc, y, x)
  BY <1>3, BeforeIsOrder
<1>10. \A x, y \in rows : x # y =>
          \/ upTo[x] \subseteq upTo[y] /\ y \notin upTo[x]
          \/ upTo[y] \subseteq upTo[x] /\ x \notin upTo[y]
  BY <1>8, <1>9
<1>11. DOMAIN order = 1..n /\ \A k \in 1..n : order[k] \in rows
  <2>1. Nested(upTo, rows)
    BY <1>5, <1>7, <1>10 DEF Nested
  <2> QED
    BY <1>2, <2>1, InOrderIs
<1> HIDE DEF order, n
<1>12. DOMAIN Sorted(results, asc) = 1..n
  BY <1>6, <1>11
<1>13. \A k \in 1..n : \E i \in rows : Sorted(results, asc)[k] = results[i]
  BY <1>6, <1>11
<1>14. Sorted(results, asc) \in Seq(Rows)
  <2>1. \A i \in rows : results[i] \in Rows
    BY <1>1, ElementOfSeq DEF rows, n
  <2>2. Sorted(results, asc) \in [1..n -> Rows]
    BY <1>6, <1>11, <2>1
  <2> QED
    BY <1>1, <2>2, SeqDef
<1>15. Len(Sorted(results, asc)) = n
  BY <1>1, <1>12, <1>14, LenProperties
<1> QED
  BY <1>12, <1>13, <1>15 DEF n, rows

-----------------------------------------------------------------------------
(* Finding a group in the list                                             *)

LEMMA MinIs ==
    ASSUME NEW I \in SUBSET Nat, I # {}
    PROVE  Min(I) \in I
<1>1. \E n \in I : \A m \in I : n <= m
  BY Least
<1> QED
  BY <1>1 DEF Min

(* Looking for a name finds it, if it is there.                            *)
LEMMA FindIs ==
    ASSUME NEW names \in Seq(GroupNames), NEW v
    PROVE  LET i == SelectInSeq(names, LAMBDA x : x = v)
           IN  \/ i = 0 /\ \A k \in DOMAIN names : names[k] # v
               \/ i \in DOMAIN names /\ i # 0 /\ names[i] = v
<1> DEFINE I == {i \in 1..Len(names) : names[i] = v}
<1>1. SelectInSeq(names, LAMBDA x : x = v) = IF I # {} THEN Min(I) ELSE 0
  BY DEF SelectInSeq
<1>2. DOMAIN names = 1..Len(names) /\ Len(names) \in Nat
  BY LenProperties
<1>3. I \in SUBSET Nat
  BY <1>2
<1>4. \A k \in DOMAIN names : names[k] = v => k \in I
  BY <1>2
<1>5. \A i \in I : i \in DOMAIN names /\ i # 0 /\ names[i] = v
  BY <1>2
<1> HIDE DEF I
<1>6. CASE I # {}
  BY <1>1, <1>3, <1>5, <1>6, MinIs
<1>7. CASE I = {}
  BY <1>1, <1>4, <1>7
<1> QED
  BY <1>6, <1>7

(* The first group to show is in the list, if any is.                      *)
LEMMA FirstOtherIs ==
    ASSUME NEW names \in Seq(GroupNames)
    PROVE  /\ FirstOther(names) \in Nat \ {0}
           /\ names = <<>> \/ FirstOther(names) \in DOMAIN names
<1> DEFINE I == {i \in 1..Len(names) : names[i] # Default}
           i == SelectInSeq(names, LAMBDA x : x # Default)
<1>1. i = IF I # {} THEN Min(I) ELSE 0
  BY DEF SelectInSeq
<1>2. DOMAIN names = 1..Len(names) /\ Len(names) \in Nat
  BY LenProperties
<1>3. I \in SUBSET Nat /\ I \subseteq 1..Len(names)
  BY <1>2
<1>4. FirstOther(names) = IF i = 0 THEN 1 ELSE i
  BY DEF FirstOther
<1>5. names = <<>> \/ 1 \in DOMAIN names
  <2>1. Len(names) = 0 => names = <<>>
    BY EmptySeq
  <2> QED
    BY <1>2, <2>1
<1> HIDE DEF I, i
<1>6. CASE I # {}
  <2>1. i \in I
    BY <1>1, <1>3, <1>6, MinIs
  <2>2. i \in 1..Len(names)
    BY <1>3, <2>1
  <2> QED
    BY <1>2, <1>4, <2>2
<1>7. CASE I = {}
  BY <1>1, <1>4, <1>5, <1>7
<1> QED
  BY <1>6, <1>7

(* After a job: the same group, or the one it was renamed to, or another   *)
(* that exists.                                                            *)
LEMMA ShownAfterIs ==
    ASSUME NEW names \in Seq(GroupNames), NEW target
    PROVE  LET i == ShownAfter(names, target)
           IN  /\ i \in Nat \ {0} /\ (names = <<>> \/ i \in DOMAIN names)
               /\ \A k \in DOMAIN names : names[k] = Shown => names[i] = Shown
               /\ (\A k \in DOMAIN names : names[k] # Shown) =>
                    \A k \in DOMAIN names : names[k] = target => names[i] = target
<1> DEFINE same  == SelectInSeq(names, LAMBDA x : x = Shown)
           moved == SelectInSeq(names, LAMBDA x : x = target)
           i == ShownAfter(names, target)
<1>1. \/ same = 0 /\ \A k \in DOMAIN names : names[k] # Shown
      \/ same \in DOMAIN names /\ same # 0 /\ names[same] = Shown
  BY FindIs
<1>2. \/ moved = 0 /\ \A k \in DOMAIN names : names[k] # target
      \/ moved \in DOMAIN names /\ moved # 0 /\ names[moved] = target
  BY FindIs
<1>3. i = IF same # 0 THEN same ELSE IF moved # 0 THEN moved ELSE FirstOther(names)
  BY DEF ShownAfter
<1>4. \A k \in DOMAIN names : k \in Nat \ {0}
  BY LenProperties
<1> HIDE DEF same, moved, i
<1> QED
  BY <1>1, <1>2, <1>3, <1>4, FirstOtherIs DEF i

-----------------------------------------------------------------------------
(* The files                                                               *)

Small == {f \in Files : Len(f.links) <= MaxLinks}
DiskOK(d) == d \in [GroupNames -> Small \cup {None}]

LEMMA SetFile ==
    ASSUME NEW d, DiskOK(d), NEW g, NEW f \in Small \cup {None},
           NEW e, e = [d EXCEPT ![g] = f]
    PROVE  DiskOK(e)
BY DEF DiskOK

LEMMA FileIs ==
    ASSUME NEW d, DiskOK(d), NEW g \in GroupNames
    PROVE  /\ d[g] \in Small \cup {None}
           /\ d[g] # None => /\ d[g].links \in Seq(Links) /\ Len(d[g].links) \in 0..MaxLinks
                             /\ d[g].sub \in BOOLEAN
                             /\ d[g] = [links |-> d[g].links, sub |-> d[g].sub]
<1>1. d[g] \in Small \cup {None}
  BY DEF DiskOK
<1>2. ASSUME d[g] # None
      PROVE  /\ d[g].links \in Seq(Links) /\ Len(d[g].links) \in 0..MaxLinks
             /\ d[g].sub \in BOOLEAN
             /\ d[g] = [links |-> d[g].links, sub |-> d[g].sub]
  <2>1. d[g] \in Files /\ Len(d[g].links) <= MaxLinks
    BY <1>1, <1>2 DEF Small
  <2>2. d[g].links \in Seq(Links) /\ d[g].sub \in BOOLEAN
        /\ d[g] = [links |-> d[g].links, sub |-> d[g].sub]
    BY <2>1 DEF Files
  <2> HIDE <1>2
  <2>3. Len(d[g].links) \in Nat
    BY <2>2, LenProperties
  <2> QED
    BY <2>1, <2>2, <2>3, TuiAssumption
<1> QED
  BY <1>1, <1>2

LEMMA MakeFile ==
    ASSUME NEW links \in Seq(Links), Len(links) <= MaxLinks, NEW sub \in BOOLEAN
    PROVE  [links |-> links, sub |-> sub] \in Small
BY DEF Small, Files

(* Without its first occurrence in it, a list is not longer.               *)
LEMMA RemoveFirstIs ==
    ASSUME NEW T, NEW s \in Seq(T), NEW e
    PROVE  RemoveFirst(s, e) \in Seq(T) /\ Len(RemoveFirst(s, e)) <= Len(s)
<1> DEFINE I == {i \in 1..Len(s) : s[i] = e}
<1>1. Len(s) \in Nat /\ DOMAIN s = 1..Len(s) /\ \A i \in 1..Len(s) : s[i] \in T
  BY LenProperties, ElementOfSeq
<1>2. CASE I = {}
  <2>1. RemoveFirst(s, e) = s
    BY <1>2 DEF RemoveFirst
  <2> QED
    BY <1>1, <2>1
<1>3. CASE I # {}
  <2> DEFINE k == Min(I)
             front == SubSeq(s, 1, k - 1)
             back == SubSeq(s, k + 1, Len(s))
  <2>1. RemoveFirst(s, e) = front \o back
    BY <1>3 DEF RemoveFirst, RemoveAt, SelectInSeq
  <2>2. k \in 1..Len(s)
    <3>1. I \in SUBSET Nat /\ I \subseteq 1..Len(s)
      BY <1>1
    <3> HIDE DEF I
    <3> QED
      BY <1>3, <3>1, MinIs
  <2> HIDE DEF k
  <2>3. front \in Seq(T) /\ Len(front) = k - 1
    <3>1. \A i \in 1..(k - 1) : s[i] \in T
      BY <1>1, <2>2
    <3>2. 1 \in Int /\ k - 1 \in Int /\ k \in Nat /\ (1 <= k - 1 \/ k - 1 = 0)
      BY <1>1, <2>2
    <3> QED
      BY <3>1, <3>2, SubSeqProperties
  <2>4. back \in Seq(T) /\ Len(back) = Len(s) - k
    <3>1. \A i \in (k + 1)..Len(s) : s[i] \in T
      BY <1>1, <2>2
    <3>2. k \in Nat /\ Len(s) \in Nat /\ k <= Len(s)
      BY <1>1, <2>2
    <3>3. k + 1 \in Int /\ Len(s) \in Int
      BY <3>2
    <3>4. k + 1 <= Len(s) \/ k + 1 = Len(s) + 1
      BY <3>2
    <3>5. back \in Seq(T) /\ Len(back) = IF k + 1 <= Len(s) THEN Len(s) - (k + 1) + 1 ELSE 0
      BY <3>1, <3>3, SubSeqProperties
    <3> QED
      BY <3>2, <3>4, <3>5
  <2> HIDE DEF front, back
  <2>5. front \o back \in Seq(T) /\ Len(front \o back) = Len(front) + Len(back)
    BY <2>3, <2>4, ConcatProperties
  <2>6. k \in Nat /\ Len(front) + Len(back) <= Len(s)
    BY <1>1, <2>2, <2>3, <2>4
  <2> QED
    BY <2>1, <2>5, <2>6
<1> QED
  BY <1>2, <1>3

(* The usable links of a group are links of its file, at their places.     *)
EntryRows == [idx : 1..MaxLinks, link : Links]

LEMMA EntriesAre ==
    ASSUME DiskOK(disk), NEW g \in GroupNames
    PROVE  /\ Entries(g) \in Seq(EntryRows)
           /\ \A k \in DOMAIN Entries(g) : LinksOf(g)[Entries(g)[k].idx] = Entries(g)[k].link
<1> DEFINE file == IF disk[g] = None THEN <<>> ELSE disk[g].links
           all == [i \in DOMAIN file |-> [idx |-> i, link |-> file[i]]]
           kept == {e \in Range(all) : e.link \notin Bad}
<1>1. Entries(g) = Only(all, kept)
  BY DEF Entries
<1>2. file = LinksOf(g)
  BY DEF LinksOf
<1>3. file \in Seq(Links) /\ Len(file) \in 0..MaxLinks
  <2>1. CASE disk[g] = None
    <3>1. file = <<>>
      BY <2>1
    <3>2. <<>> \in Seq(Links) /\ Len(<<>>) = 0
      BY EmptySeq
    <3>3. 0 \in 0..MaxLinks
      BY TuiAssumption
    <3> QED
      BY <3>1, <3>2, <3>3
  <2>2. CASE disk[g] # None
    BY <2>2, FileIs
  <2> QED
    BY <2>1, <2>2
<1> HIDE DEF file
<1>4. DOMAIN file = 1..Len(file) /\ Len(file) \in Nat /\ \A i \in DOMAIN file : file[i] \in Links
  BY <1>3, LenProperties, ElementOfSeq
<1>5. \A i \in DOMAIN all : all[i].idx = i /\ all[i].link = file[i] /\ all[i] \in EntryRows
  BY <1>3, <1>4, TuiAssumption DEF EntryRows
<1>6. all \in Seq(EntryRows)
  <2>1. all \in [1..Len(file) -> EntryRows]
    BY <1>4, <1>5
  <2> HIDE DEF all
  <2> QED
    BY <1>4, <2>1, SeqDef
<1> HIDE DEF all, kept
<1> DEFINE only == Only(all, kept)
<1>7. /\ only \in Seq(EntryRows)
      /\ \A k \in DOMAIN only : \E i \in DOMAIN all : only[k] = all[i] /\ all[i] \in kept
  BY <1>6, OnlyIs
<1> HIDE DEF only
<1>8. \A k \in DOMAIN only : file[only[k].idx] = only[k].link
  BY <1>5, <1>7
<1> QED
  BY <1>1, <1>2, <1>7, <1>8 DEF only

-----------------------------------------------------------------------------
(* What a job leaves of the files                                          *)

LEMMA NoSuchFile ==
    ASSUME NEW d, DiskOK(d), NEW g, g \notin GroupNames, NEW f,
           NEW e, e = [d EXCEPT ![g] = f]
    PROVE  DiskOK(e)
BY DEF DiskOK

LEMMA LinksAre ==
    ASSUME DiskOK(disk), NEW g \in GroupNames
    PROVE  /\ LinksOf(g) \in Seq(Links) /\ Len(LinksOf(g)) \in 0..MaxLinks
           /\ disk[g] # None => LinksOf(g) = disk[g].links
<1>1. CASE disk[g] = None
  <2>1. LinksOf(g) = <<>>
    BY <1>1 DEF LinksOf
  <2>2. <<>> \in Seq(Links) /\ Len(<<>>) = 0
    BY EmptySeq
  <2>3. 0 \in 0..MaxLinks
    BY TuiAssumption
  <2> QED
    BY <1>1, <2>1, <2>2, <2>3
<1>2. CASE disk[g] # None
  <2>1. LinksOf(g) = disk[g].links
    BY <1>2 DEF LinksOf
  <2> QED
    BY <1>2, <2>1, FileIs
<1> QED
  BY <1>1, <1>2

LEMMA UpdatedOK ==
    ASSUME NEW d, DiskOK(d), NEW targets, NEW e \in Updated(d, targets)
    PROVE  DiskOK(e)
<1>1. PICK answers \in SUBSET (Subscribed(d) \cap targets) :
        e = [g \in GroupNames |-> IF g \in answers THEN [d[g] EXCEPT !.links = Fetched]
                                  ELSE d[g]]
  BY DEF Updated
<1>2. ASSUME NEW g \in GroupNames PROVE e[g] \in Small \cup {None}
  <2>1. CASE g \notin answers
    BY <1>1, <2>1, FileIs
  <2>2. CASE g \in answers
    <3>1. d[g] # None
      BY <2>2 DEF Subscribed, Existing
    <3>2. d[g] = [links |-> d[g].links, sub |-> d[g].sub] /\ d[g].sub \in BOOLEAN
      BY <3>1, FileIs
    <3>3. [d[g] EXCEPT !.links = Fetched] = [links |-> Fetched, sub |-> d[g].sub]
      BY <3>2
    <3>4. Fetched \in Seq(Links) /\ Len(Fetched) <= MaxLinks
      BY TuiAssumption
    <3>5. [links |-> Fetched, sub |-> d[g].sub] \in Small
      BY <3>2, <3>4, MakeFile
    <3> QED
      BY <1>1, <2>2, <3>3, <3>5
  <2> QED
    BY <2>1, <2>2
<1>3. e = [g \in GroupNames |-> e[g]]
  BY <1>1
<1> QED
  BY <1>2, <1>3 DEF DiskOK

(* A removal names a link, and a rename a group.                           *)
JobOK(j) ==
    /\ j.kind = "remove" => j.idx # 0
    /\ j.kind = "rename" => j.group \in GroupNames

LEMMA WithSubOK ==
    ASSUME DiskOK(disk), NEW g PROVE DiskOK(WithSub(g))
<1> DEFINE file == [links |-> LinksOf(g), sub |-> TRUE]
<1>1. WithSub(g) = [disk EXCEPT ![g] = file]
  BY DEF WithSub
<1>2. CASE g \in GroupNames
  <2>1. LinksOf(g) \in Seq(Links) /\ Len(LinksOf(g)) <= MaxLinks
    BY <1>2, LinksAre
  <2>2. file \in Small
    BY <2>1, MakeFile
  <2> HIDE DEF file
  <2> QED
    BY <1>1, <2>2, SetFile
<1>3. CASE g \notin GroupNames
  BY <1>1, <1>3, NoSuchFile
<1> QED
  BY <1>2, <1>3

LEMMA WithoutLinkOK ==
    ASSUME DiskOK(disk), NEW g, NEW i \in 0..MaxLinks, i # 0 PROVE DiskOK(WithoutLink(g, i))
<1> DEFINE links == disk[g].links
           rest == RemoveFirst(links, links[i])
           file == [disk[g] EXCEPT !.links = rest]
<1>1. CASE i > Len(LinksOf(g))
  BY <1>1 DEF WithoutLink
<1>2. CASE ~(i > Len(LinksOf(g)))
  <2>1. WithoutLink(g, i) = [disk EXCEPT ![g] = file]
    BY <1>2 DEF WithoutLink
  <2>2. CASE g \notin GroupNames
    <3> HIDE DEF file
    <3> QED
      BY <2>1, <2>2, NoSuchFile
  <2>3. CASE g \in GroupNames
    <3>1. disk[g] # None
      <4>1. SUFFICES ASSUME disk[g] = None PROVE FALSE
        OBVIOUS
      <4>2. LinksOf(g) = <<>>
        BY <4>1 DEF LinksOf
      <4>3. Len(<<>>) = 0
        BY EmptySeq
      <4> QED
        BY <1>2, <4>2, <4>3, TuiAssumption
    <3>2. /\ links \in Seq(Links) /\ Len(links) \in 0..MaxLinks
          /\ disk[g].sub \in BOOLEAN
          /\ disk[g] = [links |-> links, sub |-> disk[g].sub]
      BY <2>3, <3>1, FileIs
    <3>3. file = [links |-> rest, sub |-> disk[g].sub]
      BY <3>2
    <3> HIDE DEF file
    <3>4. rest \in Seq(Links) /\ Len(rest) <= Len(links)
      BY <3>2, RemoveFirstIs
    <3> HIDE DEF rest, links
    <3>5. Len(rest) <= MaxLinks
      <4>1. Len(rest) \in Nat
        BY <3>4, LenProperties
      <4> QED
        BY <3>2, <3>4, <4>1, TuiAssumption
    <3>6. [links |-> rest, sub |-> disk[g].sub] \in Small
      BY <3>2, <3>4, <3>5, MakeFile
    <3> QED
      BY <2>1, <3>3, <3>6, SetFile
  <2> QED
    BY <2>2, <2>3
<1> QED
  BY <1>1, <1>2

LEMMA AddedOK ==
    ASSUME DiskOK(disk), CanAdd(Default), NEW sub \in BOOLEAN
    PROVE  DiskOK([disk EXCEPT ![Default] =
                     [links |-> Append(LinksOf(Default), Added), sub |-> sub]])
<1>0. Default \in GroupNames /\ Added \in Links /\ Fetched \in Seq(Links)
      /\ Len(Fetched) \in 1..MaxLinks /\ MaxLinks \in Nat
  BY TuiAssumption DEF GroupNames
<1>1. LinksOf(Default) \in Seq(Links) /\ Len(LinksOf(Default)) \in 0..MaxLinks
      /\ (disk[Default] # None => LinksOf(Default) = disk[Default].links)
  BY <1>0, LinksAre
<1>2. Len(LinksOf(Default)) < MaxLinks
  <2>1. CASE disk[Default] = None
    <3>1. LinksOf(Default) = <<>>
      BY <2>1 DEF LinksOf
    <3>2. Len(<<>>) = 0
      BY EmptySeq
    <3>3. 0 < MaxLinks
      BY <1>0
    <3> QED
      BY <3>1, <3>2, <3>3
  <2>2. CASE disk[Default] # None
    BY <1>1, <2>2 DEF CanAdd
  <2> QED
    BY <2>1, <2>2
<1> DEFINE links == LinksOf(Default)
           more == Append(links, Added)
<1>3. more \in Seq(Links) /\ Len(more) = Len(links) + 1
  BY <1>0, <1>1, AppendProperties
<1> HIDE DEF more
<1>4. Len(more) <= MaxLinks
  BY <1>0, <1>1, <1>2, <1>3
<1>5. [links |-> more, sub |-> sub] \in Small
  BY <1>3, <1>4, MakeFile
<1> QED
  BY <1>5, SetFile DEF more

LEMMA EffectsOK ==
    ASSUME DiskOK(disk), NEW j \in Jobs, JobOK(j), NEW d \in Effects(j)
    PROVE  DiskOK(d)
<1>1. CASE j.kind = "update"
  <2>1. d \in Updated(disk, IF j.group = None THEN GroupNames ELSE {j.group})
    BY <1>1 DEF Effects
  <2> QED
    BY <2>1, UpdatedOK
<1>2. CASE j.kind = "sub-add"
  <2>1. d = disk \/ d \in Updated(WithSub(j.name), GroupNames)
    BY <1>2 DEF Effects
  <2> QED
    BY <2>1, WithSubOK, UpdatedOK
<1>3. CASE j.kind = "add-link"
  <2>1. \/ d = disk
        \/ /\ CanAdd(Default)
           /\ d = [disk EXCEPT ![Default] =
                     [links |-> Append(LinksOf(Default), Added),
                      sub   |-> Default \in Subscribed(disk)]]
    BY <1>3 DEF Effects
  <2>2. (Default \in Subscribed(disk)) \in BOOLEAN
    OBVIOUS
  <2> QED
    BY <2>1, <2>2, AddedOK
<1>4. CASE j.kind = "remove"
  <2>1. d = WithoutLink(j.group, j.idx)
    BY <1>4 DEF Effects
  <2>2. j.idx \in 0..MaxLinks /\ j.idx # 0
    BY <1>4 DEF Jobs, JobOK
  <2> QED
    BY <2>1, <2>2, WithoutLinkOK
<1>5. CASE j.kind = "create"
  <2> DEFINE file == [links |-> <<>>, sub |-> FALSE]
  <2>1. d = disk \/ d = [disk EXCEPT ![j.name] = file]
    BY <1>5 DEF Effects
  <2>2. <<>> \in Seq(Links) /\ Len(<<>>) = 0
    BY EmptySeq
  <2>3. 0 <= MaxLinks
    BY TuiAssumption
  <2>4. file \in Small
    BY <2>2, <2>3, MakeFile
  <2> HIDE DEF file
  <2> QED
    BY <2>1, <2>4, SetFile
<1>6. CASE j.kind = "rename"
  <2>1. d = disk \/ d = [disk EXCEPT ![j.name] = disk[j.group], ![j.group] = None]
    BY <1>6 DEF Effects
  <2>2. disk[j.group] \in Small \cup {None}
    BY <1>6, FileIs DEF JobOK
  <2> DEFINE mid == [disk EXCEPT ![j.name] = disk[j.group]]
  <2>3. DiskOK(mid)
    BY <2>2, SetFile
  <2>4. [disk EXCEPT ![j.name] = disk[j.group], ![j.group] = None]
        = [mid EXCEPT ![j.group] = None]
    OBVIOUS
  <2> HIDE DEF mid
  <2> QED
    BY <2>1, <2>3, <2>4, SetFile
<1>7. CASE j.kind \notin Writers
  BY <1>7 DEF Effects, Writers
<1> QED
  BY <1>1, <1>2, <1>3, <1>4, <1>5, <1>6, <1>7 DEF Writers

-----------------------------------------------------------------------------
(* The inductive invariant                                                 *)

ScreenOK ==
    /\ over \in {"no", "quit", "panic"} /\ tab \in Range(Tabs) /\ cursor \in Nat
    /\ confirmYes \in BOOLEAN /\ showOutput \in BOOLEAN /\ running \in BOOLEAN
    /\ benchRunning \in BOOLEAN /\ benchDone \in BOOLEAN /\ benchSortAsc \in BOOLEAN
    /\ statusInfo \in {"running", "stopped"}

GroupsOK ==
    groups \in Seq(GroupNames) /\ activeGroup \in Nat \ {0} /\ GroupIndexValid

(* A dialog that will remove a link names one, and the line editor that    *)
(* will rename a group knows which.                                        *)
DialogsOK ==
    /\ confirm = None \/ (/\ confirm \in Dialogs
                          /\ confirm.act = "delete-server" => confirm.idx # 0)
    /\ input = None \/ (/\ input \in Inputs
                        /\ input.act = "rename-group" => input.group \in GroupNames)

(* The jobs are typed, those there are have been started, and no new one   *)
(* has the number of another.                                              *)
JobsOK ==
    /\ jobs \subseteq Jobs /\ started \in 0..MaxStarts /\ cancelFn \in 0..MaxStarts
    /\ \A j \in jobs : j.id <= started /\ JobOK(j)

TInv ==
    /\ DiskOK(disk) /\ ScreenOK /\ GroupsOK /\ DialogsOK /\ JobsOK
    /\ benchResults \in Seq(Rows) /\ keys \in 0..MaxKeys

(* The five parts say all of the types.                                    *)
LEMMA InvIsTyped == TInv => TypeOK
<1> SUFFICES ASSUME TInv PROVE TypeOK
  OBVIOUS
<1>1. disk \in [GroupNames -> Files \cup {None}]
  BY DEF TInv, DiskOK, Small
<1>2. /\ over \in {"no", "quit", "panic"} /\ tab \in Range(Tabs) /\ cursor \in Nat
      /\ statusInfo \in {"running", "stopped"}
  BY DEF TInv, ScreenOK
<1>3. /\ confirmYes \in BOOLEAN /\ showOutput \in BOOLEAN /\ running \in BOOLEAN
      /\ benchRunning \in BOOLEAN /\ benchDone \in BOOLEAN /\ benchSortAsc \in BOOLEAN
  BY DEF TInv, ScreenOK
<1>4. groups \in Seq(GroupNames) /\ activeGroup \in Nat \ {0}
  BY DEF TInv, GroupsOK
<1>5. confirm \in Dialogs \cup {None} /\ input \in Inputs \cup {None}
  BY DEF TInv, DialogsOK
<1>6. jobs \subseteq Jobs /\ started \in 0..MaxStarts /\ cancelFn \in 0..MaxStarts
  BY DEF TInv, JobsOK
<1>7. benchResults \in Seq(Rows) /\ keys \in 0..MaxKeys
  BY DEF TInv
<1> QED
  BY <1>1, <1>2, <1>3, <1>4, <1>5, <1>6, <1>7 DEF TypeOK

-----------------------------------------------------------------------------
(* What the tabs list                                                      *)

LEMMA NamesAre == Names \in Seq(GroupNames)
BY TuiAssumption DEF GroupNames

(* A list of the groups that exist misses none.                            *)
LEMMA ListIs ==
    ASSUME NEW d, DiskOK(d)
    PROVE  /\ Only(Names, Existing(d)) \in Seq(GroupNames)
           /\ \A g \in GroupNames :
                d[g] # None <=> \E k \in DOMAIN Only(Names, Existing(d)) :
                                   Only(Names, Existing(d))[k] = g
<1> DEFINE only == Only(Names, Existing(d))
<1>1. /\ only \in Seq(GroupNames)
      /\ \A k \in DOMAIN only : \E i \in DOMAIN Names : only[k] = Names[i]
                                                       /\ Names[i] \in Existing(d)
      /\ \A i \in DOMAIN Names : Names[i] \in Existing(d) =>
            \E k \in DOMAIN only : only[k] = Names[i]
  BY NamesAre, OnlyIs
<1>2. \A g \in GroupNames : g \in Existing(d) <=> d[g] # None
  BY DEF Existing
<1>3. \A g \in GroupNames : \E i \in DOMAIN Names : Names[i] = g
  BY DEF GroupNames, Range
<1> HIDE DEF only
<1> QED
  BY <1>1, <1>2, <1>3 DEF only

LEMMA ShownIs ==
    ASSUME GroupsOK
    PROVE  /\ groups # <<>> => Shown \in GroupNames
           /\ Shown \in GroupNames \cup {None}
<1>1. groups # <<>> => Shown = groups[activeGroup] /\ activeGroup \in DOMAIN groups
  BY DEF Shown, GroupsOK, GroupIndexValid
<1>2. \A i \in DOMAIN groups : groups[i] \in GroupNames
  BY LenProperties, ElementOfSeq DEF GroupsOK
<1>3. groups = <<>> => Shown = None
  BY DEF Shown
<1> QED
  BY <1>1, <1>2, <1>3

(* The links that are shown are links of the group that is shown.          *)
LEMMA CurrentIs ==
    ASSUME GroupsOK, DiskOK(disk)
    PROVE  /\ currentLinks \in Seq(EntryRows)
           /\ \A k \in DOMAIN currentLinks :
                 /\ currentLinks[k] \in EntryRows /\ groups # <<>>
                 /\ LinksOf(Shown)[currentLinks[k].idx] = currentLinks[k].link
<1>1. CASE groups = <<>>
  <2>1. currentLinks = <<>>
    BY <1>1 DEF currentLinks
  <2>2. <<>> \in Seq(EntryRows) /\ Len(<<>>) = 0
    BY EmptySeq
  <2>3. DOMAIN currentLinks = {}
    BY <2>1
  <2> QED
    BY <2>1, <2>2, <2>3
<1>2. CASE groups # <<>>
  <2> DEFINE list == currentLinks
  <2>1. list = Entries(Shown) /\ Shown \in GroupNames
    BY <1>2, ShownIs DEF currentLinks
  <2>2. /\ list \in Seq(EntryRows)
        /\ \A k \in DOMAIN list : LinksOf(Shown)[list[k].idx] = list[k].link
    BY <2>1, EntriesAre
  <2> HIDE DEF list
  <2>3. \A k \in DOMAIN list : list[k] \in EntryRows
    BY <2>2, LenProperties, ElementOfSeq
  <2> QED
    BY <1>2, <2>2, <2>3 DEF list
<1> QED
  BY <1>1, <1>2

(* The row under the cursor, when there is one.                            *)
LEMMA CursorIs ==
    ASSUME NEW T, NEW list \in Seq(T), cursor \in Nat, cursor < Len(list)
    PROVE  cursor + 1 \in DOMAIN list /\ list[cursor + 1] \in T
<1>1. cursor + 1 \in 1..Len(list) /\ Len(list) \in Nat
  BY LenProperties
<1> QED
  BY <1>1, LenProperties, ElementOfSeq

LEMMA SubsRowIs ==
    ASSUME DiskOK(disk), cursor \in Nat, cursor < Len(loadSubscriptions)
    PROVE  SubsRow \in GroupNames
<1>1. loadSubscriptions = Only(Only(Names, Existing(disk)), Subscribed(disk))
  BY DEF loadSubscriptions, findGroups
<1> DEFINE names == Only(Names, Existing(disk))
<1>2. names \in Seq(GroupNames)
  BY ListIs
<1> HIDE DEF names
<1>3. Only(names, Subscribed(disk)) \in Seq(GroupNames)
  BY <1>2, OnlyIs
<1>4. loadSubscriptions \in Seq(GroupNames)
  BY <1>1, <1>3 DEF names
<1> QED
  BY <1>4, CursorIs DEF SubsRow

(* Enter selects a link of the group that is shown.                        *)
LEMMA SelectedIs ==
    ASSUME GroupsOK, DiskOK(disk), cursor \in Nat, benchResults \in Seq(Rows)
    PROVE  Selected \in 0..MaxLinks
<1>1. CASE HasResults /\ cursor < Len(benchResults)
  <2> DEFINE sorted == Sorted(benchResults, benchSortAsc)
             n == Len(benchResults)
  <2>1. Selected = sorted[cursor + 1].idx
    BY <1>1 DEF Selected, getSortedBenchResults
  <2>2. n \in Nat /\ DOMAIN benchResults = 1..n
    BY LenProperties
  <2>3. cursor + 1 \in 1..n
    BY <1>1, <2>2
  <2>4. \A k \in 1..n : \E i \in DOMAIN benchResults : sorted[k] = benchResults[i]
    BY SortedIs
  <2> HIDE DEF sorted
  <2>5. PICK i \in DOMAIN benchResults : sorted[cursor + 1] = benchResults[i]
    BY <2>3, <2>4
  <2>6. benchResults[i] \in Rows
    BY <2>2, ElementOfSeq
  <2>7. benchResults[i].idx \in 1..MaxLinks
    BY <2>6 DEF Rows
  <2> QED
    BY <2>1, <2>5, <2>7, TuiAssumption
<1>2. CASE ~(HasResults /\ cursor < Len(benchResults)) /\ cursor < Len(currentLinks)
  <2> DEFINE list == currentLinks
  <2>1. list \in Seq(EntryRows)
    BY CurrentIs
  <2>2. Selected = list[cursor + 1].idx
    BY <1>2 DEF Selected
  <2>3. cursor < Len(list)
    BY <1>2
  <2> HIDE DEF list
  <2>4. list[cursor + 1] \in EntryRows
    BY <2>1, <2>3, CursorIs
  <2>5. list[cursor + 1].idx \in 1..MaxLinks
    BY <2>4 DEF EntryRows
  <2> QED
    BY <2>2, <2>5, TuiAssumption
<1>3. CASE ~(HasResults /\ cursor < Len(benchResults)) /\ ~(cursor < Len(currentLinks))
  <2>1. Selected = 0
    BY <1>3 DEF Selected
  <2> QED
    BY <2>1, TuiAssumption
<1> QED
  BY <1>1, <1>2, <1>3

-----------------------------------------------------------------------------
(* What a step changes                                                     *)

(* The keys that only move about the screen.                               *)
Moves == ctrlC \/ Dismiss \/ Esc \/ SwitchTab \/ Move \/ Flip \/ ConfirmMove
Shows == \E i \in DOMAIN groups : ShowGroup(i)

(* Those that open or close a dialog.                                      *)
Opens  == ServersDialog \/ SubsDialog \/ ConfirmUpdate
Closes == ConfirmClose \/ ConfirmNo \/ InputClose

(* Those that start a job.                                                 *)
Starts == HomeEnter \/ ServersEnter \/ TestSingle \/ Bench \/ SubsUpdate \/ ConfirmJob
          \/ InputEnter

LEMMA StepsAre ==
    ASSUME [Next]_vars
    PROVE  \/ Moves \/ Shows \/ Opens \/ Closes \/ Starts \/ DeleteGroup \/ DeleteSub
           \/ (\E j \in jobs : Finish(j) \/ BenchDoneMsg(j) \/ ActionDoneMsg(j))
           \/ UNCHANGED vars
BY DEF Next, Key, Keys, JobSteps, Moves, Shows, Opens, Closes, Starts

LEMMA SubField ==
    ASSUME NEW links, NEW sub, NEW file, file = [links |-> links, sub |-> sub]
    PROVE  [file EXCEPT !.sub = FALSE] = [links |-> links, sub |-> FALSE]
<1> DEFINE no == FALSE
<1> HIDE DEF no
<1>1. [file EXCEPT !.sub = no] = [links |-> links, sub |-> no]
  OBVIOUS
<1> QED
  BY <1>1 DEF no

(* The files: a job writes them, and two dialogs do.                       *)
LEMMA FilesKept == ASSUME TInv, [Next]_vars PROVE DiskOK(disk')
<1>0. DiskOK(disk)
  BY DEF TInv
<1>1. CASE Moves \/ Shows
  <2>1. UNCHANGED disk
    BY <1>1 DEF Moves, Shows, ctrlC, Dismiss, Esc, SwitchTab, Move, Flip, ConfirmMove,
                ShowGroup, filesVars
  <2> QED
    BY <1>0, <2>1
<1>2. CASE Opens \/ Closes
  <2>1. UNCHANGED disk
    BY <1>2 DEF Opens, Closes, ServersDialog, SubsDialog, ConfirmUpdate, ConfirmClose,
                ConfirmNo, InputClose, filesVars
  <2> QED
    BY <1>0, <2>1
<1>3. CASE Starts
  <2>1. UNCHANGED disk
    BY <1>3 DEF Starts, HomeEnter, ServersEnter, TestSingle, Bench, SubsUpdate,
                ConfirmJob, InputEnter, filesVars
  <2> QED
    BY <1>0, <2>1
<1>4. CASE DeleteGroup
  <2>1. disk' = [disk EXCEPT ![confirm.group] = None]
    BY <1>4 DEF DeleteGroup
  <2> QED
    BY <1>0, <2>1, SetFile
<1>5. CASE DeleteSub
  <2>1. CASE UNCHANGED disk
    BY <1>0, <2>1
  <2>2. CASE /\ confirm.group \in Subscribed(disk)
             /\ disk' = [disk EXCEPT ![confirm.group].sub = FALSE]
    <3> DEFINE g == confirm.group
               file == [disk[g] EXCEPT !.sub = FALSE]
    <3>1. disk' = [disk EXCEPT ![g] = file]
      BY <2>2
    <3>2. g \in GroupNames /\ disk[g] # None
      BY <2>2 DEF Subscribed, Existing
    <3> HIDE DEF g
    <3>3. PICK links \in Seq(Links), sub \in BOOLEAN :
            Len(links) \in 0..MaxLinks /\ disk[g] = [links |-> links, sub |-> sub]
      BY <1>0, <3>2, FileIs
    <3>4. file = [links |-> links, sub |-> FALSE]
      <4>1. disk[g] = [links |-> links, sub |-> sub]
        BY <3>3
      <4> QED
        BY <4>1, SubField
    <3>5. Len(links) <= MaxLinks
      BY <3>3, TuiAssumption
    <3>6. [links |-> links, sub |-> FALSE] \in Small
      BY <3>5, MakeFile
    <3> HIDE DEF file
    <3> QED
      BY <1>0, <3>1, <3>4, <3>6, SetFile
  <2> QED
    BY <1>5, <2>1, <2>2 DEF DeleteSub
<1>6. ASSUME NEW j \in jobs, Finish(j) PROVE DiskOK(disk')
  <2>1. disk' \in Effects(j)
    BY <1>6 DEF Finish
  <2>2. j \in Jobs /\ JobOK(j)
    BY DEF TInv, JobsOK
  <2> QED
    BY <1>0, <2>1, <2>2, EffectsOK
<1>7. ASSUME NEW j \in jobs, BenchDoneMsg(j) \/ ActionDoneMsg(j) PROVE DiskOK(disk')
  <2>1. UNCHANGED disk
    BY <1>7 DEF BenchDoneMsg, ActionDoneMsg, filesVars
  <2> QED
    BY <1>0, <2>1
<1>8. CASE UNCHANGED vars
  <2>1. UNCHANGED disk
    BY <1>8 DEF vars, filesVars
  <2> QED
    BY <1>0, <2>1
<1> QED
  BY <1>1, <1>2, <1>3, <1>4, <1>5, <1>6, <1>7, <1>8, StepsAre

(* The groups: the digits choose one, and a message or a removal reads     *)
(* them again.                                                             *)
LEMMA GroupsKept == ASSUME TInv, [Next]_vars PROVE GroupsOK'
<1>0. GroupsOK /\ DiskOK(disk)
  BY DEF TInv
<1>a. ASSUME UNCHANGED groupVars PROVE GroupsOK'
  BY <1>0, <1>a DEF GroupsOK, GroupIndexValid, groupVars
<1>1. CASE Moves
  <2>1. UNCHANGED groupVars
    BY <1>1 DEF Moves, ctrlC, Dismiss, Esc, SwitchTab, Move, Flip, ConfirmMove
  <2> QED
    BY <1>a, <2>1
<1>2. CASE Opens \/ Closes
  <2>1. UNCHANGED groupVars
    BY <1>2 DEF Opens, Closes, ServersDialog, SubsDialog, ConfirmUpdate, ConfirmClose,
                ConfirmNo, InputClose
  <2> QED
    BY <1>a, <2>1
<1>3. CASE Starts
  <2>1. UNCHANGED groupVars
    BY <1>3 DEF Starts, HomeEnter, ServersEnter, TestSingle, Bench, SubsUpdate,
                ConfirmJob, InputEnter
  <2> QED
    BY <1>a, <2>1
<1>4. CASE Shows
  <2>1. PICK i \in DOMAIN groups : activeGroup' = i /\ groups' = groups
    BY <1>4 DEF Shows, ShowGroup
  <2>2. i \in Nat \ {0}
    BY <1>0, <2>1, LenProperties DEF GroupsOK
  <2> QED
    BY <1>0, <2>1, <2>2 DEF GroupsOK, GroupIndexValid
<1>5. CASE DeleteGroup
  <2> DEFINE names == Only(Names, Existing(disk'))
  <2>1. /\ groups' = names
        /\ activeGroup' = IF activeGroup > Len(groups') THEN 1 ELSE activeGroup
    BY <1>5 DEF DeleteGroup
  <2>2. names \in Seq(GroupNames)
    BY FilesKept, ListIs
  <2> HIDE DEF names
  <2>3. DOMAIN names = 1..Len(names) /\ Len(names) \in Nat /\ (Len(names) = 0 => names = <<>>)
    BY <2>2, LenProperties, EmptySeq
  <2>4. activeGroup \in Nat \ {0}
    BY <1>0 DEF GroupsOK
  <2>5. activeGroup' \in Nat \ {0} /\ (names = <<>> \/ activeGroup' \in 1..Len(names))
    BY <2>1, <2>3, <2>4
  <2> QED
    BY <2>1, <2>2, <2>3, <2>5 DEF GroupsOK, GroupIndexValid
<1>6. CASE DeleteSub
  BY <1>a, <1>6 DEF DeleteSub
<1>7. ASSUME NEW j \in jobs, ActionDoneMsg(j) PROVE GroupsOK'
  <2> DEFINE names == findGroups
  <2>1. groups' = names /\ activeGroup' = ShownAfter(groups', j.name)
    BY <1>7 DEF ActionDoneMsg
  <2>2. names \in Seq(GroupNames)
    BY <1>0, ListIs DEF findGroups
  <2> HIDE DEF names
  <2>3. activeGroup' = ShownAfter(names, j.name)
    BY <2>1
  <2>4. activeGroup' \in Nat \ {0} /\ (names = <<>> \/ activeGroup' \in DOMAIN names)
    BY <2>2, <2>3, ShownAfterIs
  <2> QED
    BY <2>1, <2>2, <2>4 DEF GroupsOK, GroupIndexValid
<1>8. ASSUME NEW j \in jobs, Finish(j) \/ BenchDoneMsg(j) PROVE GroupsOK'
  BY <1>a, <1>8 DEF Finish, BenchDoneMsg
<1>9. CASE UNCHANGED vars
  BY <1>a, <1>9 DEF vars
<1> QED
  BY <1>1, <1>2, <1>3, <1>4, <1>5, <1>6, <1>7, <1>8, <1>9, StepsAre

(* What is on the screen keeps its types.                                  *)
LEMMA ScreenKept == ASSUME TInv, [Next]_vars PROVE ScreenOK'
<1>0. ScreenOK /\ GroupsOK
  BY DEF TInv
<1> DEFINE flags == <<confirmYes, showOutput, running, benchRunning, benchDone,
                      benchSortAsc, statusInfo>>
<1>a. ASSUME UNCHANGED flags, over' \in {over, "quit", "panic"},
             tab' \in Range(Tabs) \cup {tab}, cursor' \in Nat
      PROVE  ScreenOK'
  BY <1>0, <1>a DEF ScreenOK
<1>1. CASE Moves
  <2>1. CASE ctrlC \/ SwitchTab
    <3>1. UNCHANGED flags /\ over' \in {over, "quit", "panic"}
          /\ tab' \in Range(Tabs) \cup {tab} /\ cursor' \in {cursor, 0}
      BY <2>1 DEF ctrlC, SwitchTab, dialogVars, waitVars, benchVars
    <3> QED
      BY <1>0, <1>a, <3>1 DEF ScreenOK
  <2>2. CASE Move
    <3>1. UNCHANGED flags /\ over' = over /\ tab' = tab
      BY <2>2 DEF Move, dialogVars, waitVars, benchVars
    <3>2. (cursor > 0 /\ cursor' = cursor - 1) \/ cursor' = cursor + 1
      BY <2>2 DEF Move
    <3>3. cursor' \in Nat
      BY <1>0, <3>2 DEF ScreenOK
    <3> QED
      BY <1>a, <3>1, <3>3
  <2>3. CASE Dismiss \/ Esc
    BY <1>0, <2>3 DEF ScreenOK, Dismiss, Esc, dialogVars, benchVars, waitVars
  <2>4. CASE Flip
    <3>1. (~benchSortAsc) \in BOOLEAN
      OBVIOUS
    <3> QED
      BY <1>0, <2>4, <3>1 DEF ScreenOK, Flip, dialogVars, waitVars
  <2>5. CASE ConfirmMove
    <3>1. (~confirmYes) \in BOOLEAN
      OBVIOUS
    <3> QED
      BY <1>0, <2>5, <3>1 DEF ScreenOK, ConfirmMove, waitVars, benchVars
  <2> QED
    BY <1>1, <2>1, <2>2, <2>3, <2>4, <2>5 DEF Moves
<1>2. CASE Shows
  <2>1. /\ cursor' = 0 /\ benchDone' = FALSE
        /\ UNCHANGED <<over, tab, confirmYes, showOutput, running, benchRunning,
                       benchSortAsc, statusInfo>>
    BY <1>2 DEF Shows, ShowGroup, dialogVars, waitVars
  <2> QED
    BY <1>0, <2>1 DEF ScreenOK
<1>3. CASE Opens
  <2>1. CASE ServersDialog
    BY <1>0, <2>1 DEF ScreenOK, ServersDialog, OnlyDialog, Edit, Ask, dialogVars,
                      waitVars, benchVars
  <2>2. CASE SubsDialog
    BY <1>0, <2>2 DEF ScreenOK, SubsDialog, OnlyDialog, Edit, Ask, dialogVars,
                      waitVars, benchVars
  <2>3. CASE ConfirmUpdate
    BY <1>0, <2>3 DEF ScreenOK, ConfirmUpdate, Ask, Closed, waitVars, benchVars
  <2> QED
    BY <1>3, <2>1, <2>2, <2>3 DEF Opens
<1>4. CASE Closes
  BY <1>0, <1>4 DEF ScreenOK, Closes, Closed, ConfirmClose, ConfirmNo, InputClose,
                    waitVars, benchVars
<1>5. CASE HomeEnter
  <2>1. /\ UNCHANGED <<tab, cursor, showOutput, benchRunning, benchDone, benchSortAsc,
                       statusInfo>>
        /\ over' \in {over, "quit", "panic"}
    BY <1>5 DEF HomeEnter, executeHomeAction, OnlyDialog, OnlyJob, benchVars
  <2>2. \/ UNCHANGED dialogVars
        \/ UNCHANGED confirmYes
        \/ \E item : confirmYes' = (item = "restart")
        \/ confirmYes' = TRUE
    BY <1>5 DEF HomeEnter, executeHomeAction, OnlyJob, Ask, Edit
  <2>3. running' = running \/ running' = TRUE
    BY <1>5 DEF HomeEnter, executeHomeAction, OnlyDialog, RunAction, waitVars
  <2>4. confirmYes' \in BOOLEAN
    BY <1>0, <2>2 DEF ScreenOK, dialogVars
  <2> QED
    BY <1>0, <2>1, <2>3, <2>4 DEF ScreenOK
<1>6. CASE ServersEnter \/ TestSingle \/ SubsUpdate
  BY <1>0, <1>6 DEF ScreenOK, ServersEnter, TestSingle, SubsUpdate, RunAction,
                    dialogVars, waitVars, benchVars
<1>7. CASE ConfirmJob \/ InputEnter
  BY <1>0, <1>7 DEF ScreenOK, ConfirmJob, InputEnter, RunAction, Closed, benchVars
<1>8. CASE Bench
  <2>1. benchSortAsc' \in {benchSortAsc, TRUE} /\ benchRunning' = TRUE /\ benchDone' = FALSE
        /\ UNCHANGED <<over, tab, cursor, confirmYes, showOutput, running, statusInfo>>
    BY <1>8 DEF Bench, dialogVars, waitVars
  <2>2. benchSortAsc' \in BOOLEAN
    BY <1>0, <2>1 DEF ScreenOK
  <2> QED
    BY <1>0, <2>1, <2>2 DEF ScreenOK
<1>9. CASE DeleteGroup \/ DeleteSub
  <2>1. cursor' \in Nat
    <3>1. \/ cursor' = 0
          \/ cursor' = cursor
          \/ cursor' = IF cursor > 0 THEN cursor - 1 ELSE 0
      BY <1>9 DEF DeleteGroup, DeleteSub
    <3>2. cursor \in Nat
      BY <1>0 DEF ScreenOK
    <3> QED
      BY <3>1, <3>2
  <2> QED
    BY <1>0, <1>9, <2>1 DEF ScreenOK, DeleteGroup, DeleteSub, Closed, waitVars, benchVars
<1>10. ASSUME NEW j \in jobs, Finish(j) \/ BenchDoneMsg(j) \/ ActionDoneMsg(j)
       PROVE  ScreenOK'
  BY <1>0, <1>10 DEF ScreenOK, Finish, BenchDoneMsg, ActionDoneMsg, dialogVars,
                     waitVars, benchVars
<1>11. CASE UNCHANGED vars
  BY <1>0, <1>11 DEF ScreenOK, vars, dialogVars, waitVars, benchVars
<1> QED
  BY <1>1, <1>2, <1>3, <1>4, <1>5, <1>6, <1>7, <1>8, <1>9, <1>10, <1>11, StepsAre
     DEF Starts

(* The dialogs: what they ask about is what was under the cursor.          *)
LEMMA DialogsKept == ASSUME TInv, [Next]_vars PROVE DialogsOK'
<1>0. DialogsOK /\ GroupsOK /\ DiskOK(disk) /\ cursor \in Nat
  BY DEF TInv, ScreenOK
<1>a. ASSUME confirm' \in {confirm, None}, input' \in {input, None} PROVE DialogsOK'
  BY <1>0, <1>a DEF DialogsOK
<1>b. ASSUME NEW act \in {"update-ask", "update-method", "restart", "stop",
                          "delete-group", "delete-server", "delete-sub"},
             NEW g \in GroupNames \cup {None}, NEW i \in 0..MaxLinks, NEW yes,
             act = "delete-server" => i # 0, Ask(act, g, i, yes)
      PROVE  DialogsOK'
  <2> DEFINE dialog == [act |-> act, group |-> g, idx |-> i]
  <2>1. confirm' = dialog /\ input' = input
    BY <1>b DEF Ask
  <2>2. dialog \in Dialogs
    BY DEF Dialogs
  <2>3. dialog.act = "delete-server" => dialog.idx # 0
    BY <1>b
  <2> QED
    BY <1>0, <2>1, <2>2, <2>3 DEF DialogsOK
<1>c. ASSUME NEW act \in {"sub-add", "add-link", "change-port", "create-group",
                          "rename-group"},
             NEW g \in GroupNames \cup {None}, act = "rename-group" => g \in GroupNames,
             Edit(act, g)
      PROVE  DialogsOK'
  <2> DEFINE line == [act |-> act, group |-> g]
  <2>1. input' = line /\ confirm' = confirm
    BY <1>c DEF Edit
  <2>2. line \in Inputs
    BY DEF Inputs
  <2>3. line.act = "rename-group" => line.group \in GroupNames
    BY <1>c
  <2> QED
    BY <1>0, <2>1, <2>2, <2>3 DEF DialogsOK
<1>d. 0 \in 0..MaxLinks
  BY TuiAssumption
<1>1. CASE Moves \/ Shows
  BY <1>a, <1>1 DEF Moves, Shows, ctrlC, Dismiss, Esc, SwitchTab, Move, Flip, ConfirmMove,
                    ShowGroup, dialogVars
<1>2. CASE Closes
  BY <1>a, <1>2 DEF Closes, Closed, ConfirmClose, ConfirmNo, InputClose
<1>3. CASE ServersDialog
  <2>1. CASE UNCHANGED dialogVars
    BY <1>a, <2>1 DEF dialogVars
  <2>2. CASE Edit("create-group", None)
    BY <1>c, <2>2
  <2>3. CASE groups # <<>> /\ Ask("delete-group", Shown, 0, FALSE)
    BY <1>0, <1>b, <1>d, <2>3, ShownIs
  <2>4. CASE /\ cursor < Len(currentLinks)
             /\ Ask("delete-server", Shown, currentLinks[cursor + 1].idx, FALSE)
    <3> DEFINE list == currentLinks
    <3>1. list \in Seq(EntryRows)
      BY <1>0, CurrentIs
    <3>2. cursor < Len(list) /\ Ask("delete-server", Shown, list[cursor + 1].idx, FALSE)
      BY <2>4
    <3> HIDE DEF list
    <3>3. list[cursor + 1] \in EntryRows
      BY <1>0, <3>1, <3>2, CursorIs
    <3>4. list[cursor + 1].idx \in 1..MaxLinks
      BY <3>3 DEF EntryRows
    <3>5. list[cursor + 1].idx \in 0..MaxLinks /\ list[cursor + 1].idx # 0
      BY <3>4, TuiAssumption
    <3> QED
      BY <1>0, <1>b, <3>2, <3>5, ShownIs
  <2> QED
    BY <1>3, <2>1, <2>2, <2>3, <2>4 DEF ServersDialog
<1>4. CASE SubsDialog
  <2>1. CASE Edit("sub-add", None)
    BY <1>c, <2>1
  <2>2. CASE cursor < Len(loadSubscriptions) /\ Edit("rename-group", SubsRow)
    BY <1>0, <1>c, <2>2, SubsRowIs
  <2>3. CASE cursor < Len(loadSubscriptions) /\ Ask("delete-sub", SubsRow, 0, FALSE)
    BY <1>0, <1>b, <1>d, <2>3, SubsRowIs
  <2> QED
    BY <1>4, <2>1, <2>2, <2>3 DEF SubsDialog
<1>5. CASE ConfirmUpdate
  <2>1. CASE Ask("update-method", None, 0, FALSE)
    BY <1>b, <1>d, <2>1
  <2>2. CASE Closed
    BY <1>a, <2>2 DEF Closed
  <2> QED
    BY <1>5, <2>1, <2>2 DEF ConfirmUpdate
<1>6. CASE HomeEnter
  <2>1. CASE UNCHANGED dialogVars
    BY <1>a, <2>1 DEF dialogVars
  <2>2. CASE \E item \in {"restart", "stop"} : Ask(item, None, 0, item = "restart")
    BY <1>b, <1>d, <2>2
  <2>3. CASE Ask("update-ask", None, 0, TRUE)
    BY <1>b, <1>d, <2>3
  <2>4. CASE \E act \in {"sub-add", "add-link", "change-port"} : Edit(act, None)
    BY <1>c, <2>4
  <2> QED
    BY <1>6, <2>1, <2>2, <2>3, <2>4 DEF HomeEnter, executeHomeAction, OnlyJob
<1>7. CASE ServersEnter \/ TestSingle \/ Bench \/ SubsUpdate \/ ConfirmJob \/ InputEnter
  BY <1>a, <1>7 DEF ServersEnter, TestSingle, Bench, SubsUpdate, ConfirmJob, InputEnter,
                    Closed, dialogVars
<1>8. CASE DeleteGroup \/ DeleteSub
  BY <1>a, <1>8 DEF DeleteGroup, DeleteSub, Closed
<1>9. ASSUME NEW j \in jobs, Finish(j) \/ BenchDoneMsg(j) \/ ActionDoneMsg(j)
      PROVE  DialogsOK'
  BY <1>a, <1>9 DEF Finish, BenchDoneMsg, ActionDoneMsg, dialogVars
<1>10. CASE UNCHANGED vars
  BY <1>a, <1>10 DEF vars, dialogVars
<1> QED
  BY <1>1, <1>2, <1>3, <1>4, <1>5, <1>6, <1>7, <1>8, <1>9, <1>10, StepsAre
     DEF Starts, Opens

-----------------------------------------------------------------------------
(* The jobs                                                                *)

Job(kind, g, i, n, rows) ==
    [id |-> started + 1, kind |-> kind, group |-> g, idx |-> i, name |-> n,
     back |-> kind \notin Writers, rows |-> rows]

LEMMA FreshIs ==
    ASSUME NEW kind, NEW g, NEW i, NEW n
    PROVE  /\ Fresh(kind) = Job(kind, None, 0, None, <<>>)
           /\ [Fresh(kind) EXCEPT !.group = g] = Job(kind, g, 0, None, <<>>)
           /\ [Fresh(kind) EXCEPT !.group = g, !.idx = i] = Job(kind, g, i, None, <<>>)
           /\ [Fresh(kind) EXCEPT !.name = n] = Job(kind, None, 0, n, <<>>)
           /\ [Fresh(kind) EXCEPT !.group = g, !.name = n] = Job(kind, g, 0, n, <<>>)
<1> DEFINE back == kind \notin Writers
           number == started + 1
           none == <<>>
           fresh == Fresh(kind)
           grouped == [fresh EXCEPT !.group = g]
           Made(h, k, m, list) == [id |-> number, kind |-> kind, group |-> h, idx |-> k,
                                   name |-> m, back |-> back, rows |-> list]
<1>1. fresh = [id |-> number, kind |-> kind, group |-> None, idx |-> 0, name |-> None,
               back |-> back, rows |-> none]
  BY DEF Fresh
<1>2. \A h, k, m, list : Job(kind, h, k, m, list) = Made(h, k, m, list)
  BY DEF Job
<1>3. /\ [Fresh(kind) EXCEPT !.group = g, !.idx = i] = [grouped EXCEPT !.idx = i]
      /\ [Fresh(kind) EXCEPT !.group = g, !.name = n] = [grouped EXCEPT !.name = n]
  OBVIOUS
<1> HIDE DEF back, number, none, fresh
<1>4. fresh = Made(None, 0, None, none)
  BY <1>1
<1>5. grouped = Made(g, 0, None, none)
  BY <1>1
<1>6. [fresh EXCEPT !.name = n] = Made(None, 0, n, none)
  BY <1>1
<1> HIDE DEF grouped
<1>7. [grouped EXCEPT !.idx = i] = Made(g, i, None, none)
  BY <1>5
<1>8. [grouped EXCEPT !.name = n] = Made(g, 0, n, none)
  BY <1>5
<1> HIDE DEF Made
<1>9. /\ fresh = Job(kind, None, 0, None, none)
      /\ grouped = Job(kind, g, 0, None, none)
      /\ [grouped EXCEPT !.idx = i] = Job(kind, g, i, None, none)
      /\ [fresh EXCEPT !.name = n] = Job(kind, None, 0, n, none)
      /\ [grouped EXCEPT !.name = n] = Job(kind, g, 0, n, none)
  BY <1>2, <1>4, <1>5, <1>6, <1>7, <1>8
<1> QED
  BY <1>3, <1>9 DEF none, fresh, grouped

LEMMA PlainIs == ASSUME NEW kind PROVE Fresh(kind) = Job(kind, None, 0, None, <<>>)
BY FreshIs

LEMMA RunGroup ==
    ASSUME NEW kind, NEW g, RunAction([Fresh(kind) EXCEPT !.group = g])
    PROVE  RunAction(Job(kind, g, 0, None, <<>>))
<1>1. [Fresh(kind) EXCEPT !.group = g] = Job(kind, g, 0, None, <<>>)
  BY FreshIs
<1> QED
  BY <1>1

LEMMA RunLink ==
    ASSUME NEW kind, NEW g, NEW i, RunAction([Fresh(kind) EXCEPT !.group = g, !.idx = i])
    PROVE  RunAction(Job(kind, g, i, None, <<>>))
<1>1. [Fresh(kind) EXCEPT !.group = g, !.idx = i] = Job(kind, g, i, None, <<>>)
  BY FreshIs
<1> QED
  BY <1>1

LEMMA RunName ==
    ASSUME NEW kind, NEW n, RunAction([Fresh(kind) EXCEPT !.name = n])
    PROVE  RunAction(Job(kind, None, 0, n, <<>>))
<1>1. [Fresh(kind) EXCEPT !.name = n] = Job(kind, None, 0, n, <<>>)
  BY FreshIs
<1> QED
  BY <1>1

LEMMA RunRename ==
    ASSUME NEW kind, NEW g, NEW n, RunAction([Fresh(kind) EXCEPT !.group = g, !.name = n])
    PROVE  RunAction(Job(kind, g, 0, n, <<>>))
<1>1. [Fresh(kind) EXCEPT !.group = g, !.name = n] = Job(kind, g, 0, n, <<>>)
  BY FreshIs
<1> QED
  BY <1>1

LEMMA LaunchRows ==
    ASSUME NEW kind, NEW g, NEW rows,
           Launch([Fresh(kind) EXCEPT !.group = g, !.rows = rows])
    PROVE  Launch(Job(kind, g, 0, None, rows))
<1> DEFINE back == kind \notin Writers
           number == started + 1
           grouped == [Fresh(kind) EXCEPT !.group = g]
<1>1. grouped = Job(kind, g, 0, None, <<>>)
  BY FreshIs
<1>2. [Fresh(kind) EXCEPT !.group = g, !.rows = rows] = [grouped EXCEPT !.rows = rows]
  OBVIOUS
<1> HIDE DEF grouped
<1>3. \A list : Job(kind, g, 0, None, list) =
        [id |-> number, kind |-> kind, group |-> g, idx |-> 0, name |-> None,
         back |-> back, rows |-> list]
  BY DEF Job
<1> HIDE DEF back, number
<1>4. [grouped EXCEPT !.rows = rows] = Job(kind, g, 0, None, rows)
  BY <1>1, <1>3
<1>5. [Fresh(kind) EXCEPT !.group = g, !.rows = rows] = Job(kind, g, 0, None, rows)
  BY <1>2, <1>4
<1> QED
  BY <1>5

(* A new job is one more, with a number of its own.                        *)
LEMMA LaunchOK ==
    ASSUME JobsOK, NEW kind \in JobKinds, NEW g \in GroupNames \cup {None},
           NEW i \in 0..MaxLinks, NEW n \in GroupNames \cup {None},
           NEW rows \in Seq(Rows), kind = "remove" => i # 0,
           kind = "rename" => g \in GroupNames,
           NEW job, job = Job(kind, g, i, n, rows), Launch(job),
           cancelFn' \in {cancelFn, 0, started + 1}
    PROVE  JobsOK'
<1>0. /\ started < MaxStarts /\ started' = started + 1 /\ jobs' = jobs \cup {job}
      /\ started \in 0..MaxStarts /\ MaxStarts \in Nat /\ cancelFn \in 0..MaxStarts
      /\ \A j \in jobs : j \in Jobs /\ j.id \in 1..MaxStarts /\ j.id <= started /\ JobOK(j)
  BY TuiAssumption DEF Launch, JobsOK, Jobs
<1>1. started + 1 \in 1..MaxStarts /\ started' \in 0..MaxStarts /\ 0 \in 0..MaxStarts
  BY <1>0
<1>2. cancelFn' \in 0..MaxStarts
  BY <1>0, <1>1
<1> DEFINE back == kind \notin Writers
<1>3. back \in BOOLEAN
  OBVIOUS
<1>4. job = [id |-> started + 1, kind |-> kind, group |-> g, idx |-> i, name |-> n,
             back |-> back, rows |-> rows]
  BY DEF Job
<1> HIDE DEF back
<1>5. job \in Jobs /\ job.id = started' /\ job.kind = kind /\ job.idx = i /\ job.group = g
  BY <1>0, <1>1, <1>3, <1>4 DEF Jobs
<1>6. JobOK(job)
  BY <1>5 DEF JobOK
<1>7. \A j \in jobs : j.id <= started'
  BY <1>0
<1>8. started' <= started'
  BY <1>1
<1>9. \A j \in jobs' : j \in Jobs /\ j.id <= started' /\ JobOK(j)
  BY <1>0, <1>5, <1>6, <1>7, <1>8
<1> QED
  BY <1>1, <1>2, <1>9 DEF JobsOK

LEMMA BackOK ==
    ASSUME NEW j \in Jobs, JobOK(j), NEW n \in GroupNames \cup {None},
           NEW done, done = [j EXCEPT !.back = TRUE, !.name = n]
    PROVE  done \in Jobs /\ JobOK(done) /\ done.id = j.id /\ done.kind = j.kind
<1>1. PICK id \in 1..MaxStarts, kind \in JobKinds, g \in GroupNames \cup {None},
           i \in 0..MaxLinks, m \in GroupNames \cup {None}, b \in BOOLEAN,
           rows \in Seq(Rows) :
        j = [id |-> id, kind |-> kind, group |-> g, idx |-> i, name |-> m, back |-> b,
             rows |-> rows]
  BY DEF Jobs
<1> DEFINE yes == TRUE
<1>2. yes \in BOOLEAN /\ done = [j EXCEPT !.back = yes, !.name = n]
  OBVIOUS
<1> HIDE DEF yes
<1>3. done = [id |-> id, kind |-> kind, group |-> g, idx |-> i, name |-> n, back |-> yes,
              rows |-> rows]
  BY <1>1, <1>2
<1>4. done.id = j.id /\ done.kind = j.kind /\ done.idx = j.idx /\ done.group = j.group
  BY <1>1, <1>3
<1>5. done \in Jobs
  BY <1>2, <1>3 DEF Jobs
<1> QED
  BY <1>4, <1>5 DEF JobOK

(* What a benchmark measures.                                              *)
LEMMA RowsAre ==
    ASSUME NEW list \in Seq(EntryRows)
    PROVE  [k \in DOMAIN list |-> [idx |-> list[k].idx, link |-> list[k].link, ms |-> 0]]
             \in Seq(Rows)
<1> DEFINE rows == [k \in DOMAIN list |->
                      [idx |-> list[k].idx, link |-> list[k].link, ms |-> 0]]
<1>1. DOMAIN list = 1..Len(list) /\ Len(list) \in Nat
  BY LenProperties
<1>2. ASSUME NEW k \in 1..Len(list)
      PROVE  [idx |-> list[k].idx, link |-> list[k].link, ms |-> 0] \in Rows
  <2>1. list[k] \in EntryRows
    BY <1>2, ElementOfSeq
  <2>2. list[k].idx \in 1..MaxLinks /\ list[k].link \in Links
    BY <2>1 DEF EntryRows
  <2> QED
    BY <2>2 DEF Rows
<1>3. rows \in [1..Len(list) -> Rows]
  BY <1>1, <1>2
<1> HIDE DEF rows
<1>4. rows \in Seq(Rows)
  BY <1>1, <1>3, SeqDef
<1> QED
  BY <1>4 DEF rows

LEMMA MeasuredAre ==
    ASSUME NEW rows \in Seq(Rows), NEW results \in Measured(rows)
    PROVE  results \in Seq(Rows)
<1>1. PICK ms \in [DOMAIN rows -> Latencies] :
        results = [k \in DOMAIN rows |-> [rows[k] EXCEPT !.ms = ms[k]]]
  BY DEF Measured
<1>2. DOMAIN rows = 1..Len(rows) /\ Len(rows) \in Nat
  BY LenProperties
<1>3. ASSUME NEW k \in 1..Len(rows) PROVE results[k] \in Rows
  <2>1. rows[k] \in Rows /\ ms[k] \in 0..2
    BY <1>1, <1>2, ElementOfSeq, TuiAssumption
  <2>2. results[k] = [rows[k] EXCEPT !.ms = ms[k]]
    BY <1>1, <1>2
  <2> QED
    BY <2>1, <2>2 DEF Rows
<1>4. results \in [1..Len(rows) -> Rows]
  BY <1>1, <1>2, <1>3
<1> QED
  BY <1>2, <1>4, SeqDef

LEMMA JobsKept == ASSUME TInv, [Next]_vars PROVE JobsOK'
<1>0. /\ JobsOK /\ GroupsOK /\ DiskOK(disk) /\ DialogsOK /\ cursor \in Nat
      /\ benchResults \in Seq(Rows)
  BY DEF TInv, ScreenOK
<1>a. ASSUME UNCHANGED jobVars, cancelFn' \in {cancelFn, 0} PROVE JobsOK'
  <2>1. 0 \in 0..MaxStarts
    BY TuiAssumption
  <2> QED
    BY <1>0, <1>a, <2>1 DEF JobsOK, JobOK, jobVars
<1>b. <<>> \in Seq(Rows) /\ 0 \in 0..MaxLinks
  BY EmptySeq, TuiAssumption
<1>c. Default \in GroupNames /\ \A n \in Typed : n \in GroupNames
  BY TuiAssumption DEF GroupNames
<1>d. ASSUME NEW kind \in JobKinds, NEW g \in GroupNames \cup {None},
             NEW i \in 0..MaxLinks, NEW n \in GroupNames \cup {None},
             kind = "remove" => i # 0, kind = "rename" => g \in GroupNames,
             NEW job, job = Job(kind, g, i, n, <<>>), RunAction(job)
      PROVE  JobsOK'
  <2>1. Launch(job) /\ cancelFn' = cancelFn
    BY <1>d DEF RunAction
  <2> QED
    BY <1>0, <1>b, <1>d, <2>1, LaunchOK
<1>1. CASE Moves \/ Shows
  BY <1>a, <1>1 DEF Moves, Shows, ctrlC, Dismiss, Esc, SwitchTab, Move, Flip, ConfirmMove,
                    ShowGroup, waitVars
<1>2. CASE Opens \/ Closes
  BY <1>a, <1>2 DEF Opens, Closes, ServersDialog, SubsDialog, ConfirmUpdate, ConfirmClose,
                    ConfirmNo, InputClose, OnlyDialog, waitVars
<1>3. CASE HomeEnter
  <2>1. CASE UNCHANGED <<waitVars, jobVars>>
    BY <1>a, <2>1 DEF waitVars
  <2>2. CASE RunAction(Fresh("task")) \/ RunAction(Fresh("update"))
    <3>1. "task" \in JobKinds /\ "update" \in JobKinds
      BY DEF JobKinds
    <3> QED
      BY <1>b, <1>d, <2>2, <3>1, PlainIs
  <2>3. CASE Launch(Fresh("live")) /\ cancelFn' = started + 1
    <3>1. "live" \in JobKinds
      BY DEF JobKinds
    <3> QED
      BY <1>0, <1>b, <2>3, <3>1, PlainIs, LaunchOK
  <2> QED
    BY <1>3, <2>1, <2>2, <2>3 DEF HomeEnter, executeHomeAction, OnlyDialog
<1>4. CASE ServersEnter
  <2>1. CASE UNCHANGED <<waitVars, jobVars>>
    BY <1>a, <2>1 DEF waitVars
  <2>2. CASE RunAction([Fresh("select") EXCEPT !.group = Shown, !.idx = Selected])
    <3>1. "select" \in JobKinds
      BY DEF JobKinds
    <3>2. Shown \in GroupNames \cup {None} /\ Selected \in 0..MaxLinks
      BY <1>0, ShownIs, SelectedIs
    <3>3. RunAction(Job("select", Shown, Selected, None, <<>>))
      BY <2>2, RunLink
    <3> QED
      BY <1>d, <3>1, <3>2, <3>3
  <2> QED
    BY <1>4, <2>1, <2>2 DEF ServersEnter
<1>5. CASE TestSingle
  <2> DEFINE list == currentLinks
             i == list[cursor + 1].idx
  <2>1. cursor < Len(list) /\ RunAction([Fresh("test") EXCEPT !.group = Shown, !.idx = i])
    BY <1>5 DEF TestSingle
  <2>2. list \in Seq(EntryRows)
    BY <1>0, CurrentIs
  <2> HIDE DEF list
  <2>3. list[cursor + 1] \in EntryRows
    BY <1>0, <2>1, <2>2, CursorIs
  <2>4. i \in 0..MaxLinks
    <3>1. i \in 1..MaxLinks
      BY <2>3 DEF EntryRows
    <3> QED
      BY <3>1, TuiAssumption
  <2> HIDE DEF i
  <2>5. RunAction(Job("test", Shown, i, None, <<>>))
    BY <2>1, RunLink
  <2>6. "test" \in JobKinds /\ Shown \in GroupNames \cup {None}
    BY <1>0, ShownIs DEF JobKinds
  <2> QED
    BY <1>d, <2>4, <2>5, <2>6
<1>6. CASE Bench
  <2> DEFINE list == currentLinks
             rows == [k \in DOMAIN list |->
                        [idx |-> list[k].idx, link |-> list[k].link, ms |-> 0]]
  <2>1. Launch([Fresh("bench") EXCEPT !.group = Shown, !.rows = rows]) /\ cancelFn' = cancelFn
    BY <1>6 DEF Bench, waitVars
  <2>2. list \in Seq(EntryRows)
    BY <1>0, CurrentIs
  <2> HIDE DEF list
  <2>3. rows \in Seq(Rows)
    BY <2>2, RowsAre
  <2> HIDE DEF rows
  <2>4. Launch(Job("bench", Shown, 0, None, rows))
    BY <2>1, LaunchRows
  <2>5. "bench" \in JobKinds /\ Shown \in GroupNames \cup {None}
    BY <1>0, ShownIs DEF JobKinds
  <2> QED
    BY <1>0, <1>b, <2>1, <2>3, <2>4, <2>5, LaunchOK
<1>7. CASE SubsUpdate
  <2>0. "update" \in JobKinds
    BY DEF JobKinds
  <2>1. CASE RunAction(Fresh("update"))
    BY <1>b, <1>d, <2>0, <2>1, PlainIs
  <2>2. CASE /\ cursor < Len(loadSubscriptions)
             /\ RunAction([Fresh("update") EXCEPT !.group = SubsRow])
    <3>1. SubsRow \in GroupNames
      BY <1>0, <2>2, SubsRowIs
    <3>2. RunAction(Job("update", SubsRow, 0, None, <<>>))
      BY <2>2, RunGroup
    <3> QED
      BY <1>b, <1>d, <2>0, <3>1, <3>2
  <2> QED
    BY <1>7, <2>1, <2>2 DEF SubsUpdate
<1>8. CASE ConfirmJob
  <2>0. "task" \in JobKinds /\ "remove" \in JobKinds
    BY DEF JobKinds
  <2>1. CASE RunAction(Fresh("task"))
    BY <1>b, <1>d, <2>0, <2>1, PlainIs
  <2>2. CASE /\ confirm # None /\ confirm.act = "delete-server"
             /\ RunAction([Fresh("remove") EXCEPT !.group = confirm.group,
                                                  !.idx = confirm.idx])
    <3>1. confirm \in Dialogs /\ confirm.idx # 0
      BY <1>0, <2>2 DEF DialogsOK
    <3>2. confirm.group \in GroupNames \cup {None} /\ confirm.idx \in 0..MaxLinks
      BY <3>1 DEF Dialogs
    <3>3. RunAction(Job("remove", confirm.group, confirm.idx, None, <<>>))
      BY <2>2, RunLink
    <3> QED
      BY <1>d, <2>0, <3>1, <3>2, <3>3
  <2> QED
    BY <1>8, <2>1, <2>2 DEF ConfirmJob
<1>9. CASE InputEnter
  <2>0. {"task", "add-link", "sub-add", "create", "rename"} \subseteq JobKinds
    BY DEF JobKinds
  <2>1. CASE RunAction(Fresh("task")) \/ RunAction(Fresh("add-link"))
    BY <1>b, <1>d, <2>0, <2>1, PlainIs
  <2>2. CASE \E n \in Typed : \/ RunAction([Fresh("sub-add") EXCEPT !.name = n])
                              \/ RunAction([Fresh("create") EXCEPT !.name = n])
    <3>1. PICK n \in GroupNames : \/ RunAction(Job("sub-add", None, 0, n, <<>>))
                                  \/ RunAction(Job("create", None, 0, n, <<>>))
      BY <1>c, <2>2, RunName
    <3> QED
      BY <1>b, <1>d, <2>0, <3>1
  <2>3. CASE /\ input # None /\ input.act = "rename-group"
             /\ \E n \in Typed :
                   RunAction([Fresh("rename") EXCEPT !.group = input.group, !.name = n])
    <3>1. input.group \in GroupNames
      BY <1>0, <2>3 DEF DialogsOK
    <3>2. PICK n \in GroupNames : RunAction(Job("rename", input.group, 0, n, <<>>))
      BY <1>c, <2>3, RunRename
    <3> QED
      BY <1>b, <1>d, <2>0, <3>1, <3>2
  <2> QED
    BY <1>9, <2>1, <2>2, <2>3 DEF InputEnter
<1>10. CASE DeleteGroup \/ DeleteSub
  BY <1>a, <1>10 DEF DeleteGroup, DeleteSub, waitVars
<1>11. ASSUME NEW j \in jobs, Finish(j) PROVE JobsOK'
  <2> DEFINE n == IF j.kind = "rename" /\ Renames(j.group, j.name) THEN j.name ELSE None
             done == [j EXCEPT !.back = TRUE, !.name = n]
  <2>1. /\ jobs' = (jobs \ {j}) \cup {done} /\ started' = started /\ cancelFn' = cancelFn
    BY <1>11 DEF Finish, waitVars
  <2>2. j \in Jobs /\ JobOK(j) /\ j.id <= started
    BY <1>0 DEF JobsOK
  <2>3. n \in GroupNames \cup {None}
    BY <2>2 DEF Jobs
  <2> HIDE DEF n
  <2>4. done \in Jobs /\ JobOK(done) /\ done.id = j.id
    BY <2>2, <2>3, BackOK
  <2> HIDE DEF done
  <2>5. \A k \in jobs' : k \in Jobs /\ k.id <= started' /\ JobOK(k)
    BY <1>0, <2>1, <2>2, <2>4 DEF JobsOK
  <2> QED
    BY <1>0, <2>1, <2>5 DEF JobsOK
<1>12. ASSUME NEW j \in jobs, BenchDoneMsg(j) \/ ActionDoneMsg(j) PROVE JobsOK'
  <2>1. jobs' = jobs \ {j} /\ started' = started /\ cancelFn' \in {cancelFn, 0}
    BY <1>12 DEF BenchDoneMsg, ActionDoneMsg, waitVars
  <2>2. 0 \in 0..MaxStarts
    BY TuiAssumption
  <2> QED
    BY <1>0, <2>1, <2>2 DEF JobsOK
<1>13. CASE UNCHANGED vars
  BY <1>a, <1>13 DEF vars, waitVars
<1> QED
  BY <1>1, <1>2, <1>3, <1>4, <1>5, <1>6, <1>7, <1>8, <1>9, <1>10, <1>11, <1>12, <1>13,
     StepsAre DEF Starts

(* The results are dropped, or come from a benchmark.                      *)
LEMMA ResultsKept == ASSUME TInv, [Next]_vars PROVE benchResults' \in Seq(Rows)
<1>0. benchResults \in Seq(Rows) /\ <<>> \in Seq(Rows)
  BY EmptySeq DEF TInv
<1>1. CASE Moves \/ Shows \/ Opens \/ Closes \/ DeleteGroup \/ DeleteSub
  <2>1. benchResults' \in {benchResults, <<>>}
    BY <1>1 DEF Moves, Shows, Opens, Closes, ctrlC, Dismiss, Esc, SwitchTab, Move, Flip,
                ConfirmMove, ShowGroup, ServersDialog, SubsDialog, ConfirmUpdate,
                ConfirmClose, ConfirmNo, InputClose, DeleteGroup, DeleteSub, benchVars
  <2> QED
    BY <1>0, <2>1
<1>2. CASE Starts
  <2>1. benchResults' \in {benchResults, <<>>}
    BY <1>2 DEF Starts, HomeEnter, ServersEnter, TestSingle, Bench, SubsUpdate,
                ConfirmJob, InputEnter, benchVars
  <2> QED
    BY <1>0, <2>1
<1>3. ASSUME NEW j \in jobs, Finish(j) \/ ActionDoneMsg(j) PROVE benchResults' \in Seq(Rows)
  BY <1>0, <1>3 DEF Finish, ActionDoneMsg, benchVars
<1>4. ASSUME NEW j \in jobs, BenchDoneMsg(j) PROVE benchResults' \in Seq(Rows)
  <2>1. benchResults' \in Measured(j.rows)
    BY <1>4 DEF BenchDoneMsg
  <2>2. j.rows \in Seq(Rows)
    BY DEF TInv, JobsOK, Jobs
  <2> QED
    BY <2>1, <2>2, MeasuredAre
<1>5. CASE UNCHANGED vars
  BY <1>0, <1>5 DEF vars, benchVars
<1> QED
  BY <1>1, <1>2, <1>3, <1>4, <1>5, StepsAre

-----------------------------------------------------------------------------
(* The theorems                                                            *)

LEMMA InitInv == Init => TInv
<1> SUFFICES ASSUME Init PROVE TInv
  OBVIOUS
<1>1. DiskOK(disk)
  <2>1. disk \in Profiles
    BY DEF Init
  <2>2. /\ disk \in [GroupNames -> Files \cup {None}]
        /\ \A g \in GroupNames : disk[g] # None => Len(disk[g].links) <= MaxLinks
    BY <2>1, TuiAssumption
  <2>3. \A g \in GroupNames : disk[g] \in Small \cup {None}
    BY <2>2 DEF Small
  <2> QED
    BY <2>2, <2>3 DEF DiskOK
<1>2. ScreenOK
  <2>1. "home" \in Range(Tabs)
    <3>1. Tabs[1] = "home" /\ 1 \in DOMAIN Tabs
      BY DEF Tabs
    <3> QED
      BY <3>1 DEF Range
  <2> QED
    BY <2>1 DEF Init, ScreenOK
<1>3. GroupsOK
  <2> DEFINE names == findGroups
  <2>1. groups = names /\ activeGroup = FirstOther(groups)
    BY DEF Init
  <2>2. names \in Seq(GroupNames)
    BY <1>1, ListIs DEF findGroups
  <2> HIDE DEF names
  <2>3. activeGroup = FirstOther(names)
    BY <2>1
  <2>4. activeGroup \in Nat \ {0} /\ (names = <<>> \/ activeGroup \in DOMAIN names)
    BY <2>2, <2>3, FirstOtherIs
  <2> QED
    BY <2>1, <2>2, <2>4 DEF GroupsOK, GroupIndexValid
<1>4. DialogsOK
  BY DEF Init, DialogsOK
<1>5. JobsOK
  BY TuiAssumption DEF Init, JobsOK
<1>6. benchResults \in Seq(Rows) /\ keys \in 0..MaxKeys
  BY EmptySeq, TuiAssumption DEF Init
<1> QED
  BY <1>1, <1>2, <1>3, <1>4, <1>5, <1>6 DEF TInv

LEMMA KeysKept == ASSUME TInv, [Next]_vars PROVE keys' \in 0..MaxKeys
<1>1. keys \in 0..MaxKeys /\ MaxKeys \in Nat
  BY TuiAssumption DEF TInv
<1>2. keys' = keys \/ (keys < MaxKeys /\ keys' = keys + 1)
  BY DEF Next, Key, vars
<1> QED
  BY <1>1, <1>2

LEMMA InvKept == TInv /\ [Next]_vars => TInv'
<1> SUFFICES ASSUME TInv, [Next]_vars PROVE TInv'
  OBVIOUS
<1> QED
  BY FilesKept, ScreenKept, GroupsKept, DialogsKept, JobsKept, ResultsKept, KeysKept
     DEF TInv

LEMMA InvHolds == Spec => []TInv
<1> QED
  BY InitInv, InvKept, PTL DEF Spec

(* The menu is well typed: in particular the group files hold links, and   *)
(* no job acts on a link or a group that is not one.                       *)
THEOREM MenuIsTyped == Spec => []TypeOK
<1> QED
  BY InvHolds, InvIsTyped, PTL

(* Whatever was created, renamed, deleted or updated, by a dialog or by a  *)
(* job that came back late, the index of the group that is shown is in the *)
(* list that it is used on.                                                *)
THEOREM ShownGroupExists == Spec => []GroupIndexValid
<1>1. TInv => GroupIndexValid
  BY DEF TInv, GroupsOK
<1> QED
  BY <1>1, InvHolds, PTL

(* Only the message of an action takes an action away.                     *)
LEMMA WhoEnds ==
    ASSUME TInv, [Next]_vars, NEW j \in jobs \ jobs', j.back, j.kind # "bench"
    PROVE  ActionDoneMsg(j)
<1>1. CASE Moves \/ Shows \/ Opens \/ Closes \/ DeleteGroup \/ DeleteSub
  <2>1. UNCHANGED jobs
    BY <1>1 DEF Moves, Shows, Opens, Closes, ctrlC, Dismiss, Esc, SwitchTab, Move, Flip,
                ConfirmMove, ShowGroup, ServersDialog, SubsDialog, ConfirmUpdate,
                ConfirmClose, ConfirmNo, InputClose, DeleteGroup, DeleteSub, OnlyDialog,
                jobVars
  <2> QED
    BY <2>1
<1>2. CASE Starts
  <2>1. jobs' = jobs \/ \E job : jobs' = jobs \cup {job}
    BY <1>2 DEF Starts, HomeEnter, executeHomeAction, OnlyDialog, ServersEnter, TestSingle,
                Bench, SubsUpdate, ConfirmJob, InputEnter, RunAction, Launch, jobVars
  <2> QED
    BY <2>1
<1>3. ASSUME NEW k \in jobs, Finish(k) \/ BenchDoneMsg(k) \/ ActionDoneMsg(k)
      PROVE  ActionDoneMsg(j)
  <2>1. \E done : jobs' = jobs \ {k} \/ jobs' = (jobs \ {k}) \cup {done}
    BY <1>3 DEF Finish, BenchDoneMsg, ActionDoneMsg
  <2>2. j = k
    BY <2>1
  <2> QED
    BY <1>3, <2>2 DEF Finish, BenchDoneMsg
<1>4. CASE UNCHANGED vars
  BY <1>4 DEF vars, jobVars
<1> QED
  BY <1>1, <1>2, <1>3, <1>4, StepsAre

LEMMA GroupStep ==
    ASSUME TInv, [Next]_vars, NEW j \in jobs \ jobs', j.back, j.kind # "bench",
           Shown # None
    PROVE  /\ disk[Shown] # None => Shown' = Shown
           /\ disk[Shown] = None /\ j.name # None /\ disk[j.name] # None
                => Shown' = j.name
<1> DEFINE names == findGroups
           i == ShownAfter(names, j.name)
<1>1. groups' = names /\ activeGroup' = i
  <2>1. ActionDoneMsg(j)
    BY WhoEnds
  <2>2. groups' = names /\ activeGroup' = ShownAfter(groups', j.name)
    BY <2>1 DEF ActionDoneMsg
  <2> QED
    BY <2>2
<1>2. GroupsOK /\ DiskOK(disk) /\ j \in Jobs
  BY DEF TInv, JobsOK
<1>3. Shown \in GroupNames /\ j.name \in GroupNames \cup {None}
  BY <1>2, ShownIs DEF Jobs
<1>4. /\ names \in Seq(GroupNames)
      /\ \A g \in GroupNames : disk[g] # None <=> \E k \in DOMAIN names : names[k] = g
  BY <1>2, ListIs DEF findGroups
<1> HIDE DEF names
<1>5. /\ \A k \in DOMAIN names : names[k] = Shown => names[i] = Shown
      /\ (\A k \in DOMAIN names : names[k] # Shown) =>
            \A k \in DOMAIN names : names[k] = j.name => names[i] = j.name
  BY <1>4, ShownAfterIs
<1> HIDE DEF i
<1>6. ASSUME NEW k \in DOMAIN names PROVE Shown' = names[i]
  <2>1. names # <<>>
    BY <1>6
  <2> QED
    BY <1>1, <2>1 DEF Shown
<1>7. ASSUME disk[Shown] # None PROVE Shown' = Shown
  <2>1. PICK k \in DOMAIN names : names[k] = Shown
    BY <1>3, <1>4, <1>7
  <2> QED
    BY <1>5, <1>6, <2>1
<1>8. ASSUME disk[Shown] = None, j.name # None, disk[j.name] # None PROVE Shown' = j.name
  <2>1. PICK k \in DOMAIN names : names[k] = j.name
    BY <1>3, <1>4, <1>8
  <2>2. \A m \in DOMAIN names : names[m] # Shown
    BY <1>3, <1>4, <1>8
  <2> QED
    BY <1>5, <1>6, <2>1, <2>2
<1> QED
  BY <1>7, <1>8

(* A job that comes back may have changed any file, and so may others that *)
(* are still out: the same group is shown after it if its file is there,   *)
(* and a renamed one under its new name.                                   *)
THEOREM GroupStaysShown == Spec => ShownGroupKept
<1>1. TInv /\ [Next]_vars =>
        [\A j \in jobs \ jobs' :
           (j.back /\ j.kind # "bench" /\ Shown # None) =>
             /\ disk[Shown] # None => Shown' = Shown
             /\ disk[Shown] = None /\ j.name # None /\ disk[j.name] # None
                  => Shown' = j.name]_vars
  BY GroupStep
<1> QED
  BY <1>1, InvHolds, PTL DEF Spec, ShownGroupKept

(* Only enter on the Servers tab starts the selection of a link.           *)
LEMMA WhoSelects ==
    ASSUME TInv, [Next]_vars, NEW j \in jobs', j.kind = "select", j.id > started
    PROVE  j = Job("select", Shown, Selected, None, <<>>)
<1>1. ASSUME NEW job, jobs' = jobs \cup {job}
      PROVE  j = job
  <2>1. \A k \in jobs : k.id \in 1..MaxStarts /\ k.id <= started /\ started \in 0..MaxStarts
    BY DEF TInv, JobsOK, Jobs
  <2>2. \A k \in jobs : ~(k.id > started)
    BY <2>1, TuiAssumption
  <2> QED
    BY <1>1, <2>2
<1>2. ASSUME jobs' \subseteq jobs PROVE FALSE
  <2>1. j.id \in 1..MaxStarts /\ j.id <= started /\ started \in 0..MaxStarts
    BY <1>2 DEF TInv, JobsOK, Jobs
  <2> QED
    BY <2>1, TuiAssumption
<1>3. ASSUME NEW kind, NEW g, NEW i, NEW n, NEW rows, kind # "select",
             Launch(Job(kind, g, i, n, rows))
      PROVE  FALSE
  <2>1. j = Job(kind, g, i, n, rows)
    BY <1>1, <1>3 DEF Launch
  <2>2. j.kind = kind
    BY <2>1 DEF Job
  <2> QED
    BY <1>3, <2>2
<1>4. ASSUME NEW kind, NEW g, NEW i, NEW n, NEW rows, kind # "select",
             RunAction(Job(kind, g, i, n, rows))
      PROVE  FALSE
  BY <1>3, <1>4 DEF RunAction
<1>5. CASE Moves \/ Shows \/ Opens \/ Closes \/ DeleteGroup \/ DeleteSub
  <2>1. UNCHANGED jobs
    BY <1>5 DEF Moves, Shows, Opens, Closes, ctrlC, Dismiss, Esc, SwitchTab, Move, Flip,
                ConfirmMove, ShowGroup, ServersDialog, SubsDialog, ConfirmUpdate,
                ConfirmClose, ConfirmNo, InputClose, DeleteGroup, DeleteSub, OnlyDialog,
                jobVars
  <2> QED
    BY <1>2, <2>1
<1>6. CASE HomeEnter
  <2>1. \/ UNCHANGED jobVars \/ RunAction(Fresh("task")) \/ RunAction(Fresh("update"))
        \/ Launch(Fresh("live"))
    BY <1>6 DEF HomeEnter, executeHomeAction, OnlyDialog
  <2> QED
    BY <1>2, <1>3, <1>4, <2>1, PlainIs DEF jobVars
<1>7. CASE ServersEnter
  <2>1. CASE UNCHANGED jobVars
    BY <1>2, <2>1 DEF jobVars
  <2>2. CASE RunAction([Fresh("select") EXCEPT !.group = Shown, !.idx = Selected])
    <3>1. Launch(Job("select", Shown, Selected, None, <<>>))
      BY <2>2, RunLink DEF RunAction
    <3> QED
      BY <1>1, <3>1 DEF Launch
  <2> QED
    BY <1>7, <2>1, <2>2 DEF ServersEnter
<1>8. CASE TestSingle
  <2>1. PICK i : RunAction([Fresh("test") EXCEPT !.group = Shown, !.idx = i])
    BY <1>8 DEF TestSingle
  <2>2. RunAction(Job("test", Shown, i, None, <<>>))
    BY <2>1, RunLink
  <2> QED
    BY <1>4, <2>2
<1>9. CASE Bench
  <2>1. PICK rows : Launch([Fresh("bench") EXCEPT !.group = Shown, !.rows = rows])
    BY <1>9 DEF Bench
  <2>2. Launch(Job("bench", Shown, 0, None, rows))
    BY <2>1, LaunchRows
  <2> QED
    BY <1>3, <2>2
<1>10. CASE SubsUpdate
  <2>1. RunAction(Fresh("update")) \/ RunAction([Fresh("update") EXCEPT !.group = SubsRow])
    BY <1>10 DEF SubsUpdate
  <2>2. \E g : RunAction(Job("update", g, 0, None, <<>>))
    BY <2>1, PlainIs, RunGroup
  <2> QED
    BY <1>4, <2>2
<1>11. CASE ConfirmJob
  <2>1. \/ RunAction(Fresh("task"))
        \/ RunAction([Fresh("remove") EXCEPT !.group = confirm.group, !.idx = confirm.idx])
    BY <1>11 DEF ConfirmJob
  <2>2. \/ RunAction(Job("task", None, 0, None, <<>>))
        \/ RunAction(Job("remove", confirm.group, confirm.idx, None, <<>>))
    BY <2>1, PlainIs, RunLink
  <2> QED
    BY <1>4, <2>2
<1>12. CASE InputEnter
  <2>1. \/ \E kind \in {"task", "add-link"} : RunAction(Fresh(kind))
        \/ \E kind \in {"sub-add", "create"} : \E n \in Typed :
              RunAction([Fresh(kind) EXCEPT !.name = n])
        \/ \E n \in Typed : RunAction([Fresh("rename") EXCEPT !.group = input.group, !.name = n])
    BY <1>12 DEF InputEnter
  <2>2. \/ \E kind \in {"task", "add-link"} : RunAction(Job(kind, None, 0, None, <<>>))
        \/ \E kind \in {"sub-add", "create"} : \E n \in Typed :
              RunAction(Job(kind, None, 0, n, <<>>))
        \/ \E n \in Typed : RunAction(Job("rename", input.group, 0, n, <<>>))
    BY <2>1, PlainIs, RunName, RunRename
  <2> QED
    BY <1>4, <2>2
<1>13. ASSUME NEW k \in jobs, Finish(k) PROVE FALSE
  <2> DEFINE n == IF k.kind = "rename" /\ Renames(k.group, k.name) THEN k.name ELSE None
             done == [k EXCEPT !.back = TRUE, !.name = n]
  <2>1. jobs' = (jobs \ {k}) \cup {done}
    BY <1>13 DEF Finish
  <2>2. k \in Jobs /\ JobOK(k) /\ k.id <= started /\ started \in 0..MaxStarts
    BY DEF TInv, JobsOK
  <2>3. n \in GroupNames \cup {None}
    BY <2>2 DEF Jobs
  <2> HIDE DEF n
  <2>4. done \in Jobs /\ done.id = k.id
    BY <2>2, <2>3, BackOK
  <2> HIDE DEF done
  <2>5. j \in jobs \/ j = done
    BY <2>1
  <2>6. j.id \in 1..MaxStarts /\ j.id <= started
    BY <2>2, <2>4, <2>5 DEF TInv, JobsOK, Jobs
  <2> QED
    BY <2>2, <2>6, TuiAssumption
<1>14. ASSUME NEW k \in jobs, BenchDoneMsg(k) \/ ActionDoneMsg(k) PROVE FALSE
  <2>1. jobs' \subseteq jobs
    BY <1>14 DEF BenchDoneMsg, ActionDoneMsg
  <2> QED
    BY <1>2, <2>1
<1>15. CASE UNCHANGED vars
  <2>1. jobs' \subseteq jobs
    BY <1>15 DEF vars, jobVars
  <2> QED
    BY <1>2, <2>1
<1> QED
  BY <1>5, <1>6, <1>7, <1>8, <1>9, <1>10, <1>11, <1>12, <1>13, <1>14, <1>15, StepsAre
     DEF Starts

(* The row under the cursor, and the link that enter takes for it.         *)
LEMMA SelectedRow ==
    ASSUME TInv, Highlighted # None, ~Stale
    PROVE  LinksOf(Shown)[Selected] = Highlighted
<1>0. GroupsOK /\ DiskOK(disk) /\ cursor \in Nat /\ benchResults \in Seq(Rows)
  BY DEF TInv, ScreenOK
<1> DEFINE list == currentLinks
           sorted == getSortedBenchResults
           rows == IF benchRunning \/ list = <<>> THEN <<>>
                   ELSE IF HasResults THEN sorted ELSE list
<1>1. Highlighted = IF cursor < Len(rows) THEN rows[cursor + 1].link ELSE None
  BY DEF Highlighted
<1>2. Selected = IF HasResults /\ cursor < Len(benchResults) THEN sorted[cursor + 1].idx
                 ELSE IF cursor < Len(list) THEN list[cursor + 1].idx ELSE 0
  BY DEF Selected
<1>3. Len(<<>>) = 0 /\ ~(cursor < 0)
  BY <1>0, EmptySeq
<1>4. /\ list \in Seq(EntryRows)
      /\ \A k \in DOMAIN list : LinksOf(Shown)[list[k].idx] = list[k].link
  BY <1>0, CurrentIs
<1>5. /\ Len(sorted) = Len(benchResults)
      /\ \A k \in 1..Len(benchResults) : \E i \in DOMAIN benchResults :
            sorted[k] = benchResults[i]
  BY <1>0, SortedIs DEF getSortedBenchResults
<1> HIDE DEF list, sorted
<1>6. rows = IF HasResults THEN sorted ELSE list
  BY <1>1, <1>3
<1>7. cursor < Len(rows) /\ Highlighted = rows[cursor + 1].link
  BY <1>1
<1> HIDE DEF rows
<1>8. CASE HasResults
  <2>1. cursor < Len(benchResults) /\ Highlighted = sorted[cursor + 1].link
    BY <1>5, <1>6, <1>7, <1>8
  <2>2. Selected = sorted[cursor + 1].idx
    BY <1>2, <1>8, <2>1
  <2>3. cursor + 1 \in 1..Len(benchResults)
    BY <1>0, <2>1, LenProperties
  <2>4. PICK i \in DOMAIN benchResults : sorted[cursor + 1] = benchResults[i]
    BY <1>5, <2>3
  <2>5. LinksOf(Shown)[benchResults[i].idx] = benchResults[i].link
    BY <1>8 DEF Stale
  <2> QED
    BY <2>1, <2>2, <2>4, <2>5
<1>9. CASE ~HasResults
  <2>1. cursor < Len(list) /\ Highlighted = list[cursor + 1].link
    BY <1>6, <1>7, <1>9
  <2>2. Selected = list[cursor + 1].idx
    BY <1>2, <1>9, <2>1
  <2>3. cursor + 1 \in DOMAIN list
    BY <1>0, <1>4, <2>1, CursorIs
  <2> QED
    BY <1>4, <2>1, <2>2, <2>3
<1> QED
  BY <1>8, <1>9

LEMMA SelectStep ==
    ASSUME TInv, [Next]_vars, NEW j \in jobs', j.kind = "select", j.id > started,
           Highlighted # None, ~Stale
    PROVE  LinksOf(j.group)[j.idx] = Highlighted
<1>1. j = Job("select", Shown, Selected, None, <<>>)
  BY WhoSelects
<1>2. j.group = Shown /\ j.idx = Selected
  BY <1>1 DEF Job
<1> QED
  BY <1>2, SelectedRow

(* The place that enter passes on is that of the link under the cursor:    *)
(* sorting the results loses no row, and every row, of the results or of   *)
(* the file, carries the place of its own link. It is about results of the *)
(* links that are in their places now (~Stale): those that come late under *)
(* another group, or that a change of the file has overtaken, have the     *)
(* places of other links, and enter selects these.                         *)
THEOREM EnterTakesTheRow == Spec => EnterNamesHighlighted
<1>1. TInv /\ [Next]_vars =>
        [\A j \in jobs' :
           (j.kind = "select" /\ j.id > started /\ Highlighted # None /\ ~Stale) =>
             LinksOf(j.group)[j.idx] = Highlighted]_vars
  BY SelectStep
<1> QED
  BY <1>1, InvHolds, PTL DEF Spec, EnterNamesHighlighted
=============================================================================
