----------------------------- MODULE TestRunner -----------------------------
(***************************************************************************)
(* The parallel test runner of src/src/mr_utils/src/mrt_test.c: workers    *)
(* take the index of the next group from a shared counter, run the group   *)
(* and log it, and the main thread joins them and sums what they report.   *)
(* The counter is incremented under a mutex, but a worker reads what it    *)
(* got after it has unlocked.  Two workers may so run one group, whose     *)
(* count of passed cases and vector of cases no mutex protects.            *)
(***************************************************************************)
EXTENDS Naturals, Sequences, FiniteSets

CONSTANTS
    Cores,      \* sysconf(_SC_NPROCESSORS_ONLN)
    NumGroups,  \* test_groups.len
    Cases       \* group -> for each assertion its function makes, in order,
                \* whether it passes

Groups == 0..(NumGroups - 1)

ASSUME RunnerAssumption ==
    /\ Cores \in Nat \ {0}
    /\ NumGroups \in Nat
    /\ Cases \in [Groups -> Seq(BOOLEAN)]

\* thread_count
Workers == 1..(IF Cores > NumGroups THEN NumGroups ELSE Cores)

VARIABLES
    next_group_idx,  \* the shared counter
    pc,              \* worker -> the step it is at
    idx,             \* worker -> group_idx_to_run
    made,            \* worker -> how many assertions of this run it has made
    reg,             \* worker -> the number it has loaded and not used yet
    total,           \* worker -> total_worker_err
    pass_count,      \* group -> pass_count
    cases_len,       \* group -> cases.len
    runs,            \* group -> how often its function was called
    reported,        \* group -> how many logs of it were written,
    failed,          \* and how many of them say that it failed
    joined,          \* the workers that the main thread has joined
    err_count,       \* what it has summed so far
    damaged          \* two workers got into the same vector of cases

groups == <<pass_count, cases_len>>
logs   == <<reported, failed, total>>
main   == <<joined, err_count>>
vars   == <<next_group_idx, pc, idx, made, reg, runs, groups, logs, main,
            damaged>>

\* A worker in a group's function is at one of CaseSteps.
CaseSteps == {"case", "pass", "append", "store"}
InGroup   == CaseSteps \cup {"log", "verdict"}
Steps     == {"fetch", "read", "test", "run", "done"} \cup InGroup

TypeOK ==
    /\ next_group_idx \in Nat
    /\ pc \in [Workers -> Steps]
    /\ idx \in [Workers -> Nat]
    /\ made \in [Workers -> Nat]
    /\ reg \in [Workers -> Nat]
    /\ total \in [Workers -> Nat]
    /\ pass_count \in [Groups -> Nat]
    /\ cases_len \in [Groups -> Nat]
    /\ runs \in [Groups -> Nat]
    /\ reported \in [Groups -> Nat]
    /\ failed \in [Groups -> Nat]
    /\ joined \subseteq Workers
    /\ err_count \in Nat
    /\ damaged \in BOOLEAN

Init ==
    /\ next_group_idx = 0
    /\ pc = [w \in Workers |-> "fetch"]
    /\ idx = [w \in Workers |-> 0]
    /\ made = [w \in Workers |-> 0]
    /\ reg = [w \in Workers |-> 0]
    /\ total = [w \in Workers |-> 0]
    /\ pass_count = [g \in Groups |-> 0]
    /\ cases_len = [g \in Groups |-> 0]
    /\ runs = [g \in Groups |-> 0]
    /\ reported = [g \in Groups |-> 0]
    /\ failed = [g \in Groups |-> 0]
    /\ joined = {}
    /\ err_count = 0
    /\ damaged = FALSE

-----------------------------------------------------------------------------
(* Which group *)

At(w, step) == pc[w] = step

Goto(w, step) == pc' = [pc EXCEPT ![w] = step]

\* Two mistakes: without the mutex, an increment is lost if another worker is
\* at the same place; the counter starts again.
FetchUnlocked(w) ==
    /\ At(w, "fetch")
    /\ next_group_idx' = IF \E v \in Workers : At(v, "read")
                         THEN next_group_idx ELSE next_group_idx + 1
    /\ Goto(w, "read")
    /\ UNCHANGED <<idx, made, reg, runs, groups, logs, main, damaged>>

FetchAround(w) ==
    /\ At(w, "fetch")
    /\ next_group_idx' = (next_group_idx % NumGroups) + 1
    /\ Goto(w, "read")
    /\ UNCHANGED <<idx, made, reg, runs, groups, logs, main, damaged>>

\* The part of atomic_fetch_increment_group_idx under the mutex.
Fetch(w) ==
    /\ At(w, "fetch")
    /\ next_group_idx' = next_group_idx + 1
    /\ Goto(w, "read")
    /\ UNCHANGED <<idx, made, reg, runs, groups, logs, main, damaged>>

\* Its return value, read after the unlock.
Read(w) ==
    /\ At(w, "read")
    /\ idx' = [idx EXCEPT ![w] = next_group_idx - 1]
    /\ Goto(w, "test")
    /\ UNCHANGED <<next_group_idx, made, reg, runs, groups, logs, main, damaged>>

Test(w) ==
    /\ At(w, "test")
    /\ Goto(w, IF idx[w] >= NumGroups THEN "done" ELSE "run")
    /\ UNCHANGED <<next_group_idx, idx, made, reg, runs, groups, logs, main,
                   damaged>>

-----------------------------------------------------------------------------
(* What a worker does with it *)

\* (*group->func)(group)
Run(w) ==
    /\ At(w, "run")
    /\ runs' = [runs EXCEPT ![idx[w]] = @ + 1]
    /\ made' = [made EXCEPT ![w] = 0]
    /\ Goto(w, "case")
    /\ UNCHANGED <<next_group_idx, idx, reg, groups, logs, main, damaged>>

\* The next assertion of the function, or its return.
NextCase(w) ==
    LET cases == Cases[idx[w]]
    IN  /\ At(w, "case")
        /\ \/ /\ made[w] < Len(cases)
              /\ cases[made[w] + 1]
              /\ reg' = [reg EXCEPT ![w] = pass_count[idx[w]]]
              /\ Goto(w, "pass")
           \/ /\ made[w] < Len(cases)
              /\ ~cases[made[w] + 1]
              /\ UNCHANGED reg
              /\ Goto(w, "append")
           \/ /\ made[w] = Len(cases)
              /\ UNCHANGED reg
              /\ Goto(w, "log")
        /\ UNCHANGED <<next_group_idx, idx, made, runs, groups, logs, main,
                       damaged>>

\* pass_count++, whose load was made before.
Pass(w) ==
    /\ At(w, "pass")
    /\ pass_count' = [pass_count EXCEPT ![idx[w]] = reg[w] + 1]
    /\ Goto(w, "append")
    /\ UNCHANGED <<next_group_idx, idx, made, reg, runs, cases_len, logs, main,
                   damaged>>

\* mrv_append: the case is copied to the slot behind the others,
Fill(w) ==
    /\ At(w, "append")
    /\ reg' = [reg EXCEPT ![w] = cases_len[idx[w]]]
    /\ Goto(w, "store")
    /\ UNCHANGED <<next_group_idx, idx, made, runs, groups, logs, main, damaged>>

\* and len++.
StoreLen(w) ==
    /\ At(w, "store")
    /\ cases_len' = [cases_len EXCEPT ![idx[w]] = reg[w] + 1]
    /\ made' = [made EXCEPT ![w] = @ + 1]
    /\ Goto(w, "case")
    /\ UNCHANGED <<next_group_idx, idx, reg, runs, pass_count, logs, main,
                   damaged>>

\* mrt_group_log takes the logging mutex and loads the one count,
Log(w) ==
    /\ At(w, "log")
    /\ \A v \in Workers : ~At(v, "verdict")
    /\ reg' = [reg EXCEPT ![w] = pass_count[idx[w]]]
    /\ Goto(w, "verdict")
    /\ UNCHANGED <<next_group_idx, idx, made, runs, groups, logs, main, damaged>>

\* A mistake: the worker reports its last group only.
VerdictOfLast(w) ==
    LET err == IF reg[w] # cases_len[idx[w]] THEN 1 ELSE 0
    IN  /\ At(w, "verdict")
        /\ reported' = [reported EXCEPT ![idx[w]] = @ + 1]
        /\ failed' = [failed EXCEPT ![idx[w]] = @ + err]
        /\ total' = [total EXCEPT ![w] = err]
        /\ Goto(w, "fetch")
        /\ UNCHANGED <<next_group_idx, idx, made, reg, runs, groups, main, damaged>>

\* compares it with the other, and unlocks: ERR if they differ.
Verdict(w) ==
    LET err == IF reg[w] # cases_len[idx[w]] THEN 1 ELSE 0
    IN  /\ At(w, "verdict")
        /\ reported' = [reported EXCEPT ![idx[w]] = @ + 1]
        /\ failed' = [failed EXCEPT ![idx[w]] = @ + err]
        /\ total' = [total EXCEPT ![w] = @ + err]
        /\ Goto(w, "fetch")
        /\ UNCHANGED <<next_group_idx, idx, made, reg, runs, groups, main, damaged>>

\* A worker is inside mrv_append and another in the same vector, to append or
\* to log: both may move the block, or leave a slot that was never written,
\* which the log or the destruction of the group reads.  The model does not
\* follow the program from there.
Damage ==
    /\ \E v, w \in Workers :
          /\ v # w
          /\ idx[v] = idx[w]
          /\ At(v, "store")
          /\ At(w, "store") \/ At(w, "verdict")
    /\ damaged' = TRUE
    /\ UNCHANGED <<next_group_idx, pc, idx, made, reg, runs, groups, logs, main>>

-----------------------------------------------------------------------------
(* The main thread, and the whole *)

\* A mistake: the main thread waits for the thread after.
JoinNext(w) ==
    /\ At(w, "done")
    /\ joined = 1..w
    /\ joined' = joined \cup {w}
    /\ err_count' = err_count + total[w]
    /\ UNCHANGED <<next_group_idx, pc, idx, made, reg, runs, groups, logs, damaged>>

\* thrd_join, in the order of the threads.
Join(w) ==
    /\ At(w, "done")
    /\ joined = 1..(w - 1)
    /\ joined' = joined \cup {w}
    /\ err_count' = err_count + total[w]
    /\ UNCHANGED <<next_group_idx, pc, idx, made, reg, runs, groups, logs, damaged>>

Worker(w) ==
    /\ ~damaged
    /\ \/ Fetch(w) \/ Read(w) \/ Test(w) \/ Run(w)
       \/ NextCase(w) \/ Pass(w) \/ Fill(w) \/ StoreLen(w)
       \/ Log(w) \/ Verdict(w)

Main(w) == ~damaged /\ Join(w)

Next ==
    \/ \E w \in Workers : Worker(w) \/ Main(w)
    \/ ~damaged /\ Damage

\* Every thread that can go on does so at some time.  No one holds the logging
\* mutex for ever, and it is taken a finite number of times, so who waits for
\* it needs no fairness of the mutex.
Spec ==
    /\ Init
    /\ [][Next]_vars
    /\ \A w \in Workers : WF_vars(Worker(w)) /\ WF_vars(Main(w))

-----------------------------------------------------------------------------
(* What the runner promises *)

Finished == joined = Workers

\* The sum of f over S.
Sum(f, S) == Cardinality(UNION {{s} \X (1..f[s]) : s \in S})

\* The groups with a case that does not pass.
Failing == {g \in Groups : \E k \in 1..Len(Cases[g]) : ~Cases[g][k]}

\* The index of the group to run is fetched atomically ("is atomic. BEWARE",
\* mrt_test.c:93): no group is run twice, and once the workers are joined
\* each was run.
EachGroupRunsOnce ==
    /\ \A g \in Groups : runs[g] <= 1
    /\ Finished => \A g \in Groups : runs[g] = 1

\* With one worker, or none that is overtaken between unlock and read, a
\* group run twice takes the place of another: whatever the interleaving, the
\* workers together call no more functions than there are groups.
NoMoreRunsThanGroups == Sum(runs, Groups) <= NumGroups

\* A worker goes forward: it never runs a group again, nor one before it.  The
\* index it reads is greater than the one it has, but for the first fetch of
\* all, which gives 0 to a worker that has none.
WorkersGoForward ==
    [][\A w \in Workers :
          At(w, "read") /\ ~At(w, "read")'
              => idx'[w] > idx[w] \/ next_group_idx = 1]_vars

\* "returns number of failed test groups" (mrt_test.h:17): so it is if every
\* group was run once.  If not, the main thread still returns only when all
\* that was run is logged, with the number of logs that say FAILED, and of a
\* group that was run once, whatever became of the others, the log says
\* FAILED exactly if one of its cases does not pass.  Where a group was run
\* twice its own log may be wrong either way, and the heap may be damaged;
\* elsewhere it is not.
CountsFailures ==
    /\ damaged => \E g \in Groups : runs[g] > 1
    /\ Finished =>
          /\ reported = runs
          /\ err_count = Sum(failed, Groups)
          /\ \A g \in Groups :
                runs[g] = 1 => failed[g] = IF g \in Failing THEN 1 ELSE 0
          /\ (\A g \in Groups : runs[g] = 1) => err_count = Cardinality(Failing)

\* The workers come to an end, whatever the counter does under their hands,
\* and are joined, unless the heap is damaged first.
Terminates == <>(Finished \/ damaged)

=============================================================================
