---------------------------- MODULE GlobalAbort ----------------------------
(***************************************************************************)
(* rdw-core/src/abort.rs: the export-wide fuel-failure counters and abort  *)
(* flag that every range worker shares, judged by the FailureConfig.       *)
(* record_and_check is four separate atomic operations (all SeqCst), so    *)
(* each is an action of its own and other workers run between them.        *)
(***************************************************************************)
EXTENDS FailureConfig

CONSTANTS
    Workers,       \* the range-worker tasks
    MaxAttempts    \* bound on the fuel fetches of one export

VARIABLES
    attempted, failures, aborted,   \* Counters
    call                            \* each worker's record_and_check in progress

abortVars == <<attempted, failures, aborted, call>>

Steps == {"idle", "counted", "tallied", "judged"}

\* a and f are the totals the call has seen: its locals attempted and failures.
Calls == [at : Steps, failed : BOOLEAN, a : Nat, f : Nat]

NoCall == [at |-> "idle", failed |-> FALSE, a |-> 0, f |-> 0]

Init ==
    /\ attempted = 0
    /\ failures = 0
    /\ aborted = FALSE
    /\ call = [w \in Workers |-> NoCall]

\* attempted.fetch_add(1) + 1
Count(w, failed) ==
    /\ call[w].at = "idle"
    /\ attempted < MaxAttempts
    /\ attempted' = attempted + 1
    /\ call' = [call EXCEPT ![w] = [at |-> "counted", failed |-> failed,
                                    a |-> attempted + 1, f |-> 0]]
    /\ UNCHANGED <<failures, aborted>>

\* Mutant: a failed fetch adds one but judges by the value fetch_add returned.
TallyMutant(w) ==
    /\ call[w].at = "counted"
    /\ failures' = IF call[w].failed THEN failures + 1 ELSE failures
    /\ call' = [call EXCEPT ![w].at = "tallied", ![w].f = failures]
    /\ UNCHANGED <<attempted, aborted>>

\* failures.fetch_add(1) + 1 after a failed fetch, failures.load() otherwise.
Tally(w) ==
    /\ call[w].at = "counted"
    /\ failures' = IF call[w].failed THEN failures + 1 ELSE failures
    /\ call' = [call EXCEPT ![w].at = "tallied", ![w].f = failures']
    /\ UNCHANGED <<attempted, aborted>>

\* The threshold is judged on the two locals, and the flag is only ever set.
Judge(w) ==
    /\ call[w].at = "tallied"
    /\ aborted' = (aborted \/ ShouldAbort(call[w].f, call[w].a))
    /\ call' = [call EXCEPT ![w].at = "judged"]
    /\ UNCHANGED <<attempted, failures>>

\* aborted.load(): the answer of the call.
Answer(w) ==
    /\ call[w].at = "judged"
    /\ call' = [call EXCEPT ![w] = NoCall]
    /\ UNCHANGED <<attempted, failures, aborted>>

Next ==
    \E w \in Workers :
        \/ \E failed \in BOOLEAN : Count(w, failed)
        \/ Tally(w)
        \/ Judge(w)
        \/ Answer(w)

Spec == Init /\ [][Next]_abortVars

----------------------------------------------------------------------------
TypeOK ==
    /\ attempted \in Nat
    /\ failures \in Nat
    /\ aborted \in BOOLEAN
    /\ call \in [Workers -> Calls]

Quiet == \A w \in Workers : call[w].at = "idle"

\* Although no call sees both totals at one instant, an excess is never missed:
\* once every call has returned, totals above the threshold mean that the
\* export is aborted.
NoMissedAbort == Quiet /\ ShouldAbort(failures, attempted) => aborted

\* failure.rs:54-57: FLOOR failures are tolerated unconditionally.
FloorTolerated == aborted => failures > FLOOR

\* What NoMissedAbort rests on: while the totals are above the threshold and
\* the flag is not set yet, some call that has seen every failure is about to
\* judge.  A call never saw more than the totals.
ExcessIsSeen ==
    /\ ShouldAbort(failures, attempted) =>
         \/ aborted
         \/ \E w \in Workers : call[w].at = "tallied" /\ call[w].f = failures
    /\ \A w \in Workers :
         /\ call[w].a <= attempted
         /\ call[w].f <= failures

============================================================================
