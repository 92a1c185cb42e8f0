----------------------------- MODULE Advertiser -----------------------------
(***************************************************************************)
(* The background advertiser of pkg/advertise: hashes of committed chunks  *)
(* go through a bounded channel into batches, which are reported to the    *)
(* tracker; what fails is retried one by one from a bounded queue, and     *)
(* Stop makes a last attempt.  The daemon runs one advertiser for its      *)
(* life, and every sync one for its own duration.                          *)
(*                                                                         *)
(* An item is one call of Enqueue with its hash.  The order of items in    *)
(* the channel, in a batch and in the retry queue does not matter here,    *)
(* so all three are sets.  Whether an entry's nextAt has passed is a bit.  *)
(***************************************************************************)
EXTENDS Integers, FiniteSets

CONSTANTS
    Item,        \* calls of Enqueue
    ChanCap,     \* capacity of the channel (1024)
    RetryCap,    \* maxRetryQueue (4096)
    BatchSize,   \* advertisement.batchSize
    MaxRetries   \* advertisement.maxRetries

ASSUME CapacityAssumption ==
    /\ IsFiniteSet(Item)
    /\ ChanCap \in Nat /\ RetryCap \in Nat
    /\ BatchSize \in Nat \ {0} /\ MaxRetries \in Nat \ {0}

VARIABLES
    ch,        \* the channel
    buf,       \* the batch the loop collects
    retry,     \* the retry queue
    due,       \* its entries whose nextAt has passed
    ready,     \* what flushRetries took out of it and has yet to report
    report,    \* the hashes of the ReportChunks call under way
    attempt,   \* attempt[i]: the attempt the retry entry of i carries
    pc,        \* where the loop stands
    stopped,   \* done is closed
    fresh,     \* the items not enqueued yet
    reported,  \* acknowledged by the tracker
    failed,    \* given up after the last attempt
    dropped,   \* turned away by a full retry queue
    tries,     \* tries[i]: the calls that have failed to report i
    before,    \* the items enqueued before Stop
    tried      \* the items a failed call has carried since Stop

queues  == <<ch, buf, retry, due, ready, report, attempt>>
outcome == <<reported, failed, dropped>>
history == <<tries, before, tried>>
advVars == <<queues, pc, stopped, fresh, outcome, history>>

PC == {"select", "tick", "retries", "drain", "final", "last", "finished"}

AdvInit ==
    /\ ch = {} /\ buf = {} /\ retry = {} /\ due = {} /\ ready = {} /\ report = {}
    /\ attempt = [i \in Item |-> 0]
    /\ pc = "select" /\ stopped = FALSE
    /\ fresh = Item
    /\ reported = {} /\ failed = {} /\ dropped = {}
    /\ tries = [i \in Item |-> 0]
    /\ before = {} /\ tried = {}

-----------------------------------------------------------------------------
(* scheduleRetry: entries beyond the bound of the queue are dropped.       *)
ScheduleRetry(S, n) ==
    \E kept \in SUBSET S :
        /\ Cardinality(retry \cup kept) <= RetryCap
        /\ kept # S => Cardinality(retry \cup kept) = RetryCap
        /\ retry' = retry \cup kept
        /\ attempt' = [i \in Item |-> IF i \in kept THEN n ELSE attempt[i]]
        /\ dropped' = dropped \cup (S \ kept)

(* Variant: a hash that finds the channel full has one attempt less.       *)
EnqueueLate(i) ==
    /\ i \in fresh
    /\ fresh' = fresh \ {i}
    /\ before' = IF stopped THEN before ELSE before \cup {i}
    /\ IF Cardinality(ch) < ChanCap
       THEN ch' = ch \cup {i} /\ UNCHANGED <<retry, attempt, dropped>>
       ELSE ScheduleRetry({i}, 1) /\ UNCHANGED ch
    /\ UNCHANGED <<buf, due, ready, report, pc, stopped, reported, failed, tries, tried>>

(* Enqueue never blocks: a full channel sends the hash to the retry queue. *)
Enqueue(i) ==
    /\ i \in fresh
    /\ fresh' = fresh \ {i}
    /\ before' = IF stopped THEN before ELSE before \cup {i}
    /\ IF Cardinality(ch) < ChanCap
       THEN ch' = ch \cup {i} /\ UNCHANGED <<retry, attempt, dropped>>
       ELSE ScheduleRetry({i}, 0) /\ UNCHANGED ch
    /\ UNCHANGED <<buf, due, ready, report, pc, stopped, reported, failed, tries, tried>>

(* The backoff of an entry is over.                                        *)
Due(i) ==
    /\ i \in retry \ due
    /\ due' = due \cup {i}
    /\ UNCHANGED <<ch, buf, retry, ready, report, attempt, pc, stopped, fresh,
                   outcome, history>>

Stop ==
    /\ ~stopped
    /\ stopped' = TRUE
    /\ UNCHANGED <<queues, pc, fresh, outcome, history>>

-----------------------------------------------------------------------------
(* The loop.  A ReportChunks call blocks it.                               *)
At(l) == pc = l /\ report = {}

Take(i) ==
    /\ At("select")
    /\ i \in ch
    /\ ch' = ch \ {i}
    /\ IF Cardinality(buf \cup {i}) >= BatchSize
       THEN report' = buf \cup {i} /\ buf' = {}
       ELSE buf' = buf \cup {i} /\ UNCHANGED report
    /\ UNCHANGED <<retry, due, ready, attempt, pc, stopped, fresh, outcome, history>>

(* The ticker, and the end of the drain: the batch as it is, then the      *)
(* retries.                                                                *)
FlushBatch(l) ==
    /\ report' = buf /\ buf' = {}
    /\ pc' = l
    /\ UNCHANGED <<ch, retry, due, ready, attempt, stopped, fresh, outcome, history>>

(* Variant: the ticker leaves an incomplete batch alone.                   *)
TickRetriesOnly ==
    /\ At("select")
    /\ pc' = "tick"
    /\ UNCHANGED <<queues, stopped, fresh, outcome, history>>

Tick == At("select") /\ FlushBatch("tick")

DoneClosed ==
    /\ At("select")
    /\ stopped
    /\ pc' = "drain"
    /\ UNCHANGED <<queues, stopped, fresh, outcome, history>>

Drain(i) ==
    /\ At("drain")
    /\ i \in ch
    /\ ch' = ch \ {i}
    /\ buf' = buf \cup {i}
    /\ UNCHANGED <<retry, due, ready, report, attempt, pc, stopped, fresh, outcome, history>>

Drained == At("drain") /\ ch = {} /\ FlushBatch("final")

(* Variant: the last flush, too, takes only the entries that are due.      *)
FlushRetriesDue ==
    /\ At("tick") \/ At("final")
    /\ ready' = due /\ retry' = retry \ due /\ due' = {}
    /\ pc' = IF pc = "tick" THEN "retries" ELSE "last"
    /\ UNCHANGED <<ch, buf, report, attempt, stopped, fresh, outcome, history>>

(* Variant: the entries that are not due are forgotten.                    *)
FlushRetriesAll ==
    /\ At("tick") \/ At("final")
    /\ ready' = IF pc = "tick" THEN due ELSE retry
    /\ retry' = {} /\ due' = {}
    /\ pc' = IF pc = "tick" THEN "retries" ELSE "last"
    /\ UNCHANGED <<ch, buf, report, attempt, stopped, fresh, outcome, history>>

FlushRetries ==
    /\ At("tick") \/ At("final")
    /\ ready' = IF pc = "tick" THEN due ELSE retry
    /\ retry' = retry \ ready' /\ due' = due \ ready'
    /\ pc' = IF pc = "tick" THEN "retries" ELSE "last"
    /\ UNCHANGED <<ch, buf, report, attempt, stopped, fresh, outcome, history>>

(* The entries that were ready are reported one by one.                    *)
Retry(i) ==
    /\ At("retries") \/ At("last")
    /\ i \in ready
    /\ ready' = ready \ {i}
    /\ report' = {i}
    /\ UNCHANGED <<ch, buf, retry, due, attempt, pc, stopped, fresh, outcome, history>>

(* Variant: a break out of the select where the loop should return.        *)
RetriesDoneBreaks ==
    /\ At("retries") \/ At("last")
    /\ ready = {}
    /\ pc' = "select"
    /\ UNCHANGED <<queues, stopped, fresh, outcome, history>>

RetriesDone ==
    /\ At("retries") \/ At("last")
    /\ ready = {}
    /\ pc' = IF pc = "retries" THEN "select" ELSE "finished"
    /\ UNCHANGED <<queues, stopped, fresh, outcome, history>>

-----------------------------------------------------------------------------
(* The end of a ReportChunks call.  A batch is on its attempt 0, like an   *)
(* entry that came from a full channel.                                    *)

Acknowledged ==
    /\ report # {}
    /\ reported' = reported \cup report
    /\ report' = {}
    /\ UNCHANGED <<ch, buf, retry, due, ready, attempt, pc, stopped, fresh,
                   failed, dropped, history>>

LastAttempt(n) == n + 1 >= MaxRetries

(* An error, or the 5 s deadline.                                          *)
ReportFails ==
    /\ report # {}
    /\ \E i \in report :
          IF LastAttempt(attempt[i])
          THEN failed' = failed \cup report /\ UNCHANGED <<retry, attempt, dropped>>
          ELSE ScheduleRetry(report, attempt[i] + 1) /\ UNCHANGED failed
    /\ tries' = [i \in Item |-> IF i \in report THEN tries[i] + 1 ELSE tries[i]]
    /\ tried' = IF stopped THEN tried \cup report ELSE tried
    /\ report' = {}
    /\ UNCHANGED <<ch, buf, due, ready, pc, stopped, fresh, reported, before>>

Loop ==
    \/ \E i \in Item : Take(i) \/ Drain(i) \/ Retry(i)
    \/ Tick \/ Drained \/ FlushRetries \/ RetriesDone
    \/ Acknowledged \/ ReportFails

Finished == pc = "finished" /\ UNCHANGED advVars

AdvNext ==
    \/ \E i \in Item : Enqueue(i) \/ Due(i)
    \/ Stop \/ Loop \/ DoneClosed \/ Finished

AdvSpec == AdvInit /\ [][AdvNext]_advVars

(* The loop is scheduled, a call ends by its deadline and backoffs end.    *)
(* select chooses among its ready cases at random: none is passed over for *)
(* ever.                                                                   *)
AdvFairSpec ==
    /\ AdvSpec
    /\ WF_advVars(Loop) /\ SF_advVars(Tick) /\ SF_advVars(DoneClosed)
    /\ \A i \in Item : WF_advVars(Due(i)) /\ SF_advVars(Take(i))

-----------------------------------------------------------------------------
AdvTypeOK ==
    /\ \A S \in {ch, buf, retry, ready, report, fresh, reported, failed, dropped,
                 before, tried} : S \subseteq Item
    /\ due \subseteq retry
    /\ Cardinality(ch) <= ChanCap /\ Cardinality(retry) <= RetryCap
    /\ attempt \in [Item -> Nat]
    /\ tries \in [Item -> Nat]
    /\ pc \in PC /\ stopped \in BOOLEAN

Places == <<fresh, ch, buf, report, ready, retry, reported, failed, dropped>>

(* Every item is in exactly one place: no hash is lost between channel,    *)
(* batch, call and retry queue, and none is in two of them at once.        *)
ItemConserved ==
    \A i \in Item : Cardinality({p \in DOMAIN Places : i \in Places[p]}) = 1

(* Whichever way a hash takes, through the channel or past it, in a batch  *)
(* or alone, it is given up after the same number of failed calls, never   *)
(* before MaxRetries of them, and no other hash is tried as often          *)
(* (advertise.go:73, 196).  That the number is MaxRetries, the first call  *)
(* included, is the code's reading of a documented number of retries       *)
(* (docs/configuration.md:180); the property holds for both.               *)
GivenUpAlike ==
    \A i \in failed :
        /\ tries[i] >= MaxRetries
        /\ \A j \in Item : tries[j] <= tries[i] /\ (tries[j] = tries[i] => j \in failed)

(* When the loop has finished, every hash that was enqueued before Stop    *)
(* has been reported, given up or dropped, or a call since Stop failed to  *)
(* report it: backoffs that are not over do not keep Stop from trying.     *)
StopTriesAll ==
    pc = "finished" => before \subseteq reported \cup failed \cup dropped \cup tried

(* Stop returns, also when the tracker is down.                            *)
StopReturns == stopped ~> pc = "finished"

(* While the advertiser runs, every hash that is enqueued is reported,     *)
(* given up or dropped in the end.                                         *)
HashSettles ==
    \A i \in Item :
        i \notin fresh ~> (stopped \/ i \in reported \cup failed \cup dropped)

=============================================================================
