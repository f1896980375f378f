------------------------ MODULE NotificationDelivery ------------------------
(***************************************************************************)
(* Delivery of notification mails (notifications/delivery.py): a row of    *)
(* notifications_log for a user and an event is enqueued by a crawl,       *)
(* claimed in a batch by a worker, sent, and marked.                       *)
(*                                                                         *)
(* A claim counts an attempt but neither changes the status nor leaves a   *)
(* lock, so a row stays claimable while a worker has it; the mail is sent  *)
(* between two transactions.                                               *)
(***************************************************************************)
EXTENDS Naturals, FiniteSets

CONSTANTS
    Worker,        \* processes that run process_pending_notifications
    Note,          \* (user, event) pairs of the mail channel
    MaxAttempts,   \* MAX_ATTEMPTS
    BatchLimit,    \* size of a batch
    MaxFaults      \* bound: exceptions of storage, lost answers, crashes

VARIABLES
    log,         \* log[n]: status of the row of n
    attempts,    \* attempts[n] of the row
    reachable,   \* notes whose recipient has an address and whose event exists
    worker,      \* worker[w]: the batch a worker still has, and where it is
    mails,       \* history: mails the provider accepted for n
    met,         \* history: notes two workers had at the same time
    blurred,     \* history: notes accepted with their record lost
    unmarked,    \* history: notes whose attempt ended without a mark
    faults

rows == <<log, attempts>>
history == <<met, blurred, unmarked>>
vars == <<rows, reachable, worker, mails, history, faults>>

-----------------------------------------------------------------------------
Status == {"none", "pending", "sent", "failed", "skipped"}
NoNote == "no note"

\* A worker between two batches has an empty one.
Between == [at |-> "next", batch |-> {}, note |-> NoNote]

Init ==
    /\ log = [n \in Note |-> "none"] /\ attempts = [n \in Note |-> 0]
    /\ reachable \in SUBSET Note
    /\ worker = [w \in Worker |-> Between]
    /\ mails = [n \in Note |-> 0]
    /\ met = {} /\ blurred = {} /\ unmarked = {} /\ faults = 0

\* Variant: enqueueing an event again makes its rows pending again.
EnqueuedAgain(old) == "pending"

\* insert ... on conflict do nothing.
Enqueued(old) == IF old = "none" THEN "pending" ELSE old

Enqueue(n) ==
    /\ log' = [log EXCEPT ![n] = Enqueued(@)]
    /\ UNCHANGED <<attempts, reachable, worker, mails, history, faults>>

ClaimablePending(n) == log[n] = "pending"

Claimable(n) ==
    \/ log[n] = "pending"
    \/ log[n] = "failed" /\ attempts[n] < MaxAttempts

\* A full batch, pending rows first.
Batch(batch) ==
    LET claimable == {n \in Note : Claimable(n)} IN
    /\ batch \subseteq claimable /\ batch # {}
    /\ Cardinality(batch) <= BatchLimit
    /\ Cardinality(batch) < BatchLimit => batch = claimable
    /\ (\E n \in batch : log[n] = "failed") =>
          \A n \in claimable \ batch : log[n] = "failed"

Claim(w) ==
    /\ worker[w] = Between
    /\ \E batch \in SUBSET Note :
        /\ Batch(batch)
        /\ attempts' = [n \in Note |->
              IF n \in batch THEN attempts[n] + 1 ELSE attempts[n]]
        /\ worker' = [worker EXCEPT ![w].batch = batch]
        /\ met' = met \cup
              (batch \cap UNION {worker[u].batch : u \in Worker \ {w}})
    /\ UNCHANGED <<log, reachable, mails, blurred, unmarked, faults>>

-----------------------------------------------------------------------------
(* _deliver_one, for a note of the batch.                                  *)

\* The worker goes on with its note at `at'.
Goes(w, at) == worker' = [worker EXCEPT ![w].at = at]

\* The worker is done with its note, or with n.
Leaves(w, n) ==
    worker' = [worker EXCEPT ![w] = [Between EXCEPT !.batch = worker[w].batch \ {n}]]

Skip(w, n) ==
    /\ worker[w].at = "next" /\ n \in worker[w].batch
    /\ n \notin reachable
    /\ log' = [log EXCEPT ![n] = "skipped"]
    /\ Leaves(w, n)
    /\ UNCHANGED <<attempts, reachable, mails, history, faults>>

Address(w, n) ==
    /\ worker[w].at = "next" /\ n \in worker[w].batch
    /\ n \in reachable
    /\ worker' = [worker EXCEPT ![w].at = "send", ![w].note = n]
    /\ UNCHANGED <<rows, reachable, mails, history, faults>>

Accept(w) ==
    /\ worker[w].at = "send"
    /\ mails' = [mails EXCEPT ![worker[w].note] = @ + 1]
    /\ Goes(w, "mark")
    /\ UNCHANGED <<rows, reachable, history, faults>>

Reject(w) ==
    /\ worker[w].at = "send"
    /\ Goes(w, "fail")
    /\ UNCHANGED <<rows, reachable, mails, history, faults>>

\* The provider accepts the mail and its answer is lost.
LoseAnswer(w) ==
    /\ worker[w].at = "send"
    /\ faults < MaxFaults /\ faults' = faults + 1
    /\ mails' = [mails EXCEPT ![worker[w].note] = @ + 1]
    /\ blurred' = blurred \cup {worker[w].note}
    /\ Goes(w, "fail")
    /\ UNCHANGED <<rows, reachable, met, unmarked>>

\* Variant: the row is marked and the note is not left.
MarkSentAndStay(w) ==
    /\ worker[w].at = "mark"
    /\ log' = [log EXCEPT ![worker[w].note] = "sent"]
    /\ worker' = [worker EXCEPT ![w].at = "next", ![w].note = NoNote]
    /\ UNCHANGED <<attempts, reachable, mails, history, faults>>

MarkSent(w) ==
    /\ worker[w].at = "mark"
    /\ log' = [log EXCEPT ![worker[w].note] = "sent"]
    /\ Leaves(w, worker[w].note)
    /\ UNCHANGED <<attempts, reachable, mails, history, faults>>

\* The transaction that marks the row raises, committed or not; the batch
\* loop marks the row as failed.
MarkSentRaises(w) ==
    /\ worker[w].at = "mark"
    /\ faults < MaxFaults /\ faults' = faults + 1
    /\ \E mark \in {"sent", log[worker[w].note]} :
          log' = [log EXCEPT ![worker[w].note] = mark]
    /\ blurred' = blurred \cup {worker[w].note}
    /\ Goes(w, "fail")
    /\ UNCHANGED <<attempts, reachable, mails, met, unmarked>>

\* The transaction that reads recipient and event raises.
AddressRaises(w, n) ==
    /\ worker[w].at = "next" /\ n \in worker[w].batch
    /\ faults < MaxFaults /\ faults' = faults + 1
    /\ worker' = [worker EXCEPT ![w].at = "fail", ![w].note = n]
    /\ UNCHANGED <<rows, reachable, mails, history>>

\* _mark_failed, whatever the row says by now.
MarkFailed(w) ==
    /\ worker[w].at = "fail"
    /\ log' = [log EXCEPT ![worker[w].note] = "failed"]
    /\ Leaves(w, worker[w].note)
    /\ UNCHANGED <<attempts, reachable, mails, history, faults>>

\* _mark_failed swallows the exception of its transaction.
MarkFailedRaises(w) ==
    /\ worker[w].at = "fail"
    /\ faults < MaxFaults /\ faults' = faults + 1
    /\ unmarked' = unmarked \cup {worker[w].note}
    /\ Leaves(w, worker[w].note)
    /\ UNCHANGED <<rows, reachable, mails, met, blurred>>

\* The worker is killed with what is left of its batch.
Crash(w) ==
    /\ worker[w].batch # {}
    /\ faults < MaxFaults /\ faults' = faults + 1
    /\ unmarked' = unmarked \cup worker[w].batch
    /\ blurred' = blurred \cup
          (IF worker[w].at = "mark" THEN {worker[w].note} ELSE {})
    /\ worker' = [worker EXCEPT ![w] = Between]
    /\ UNCHANGED <<rows, reachable, mails, met>>

-----------------------------------------------------------------------------
Deliver(w) ==
    \/ \E n \in Note : Skip(w, n) \/ Address(w, n)
    \/ Accept(w)
    \/ Reject(w)
    \/ MarkSent(w)
    \/ MarkFailed(w)

Fail(w) ==
    \/ LoseAnswer(w)
    \/ MarkSentRaises(w)
    \/ \E n \in Note : AddressRaises(w, n)
    \/ MarkFailedRaises(w)
    \/ Crash(w)

Next ==
    \/ \E n \in Note : Enqueue(n)
    \/ \E w \in Worker : Claim(w) \/ Deliver(w) \/ Fail(w)

Spec == Init /\ [][Next]_vars

\* A worker that runs goes on, and the schedule starts one again and again.
Fairness == \A w \in Worker : WF_vars(Deliver(w)) /\ WF_vars(Claim(w))

FairSpec == Spec /\ Fairness

-----------------------------------------------------------------------------
(* Properties.                                                             *)

\* Shape of the table and the workers; a row that is not there has not been
\* tried, and nothing is mailed to nobody.
TypeOK ==
    /\ log \in [Note -> Status] /\ attempts \in [Note -> Nat]
    /\ reachable \subseteq Note
    /\ worker \in [Worker -> [at : {"next", "send", "mark", "fail"},
                             batch : SUBSET Note, note : Note \cup {NoNote}]]
    /\ mails \in [Note -> Nat]
    /\ \A w \in Worker :
          worker[w].at # "next" => worker[w].note \in worker[w].batch
    /\ \A n \in Note :
          /\ log[n] = "none" => attempts[n] = 0
          /\ mails[n] > 0 => n \in reachable /\ attempts[n] > 0
    /\ met \cup blurred \cup unmarked \subseteq Note /\ faults \in 0..MaxFaults

\* A mail goes out twice only where two workers had its row together or the
\* record of a mail that had gone out was lost: enqueueing an event again and
\* retrying what failed send nothing again (0001_init.sql:165, delivery.py:91).
MailedOnce ==
    \A n \in Note : mails[n] > 1 => n \in met \cup blurred

\* A row that was sent stays so, with the same exceptions: no retry and no
\* late failure takes the mark away (delivery.py:248 writes whatever it says).
SentIsFinal ==
    [][\A n \in Note : log[n] = "sent" /\ log'[n] # "sent"
                          => n \in met \cup blurred]_vars

\* The number of attempts is bounded: more than MaxAttempts of them means that
\* one ended without a mark or two ran together.
AttemptsBounded ==
    \A n \in Note : attempts[n] > MaxAttempts => n \in met \cup unmarked

\* Neither mails nor attempts run away, apart from those exceptions.
MailIsBounded == TypeOK /\ MailedOnce /\ AttemptsBounded

\* No notification is forgotten: what was enqueued is sent or skipped, or fails
\* with its attempts used up.
EveryNoteSettles ==
    \A n \in Note :
        log[n] = "pending"
          ~> \/ log[n] \in {"sent", "skipped"}
             \/ log[n] = "failed" /\ attempts[n] >= MaxAttempts

\* "notification log (dedup: never double-notify)" (0001_init.sql:154).
NeverDoubleNotify == \A n \in Note : mails[n] <= 1

=============================================================================
