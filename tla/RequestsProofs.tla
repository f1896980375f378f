--------------------------- MODULE RequestsProofs ---------------------------
(***************************************************************************)
(* Proofs about the bounded retry of a capability, for any clients,        *)
(* executors, keys and nodes, about the turns that a browser shows, about  *)
(* the runner of the migrations and about the backfill of chat messages.   *)
(*                                                                         *)
(* An executor between its two steps of a transaction owns the row it has  *)
(* locked: nobody else writes it, so what the first step saw is still true *)
(* of the row when the second one writes (ExecSound).  The run is not      *)
(* locked, but it only moves one way: once it is not what the plan was made*)
(* from, it never is again (MovedStays).                                   *)
(*                                                                         *)
(* At the end the composition MCRequests: the theorems about the versions  *)
(* of answers and their pages (AnswerLineageProofs) and those of this      *)
(* module hold of it.                                                      *)
(***************************************************************************)
EXTENDS MCRequests, DurableRunProofs, SequenceTheorems

-----------------------------------------------------------------------------
(* The inductive invariant.                                                *)

Working == {"claiming", "finishing"}

RowSound(k) ==
    /\ rows[k].status = "absent" => rows[k].node = NoNode
    /\ rows[k].status # "absent" => rows[k].node \in Node
    /\ rows[k].status # "running" => rows[k].left = 0
    /\ rows[k].version <= run.version

ClientSound(c) ==
    client[c].pc = "create" => client[c].key \in Key /\ client[c].node \in Node

\* What an executor that is at work may believe of its row.
ExecSound(w) ==
    LET k == exec[w].key IN
    exec[w].pc # "idle" =>
        /\ k \in Key
        /\ rows[k].status # "absent"
        /\ exec[w].lease # NoId
        /\ exec[w].late => Moved(k)
        /\ exec[w].pc = "execute" => ~exec[w].late
        /\ exec[w].pc \in {"finish", "finishing"} => exec[w].answer # "none"
        /\ exec[w].pc \in Working =>
              /\ rows[k].lock = w
              /\ exec[w].late => exec[w].drift # "none"
        /\ exec[w].pc = "claiming" => rows[k].status \in {"pending", "running"}
        /\ exec[w].pc = "finishing" =>
              rows[k].status = "running" /\ rows[k].lease = exec[w].lease

\* The lock of a row is held by a transaction that is under way.
LockSound ==
    \A k \in Key : \A w \in Executor :
        rows[k].lock = w => exec[w].pc \in Working /\ exec[w].key = k

RowsSound == \A k \in Key : RowSound(k)
ExecsSound == \A w \in Executor : ExecSound(w)
ClientsSound == \A c \in Client : ClientSound(c)

RetryInv ==
    /\ TypeOK
    /\ LeaseMeansOpen
    /\ RowsSound
    /\ ExecsSound
    /\ ClientsSound
    /\ LockSound
    /\ OneRetryPerNode

-----------------------------------------------------------------------------
(* How a step changes a row.                                               *)

SameRow(k) == rows'[k] = rows[k]

AgedRow(k) ==
    rows[k].left > 0 /\ rows'[k] = [rows[k] EXCEPT !.left = rows[k].left - 1]

\* w's transaction begins, is rolled back, or commits.
TakenRow(k, w) ==
    /\ exec[w].key = k /\ exec[w].pc # "idle" /\ rows[k].lock = NoExecutor
    /\ rows[k].status \in {"pending", "running"}
    /\ rows'[k] = [rows[k] EXCEPT !.lock = w]

FreedRow(k, w) ==
    rows[k].lock = w /\ rows'[k] = [rows[k] EXCEPT !.lock = NoExecutor]

WrittenRow(k, w) ==
    /\ exec[w].key = k /\ exec[w].pc \in Working
    /\ rows'[k] \in Row /\ ValidRow(rows'[k])
    /\ rows'[k].node = rows[k].node /\ rows'[k].version = rows[k].version
    /\ rows'[k].lock = NoExecutor
    /\ rows'[k].status \in {"running"} \cup Settled
    /\ rows'[k].status # "running" => rows'[k].left = 0
    /\ exec[w].pc = "finishing" /\ exec[w].drift # "none"
           => rows'[k].status = "failed"

ByExecutor(w) ==
    /\ rows' \in [Key -> Row]
    /\ \A k \in Key :
          SameRow(k) \/ TakenRow(k, w) \/ FreedRow(k, w) \/ WrittenRow(k, w)

\* w is in no transaction after the step.
Unlocked(w) == \A k \in Key : rows'[k].lock # w

CreatedRow(k, n) ==
    /\ rows[k].status = "absent" /\ ForNode(n) = {} /\ n \in Node
    /\ rows' = [rows EXCEPT ![k] = [Absent EXCEPT !.status = "pending",
                                        !.node = n, !.version = run.version]]

ExecutorStep(w) ==
    \/ \E k \in Key : Call(w, k)
    \/ ClaimRead(w) \/ ClaimWrite(w) \/ Answer(w)
    \/ FinishRead(w) \/ FinishWrite(w) \/ FinishFails(w) \/ Crash(w)

ClientStep(c) == Create(c) \/ \E k \in Key, n \in Node : Plan(c, k, n)

LEMMA NextCases ==
    ASSUME [Next]_vars
    PROVE  \/ RunMoves
           \/ Age
           \/ \E c \in Client : ClientStep(c)
           \/ \E w \in Executor : ExecutorStep(w)
           \/ UNCHANGED vars
BY DEF Next, ClientStep, ExecutorStep

-----------------------------------------------------------------------------
(* The run moves one way.                                                  *)

LEMMA RunMovesShape ==
    ASSUME RepoTypeOK, LeaseMeansOpen, RunMoves
    PROVE  RepoStep /\ RepoTypeOK'
<1>1. run \in RunRow /\ run.version + 1 \in Id /\ 0 \in Nat /\ run.lease \in Nat
      /\ run.version \in Nat
    BY DEF RepoTypeOK, RunRow, Id
<1>2. CASE AcquireLease(run.version + 1, run.version + 1, 0)
    BY <1>1, <1>2, AcquireShape, AcquireType DEF RepoStep
<1>3. CASE RequestCancellation(run.version + 1)
    BY <1>1, <1>3, RequestShape, RequestType DEF RepoStep
<1>4. ASSUME NEW s \in State, run.lease # NoId,
             AppendStateTransition(run.lease, run.version + 1, run.version, 0, s)
      PROVE  RepoStep /\ RepoTypeOK'
    BY <1>1, <1>4, AppendShape, AppendType DEF RepoStep
<1> QED
    BY <1>2, <1>3, <1>4 DEF RunMoves

\* The run as a retry sees it: its version grows, a cancellation stays.
RunGrows ==
    /\ run.version \in Nat /\ run'.version \in Nat
    /\ run.version <= run'.version
    /\ run.cancel # NoId => run'.cancel # NoId

LEMMA StepRun ==
    ASSUME RetryInv, [Next]_vars
    PROVE  RepoTypeOK' /\ LeaseMeansOpen' /\ RunGrows
<1>1. RepoTypeOK /\ LeaseMeansOpen /\ run \in RunRow /\ run.version \in Nat
    BY DEF RetryInv, TypeOK, RepoTypeOK, RunRow
<1>2. CASE UNCHANGED repoVars
    BY <1>1, <1>2 DEF repoVars, RepoTypeOK, LeaseMeansOpen, RunGrows
<1>3. CASE RunMoves
  <2>1. RepoStep /\ RepoTypeOK'
      BY <1>1, <1>3, RunMovesShape
  <2>2. run.cancel # NoId => run'.cancel # NoId
      BY <1>1, <2>1, JournalGrows DEF RepoTypeOK
  <2>3. run'.version \in {run.version, run.version + 1}
      BY <2>1 DEF RepoStep, Quiet, Inserted
  <2> QED
      BY <1>1, <2>1, <2>2, <2>3, LeaseMeansOpenKept DEF RunGrows
<1> QED
    BY <1>2, <1>3
       DEF Next, Age, Create, Plan, Call, ClaimRead, ClaimWrite, Answer, FinishRead,
           FinishWrite, FinishFails, Crash, vars, repoVars

\* A run that is not what a plan was made from never is again.
LEMMA MovedStays ==
    ASSUME RunGrows, NEW v \in Nat, v <= run.version, Drift(v) # "none"
    PROVE  Drift(v)' # "none"
BY DEF RunGrows, Drift

-----------------------------------------------------------------------------
(* The steps of an executor, as the rows see them.                         *)

\* A row that a transaction holds has no result yet.
LEMMA WorkingRow ==
    ASSUME RetryInv, NEW w \in Executor, exec[w].pc \in Working
    PROVE  LET k == exec[w].key IN
           /\ k \in Key /\ rows[k] \in Row /\ rows[k].lock = w
           /\ rows[k].status \in {"pending", "running"}
           /\ rows[k].result = "none" /\ rows[k].code = "none"
           /\ exec[w] \in ExecutorLocal
<1> DEFINE k == exec[w].key
<1>1. k \in Key /\ rows[k].lock = w /\ rows[k].status \in {"pending", "running"}
    BY DEF RetryInv, ExecsSound, ExecSound, Working
<1>2. rows[k] \in Row /\ ValidRow(rows[k]) /\ exec[w] \in ExecutorLocal
    BY <1>1 DEF RetryInv, TypeOK
<1> QED
    BY <1>1, <1>2 DEF ValidRow

\* Writing one row leaves the others alone.
LEMMA OneRowWritten ==
    ASSUME RetryInv, NEW w \in Executor, exec[w].pc \in Working, NEW row \in Row,
           rows' = [rows EXCEPT ![exec[w].key] = row], ValidRow(row),
           row.node = rows[exec[w].key].node,
           row.version = rows[exec[w].key].version,
           row.lock = NoExecutor, row.status \in {"running"} \cup Settled,
           row.status # "running" => row.left = 0,
           exec[w].pc = "finishing" /\ exec[w].drift # "none" => row.status = "failed"
    PROVE  ByExecutor(w) /\ Unlocked(w)
<1> DEFINE k == exec[w].key
<1>1. k \in Key /\ rows \in [Key -> Row]
    BY WorkingRow DEF RetryInv, TypeOK
<1>2. rows' \in [Key -> Row] /\ rows'[k] = row
    BY <1>1
<1>3. WrittenRow(k, w)
    BY <1>2 DEF WrittenRow
<1>4. \A j \in Key : j # k => SameRow(j)
    BY <1>1 DEF SameRow
<1>5. \A j \in Key : j # k => rows[j].lock # w
    BY DEF RetryInv, LockSound
<1>6. row.lock # w
    BY CapabilityRetryAssumption DEF NoExecutor
<1>7. Unlocked(w)
    BY <1>2, <1>4, <1>5, <1>6 DEF Unlocked, SameRow
<1> QED
    BY <1>2, <1>3, <1>4, <1>7 DEF ByExecutor

LEMMA FailWrites ==
    ASSUME RetryInv, NEW w \in Executor, exec[w].pc \in Working,
           NEW code \in Code \ {"none"}, FailLockedRetry(exec[w].key, code)
    PROVE  ByExecutor(w) /\ Unlocked(w)
<1> DEFINE k == exec[w].key
           row == [rows[k] EXCEPT !.status = "failed", !.code = code,
                       !.lease = NoId, !.left = 0, !.lock = NoExecutor]
<1>1. k \in Key /\ rows[k] \in Row /\ rows \in [Key -> Row] /\ rows[k].result = "none"
    BY WorkingRow DEF RetryInv, TypeOK
<1>2. rows' = [rows EXCEPT ![k] = row]
    BY <1>1 DEF FailLockedRetry, Row
<1>3. /\ row \in Row /\ row.node = rows[k].node /\ row.version = rows[k].version
      /\ row.lock = NoExecutor /\ row.status = "failed" /\ row.left = 0
      /\ row.code = code /\ row.result = "none" /\ row.lease = NoId
  <2>1. 0 \in 0..RetryTTL /\ NoId \in Nat /\ "failed" \in Status /\ code \in Code
      BY CapabilityRetryAssumption DEF Status, NoId
  <2> QED
      BY <1>1, <2>1 DEF Row
<1>4. ValidRow(row)
    BY <1>3 DEF ValidRow
<1>5. row.status \in {"running"} \cup Settled /\ row.status # "running"
    BY <1>3 DEF Settled
<1> HIDE DEF row
<1> QED
    BY <1>2, <1>3, <1>4, <1>5, OneRowWritten

LEMMA RecordedWrites ==
    ASSUME RetryInv, NEW w \in Executor, exec[w].pc = "finishing", Recorded(w)
    PROVE  ByExecutor(w) /\ Unlocked(w)
<1> DEFINE k == exec[w].key
           answer == exec[w].answer
           row == [rows[k] EXCEPT
                !.status = IF answer = "success" THEN "succeeded" ELSE "failed",
                !.result = IF answer = "error" THEN "none" ELSE answer,
                !.code = IF answer = "error" THEN "unavailable" ELSE "none",
                !.lease = NoId, !.left = 0, !.lock = NoExecutor]
<1>1. exec[w].pc \in Working
    BY DEF Working
<1>2. /\ k \in Key /\ rows[k] \in Row /\ rows \in [Key -> Row]
      /\ exec[w].drift \in Code
    BY <1>1, WorkingRow DEF RetryInv, TypeOK, ExecutorLocal
<1>3. answer \in {"success", "failure", "error"}
  <2>1. answer # "none"
      BY DEF RetryInv, ExecsSound, ExecSound
  <2>2. exec[w] \in ExecutorLocal
      BY <1>1, WorkingRow
  <2> QED
      BY <2>1, <2>2 DEF ExecutorLocal
<1>4. CASE exec[w].drift # "none"
  <2>1. FailLockedRetry(k, exec[w].drift)
      BY <1>4 DEF Recorded
  <2> QED
      BY <1>1, <1>2, <1>4, <2>1, FailWrites
<1>5. CASE exec[w].drift = "none"
  <2>1. rows' = [rows EXCEPT ![k] = row]
      BY <1>2, <1>5 DEF Recorded, Row
  <2>2. /\ row.node = rows[k].node /\ row.version = rows[k].version
        /\ row.lock = NoExecutor /\ row.left = 0 /\ row.lease = NoId
        /\ row.status = IF answer = "success" THEN "succeeded" ELSE "failed"
        /\ row.result = IF answer = "error" THEN "none" ELSE answer
        /\ row.code = IF answer = "error" THEN "unavailable" ELSE "none"
      BY <1>2 DEF Row
  <2>3. row \in Row
    <3>1. /\ 0 \in 0..RetryTTL /\ NoId \in Nat
          /\ (IF answer = "success" THEN "succeeded" ELSE "failed") \in Status
          /\ (IF answer = "error" THEN "none" ELSE answer) \in Result
          /\ (IF answer = "error" THEN "unavailable" ELSE "none") \in Code
        BY <1>3, CapabilityRetryAssumption DEF Status, NoId, Result, Code
    <3> HIDE DEF answer
    <3> QED
        BY <1>2, <3>1 DEF Row
  <2>4. ValidRow(row) /\ row.status \in {"running"} \cup Settled /\ row.status # "running"
      BY <1>3, <2>2 DEF ValidRow, Settled
  <2> HIDE DEF row
  <2> QED
      BY <1>1, <1>5, <2>1, <2>2, <2>3, <2>4, OneRowWritten
<1> QED
    BY <1>4, <1>5

LEMMA ReleasedFrees ==
    ASSUME RetryInv, NEW w \in Executor, rows' = Released(w)
    PROVE  ByExecutor(w) /\ Unlocked(w)
<1>1. rows \in [Key -> Row]
    BY DEF RetryInv, TypeOK
<1>2. ASSUME NEW k \in Key
      PROVE  /\ rows'[k] \in Row /\ (SameRow(k) \/ FreedRow(k, w))
             /\ rows'[k].lock # w
  <2>1. /\ rows[k] \in Row /\ [rows[k] EXCEPT !.lock = NoExecutor] \in Row
        /\ [rows[k] EXCEPT !.lock = NoExecutor].lock = NoExecutor
      BY <1>1 DEF Row
  <2>2. NoExecutor # w
      BY CapabilityRetryAssumption DEF NoExecutor
  <2> QED
      BY <2>1, <2>2 DEF Released, SameRow, FreedRow
<1>3. rows' \in [Key -> Row]
    BY <1>2 DEF Released
<1> QED
    BY <1>2, <1>3 DEF ByExecutor, Unlocked

LEMMA LockTakes ==
    ASSUME RetryInv, NEW w \in Executor, exec[w].pc # "idle",
           rows[exec[w].key].lock = NoExecutor,
           rows[exec[w].key].status \in {"pending", "running"}, Lock(exec[w].key, w)
    PROVE  ByExecutor(w)
<1> DEFINE k == exec[w].key
<1>1. rows \in [Key -> Row] /\ k \in Key
    BY DEF RetryInv, TypeOK, ExecsSound, ExecSound
<1>2. /\ rows' \in [Key -> Row] /\ rows'[k] = [rows[k] EXCEPT !.lock = w]
      /\ \A j \in Key : j # k => rows'[j] = rows[j]
  <2>1. [rows[k] EXCEPT !.lock = w] \in Row
      BY <1>1 DEF Row
  <2>2. rows' = [rows EXCEPT ![k] = [rows[k] EXCEPT !.lock = w]]
      BY <1>1 DEF Lock, Row
  <2> HIDE DEF k
  <2> QED
      BY <1>1, <2>1, <2>2
<1> QED
    BY <1>2 DEF ByExecutor, SameRow, TakenRow

LEMMA ClaimWrites ==
    ASSUME RetryInv, NEW w \in Executor, ClaimWrite(w)
    PROVE  ByExecutor(w) /\ Unlocked(w)
<1> DEFINE k == exec[w].key
<1>1. exec[w].pc = "claiming" /\ exec[w].pc \in Working
    BY DEF ClaimWrite, Working
<1>2. /\ k \in Key /\ rows[k] \in Row /\ rows \in [Key -> Row]
      /\ exec[w] \in ExecutorLocal
      /\ rows[k].result = "none" /\ rows[k].code = "none"
      /\ exec[w].lease # NoId
    BY <1>1, WorkingRow DEF RetryInv, TypeOK, ExecsSound, ExecSound
<1>3. CASE exec[w].drift # "none"
    BY <1>1, <1>2, <1>3, FailWrites DEF ClaimWrite, ExecutorLocal
<1>4. ASSUME NEW left \in 0..RetryTTL,
             rows' = [rows EXCEPT ![k].status = "running", ![k].lease = exec[w].lease,
                                  ![k].left = left, ![k].lock = NoExecutor]
      PROVE  ByExecutor(w) /\ Unlocked(w)
  <2> DEFINE row == [rows[k] EXCEPT !.status = "running", !.lease = exec[w].lease,
                         !.left = left, !.lock = NoExecutor]
  <2>1. rows' = [rows EXCEPT ![k] = row]
      BY <1>2, <1>4 DEF Row
  <2>2. /\ row \in Row /\ row.node = rows[k].node /\ row.version = rows[k].version
        /\ row.lock = NoExecutor /\ row.status = "running"
        /\ row.lease = exec[w].lease /\ row.result = "none" /\ row.code = "none"
      BY <1>2 DEF Row, Status, ExecutorLocal
  <2>3. ValidRow(row) /\ row.status \in {"running"} \cup Settled
      BY <1>2, <2>2 DEF ValidRow
  <2> HIDE DEF row
  <2> QED
      BY <1>1, <2>1, <2>2, <2>3, OneRowWritten
<1> QED
    BY <1>3, <1>4 DEF ClaimWrite

LEMMA ExecutorRows ==
    ASSUME RetryInv, NEW w \in Executor, ExecutorStep(w)
    PROVE  ByExecutor(w) /\ UNCHANGED client
<1>1. ASSUME UNCHANGED rows PROVE ByExecutor(w)
    BY <1>1 DEF ByExecutor, SameRow, RetryInv, TypeOK
<1>2. ASSUME ClaimRead(w) PROVE ByExecutor(w)
    BY <1>1, <1>2, LockTakes DEF ClaimRead
<1>3. ASSUME FinishRead(w) PROVE ByExecutor(w)
    BY <1>1, <1>3, LockTakes DEF FinishRead, HoldsLease
<1>4. ASSUME FinishWrite(w) PROVE ByExecutor(w)
    BY <1>4, RecordedWrites DEF FinishWrite
<1>5. ASSUME FinishFails(w) PROVE ByExecutor(w)
    BY <1>5, RecordedWrites, ReleasedFrees DEF FinishFails
<1>6. ASSUME Crash(w) PROVE ByExecutor(w)
    BY <1>6, ReleasedFrees DEF Crash
<1>7. ByExecutor(w)
    BY <1>1, <1>2, <1>3, <1>4, <1>5, <1>6, ClaimWrites
       DEF ExecutorStep, Call, Answer
<1>8. UNCHANGED client
    BY DEF ExecutorStep, Call, Answer, ClaimRead, ClaimWrite, FinishRead,
           FinishWrite, FinishFails, Crash
<1> QED
    BY <1>7, <1>8

-----------------------------------------------------------------------------
(* What each kind of change keeps of a row.                                *)

\* The row stays valid and keeps what it was made for; a settled one is kept as
\* it is, and one that u's transaction holds is not touched by anybody else.
RowKept(k) ==
    /\ rows'[k] \in Row /\ ValidRow(rows'[k]) /\ RowSound(k)'
    /\ rows'[k].node = rows[k].node /\ rows'[k].version = rows[k].version
    /\ rows'[k].status = "absent" <=> rows[k].status = "absent"
    /\ rows[k].status \in Settled => rows'[k] = rows[k]

LEMMA TypedRow ==
    ASSUME RetryInv, NEW k \in Key
    PROVE  rows[k] \in Row /\ ValidRow(rows[k]) /\ RowSound(k) /\ rows[k].version \in Nat
BY DEF RetryInv, TypeOK, RowsSound, Row

LEMMA SameRowKept ==
    ASSUME RetryInv, RunGrows, NEW k \in Key, SameRow(k)
    PROVE  RowKept(k)
<1>1. rows[k].version <= run'.version
    BY TypedRow DEF RunGrows, RowSound
<1> QED
    BY <1>1, TypedRow DEF SameRow, RowKept, RowSound

LEMMA ExecutorRowKept ==
    ASSUME RetryInv, RunGrows, NEW w \in Executor, ByExecutor(w), NEW k \in Key
    PROVE  /\ RowKept(k)
           /\ \A u \in Executor : u # w /\ rows[k].lock = u => SameRow(k)
           /\ \A u \in Executor : u # w /\ rows'[k].lock = u => SameRow(k)
<1>1. /\ rows[k] \in Row /\ ValidRow(rows[k]) /\ RowSound(k) /\ rows'[k] \in Row
      /\ rows[k].version <= run'.version
    BY TypedRow DEF ByExecutor, RunGrows, RowSound
<1>2. NoExecutor \notin Executor
    BY CapabilityRetryAssumption DEF NoExecutor
<1>3. CASE SameRow(k)
    BY <1>3, SameRowKept
<1>4. CASE TakenRow(k, w)
  <2>1. /\ rows'[k].status = rows[k].status /\ rows'[k].node = rows[k].node
        /\ rows'[k].version = rows[k].version /\ rows'[k].left = rows[k].left
        /\ rows'[k].lease = rows[k].lease /\ rows'[k].result = rows[k].result
        /\ rows'[k].code = rows[k].code /\ rows'[k].lock = w
      BY <1>1, <1>4 DEF TakenRow, Row
  <2>2. ValidRow(rows'[k]) /\ RowSound(k)'
      BY <1>1, <2>1 DEF ValidRow, RowSound
  <2>3. rows[k].status \notin Settled /\ rows[k].lock \notin Executor
      BY <1>2, <1>4 DEF TakenRow, Settled
  <2> QED
      BY <1>1, <2>1, <2>2, <2>3 DEF RowKept
<1>5. CASE FreedRow(k, w)
  <2>1. /\ rows'[k].status = rows[k].status /\ rows'[k].node = rows[k].node
        /\ rows'[k].version = rows[k].version /\ rows'[k].left = rows[k].left
        /\ rows'[k].lease = rows[k].lease /\ rows'[k].result = rows[k].result
        /\ rows'[k].code = rows[k].code /\ rows'[k].lock = NoExecutor
      BY <1>1, <1>5 DEF FreedRow, Row
  <2>2. ValidRow(rows'[k]) /\ RowSound(k)'
      BY <1>1, <2>1 DEF ValidRow, RowSound
  <2>3. rows[k].status \notin Settled /\ rows[k].lock = w
      BY <1>5, WorkingRow DEF FreedRow, Settled, RetryInv, LockSound
  <2> QED
      BY <1>1, <1>2, <2>1, <2>2, <2>3 DEF RowKept
<1>6. CASE WrittenRow(k, w)
  <2>1. /\ rows[k].status \in {"pending", "running"} /\ rows[k].lock = w
        /\ rows[k].node \in Node
      BY <1>1, <1>6, WorkingRow DEF WrittenRow, RowSound
  <2>2. /\ ValidRow(rows'[k]) /\ rows'[k].lock = NoExecutor
        /\ rows'[k].node = rows[k].node /\ rows'[k].version = rows[k].version
        /\ rows'[k].status \in {"running", "succeeded", "failed"}
        /\ rows'[k].status # "running" => rows'[k].left = 0
      BY <1>6 DEF WrittenRow, Settled
  <2>3. RowSound(k)'
      BY <1>1, <2>1, <2>2 DEF RowSound
  <2> QED
      BY <1>1, <1>2, <2>1, <2>2, <2>3 DEF RowKept, Settled
<1> QED
    BY <1>3, <1>4, <1>5, <1>6 DEF ByExecutor

LEMMA AgedRows ==
    ASSUME RetryInv, RunGrows, Age
    PROVE  /\ rows' \in [Key -> Row]
           /\ \A k \in Key : RowKept(k) /\ rows'[k].lock = rows[k].lock
                             /\ rows'[k].status = rows[k].status
                             /\ rows'[k].lease = rows[k].lease
<1>1. ASSUME NEW k \in Key
      PROVE  /\ RowKept(k) /\ rows'[k].lock = rows[k].lock
             /\ rows'[k].status = rows[k].status /\ rows'[k].lease = rows[k].lease
  <2>1. /\ rows[k] \in Row /\ ValidRow(rows[k]) /\ RowSound(k)
        /\ rows[k].version <= run'.version
      BY TypedRow DEF RunGrows, RowSound
  <2>2. CASE rows[k].left > 0
    <3>1. rows'[k] = [rows[k] EXCEPT !.left = rows[k].left - 1]
        BY <2>2 DEF Age
    <3>2. rows[k].left - 1 \in 0..RetryTTL
        BY <2>1, <2>2, CapabilityRetryAssumption DEF Row
    <3>3. rows'[k] \in Row
        BY <2>1, <3>1, <3>2 DEF Row
    <3>4. /\ rows'[k].status = rows[k].status /\ rows'[k].node = rows[k].node
          /\ rows'[k].version = rows[k].version /\ rows'[k].lock = rows[k].lock
          /\ rows'[k].lease = rows[k].lease /\ rows'[k].result = rows[k].result
          /\ rows'[k].code = rows[k].code
        BY <2>1, <3>1 DEF Row
    <3>5. rows[k].status = "running"
        BY <2>1, <2>2 DEF RowSound
    <3>6. ValidRow(rows'[k]) /\ RowSound(k)'
        BY <2>1, <3>4, <3>5 DEF ValidRow, RowSound
    <3> QED
        BY <3>3, <3>4, <3>5, <3>6 DEF RowKept, Settled
  <2>3. CASE ~(rows[k].left > 0)
    <3>1. SameRow(k)
        BY <2>3 DEF Age, SameRow
    <3> QED
        BY <3>1, SameRowKept DEF SameRow
  <2> QED
      BY <2>2, <2>3
<1>2. rows' \in [Key -> Row]
    BY <1>1 DEF Age, RowKept
<1> QED
    BY <1>1, <1>2

\* A client creates at most one row, of a node that had none.
LEMMA ClientRows ==
    ASSUME RetryInv, NEW c \in Client, ClientStep(c)
    PROVE  UNCHANGED rows \/ \E k \in Key : \E n \in Node : CreatedRow(k, n)
<1>1. CASE Create(c)
  <2>1. client[c].key \in Key /\ client[c].node \in Node
      BY <1>1 DEF Create, RetryInv, ClientsSound, ClientSound
  <2>2. Drift(client[c].version) = "none" => client[c].version = run.version
      BY DEF Drift
  <2> QED
      BY <1>1, <2>1, <2>2 DEF Create, CreatedRow
<1> QED
    BY <1>1 DEF ClientStep, Plan

LEMMA CreatedRows ==
    ASSUME RetryInv, RunGrows, NEW k \in Key, NEW n \in Node, CreatedRow(k, n),
           run'.version = run.version
    PROVE  /\ rows' \in [Key -> Row]
           /\ \A j \in Key : ValidRow(rows'[j]) /\ RowSound(j)'
           /\ \A j \in Key : j # k => SameRow(j)
           /\ rows[k].status = "absent" /\ rows'[k].status = "pending"
           /\ rows'[k].node = n /\ rows'[k].lock = NoExecutor
<1> DEFINE row == [Absent EXCEPT !.status = "pending", !.node = n,
                                 !.version = run.version]
<1>1. /\ rows \in [Key -> Row] /\ rows[k].status = "absent" /\ run.version \in Nat
      /\ rows' = [rows EXCEPT ![k] = row] /\ n \in Node
    BY DEF RetryInv, TypeOK, CreatedRow, RunGrows
<1>2. /\ row.status = "pending" /\ row.node = n /\ row.version = run.version
      /\ row.lease = NoId /\ row.left = 0 /\ row.result = "none"
      /\ row.code = "none" /\ row.lock = NoExecutor
    BY DEF Absent
<1>3. row \in Row
  <2>1. 0 \in 0..RetryTTL
      BY CapabilityRetryAssumption
  <2>2. Absent \in Row /\ "pending" \in Status
      BY <2>1 DEF Absent, Row, Status, Result, Code, NoId
  <2> QED
      BY <1>1, <2>2 DEF Row
<1>4. ValidRow(row)
    BY <1>2 DEF ValidRow
<1>5. /\ rows' \in [Key -> Row] /\ rows'[k] = row
      /\ \A j \in Key : j # k => SameRow(j)
  <2> HIDE DEF row
  <2> QED
      BY <1>1, <1>3 DEF SameRow
<1>6. RowSound(k)'
    BY <1>1, <1>2, <1>5 DEF RowSound
<1>7. \A j \in Key : j # k => ValidRow(rows'[j]) /\ RowSound(j)'
    BY <1>5, SameRowKept DEF RowKept
<1> QED
    BY <1>1, <1>2, <1>4, <1>5, <1>6, <1>7

-----------------------------------------------------------------------------
(* Executors.                                                              *)

\* The run of a plan has moved for good.
LEMMA MovedKept ==
    ASSUME RetryInv, RunGrows, NEW k \in Key, rows'[k].version = rows[k].version,
           Moved(k)
    PROVE  Moved(k)'
<1>1. rows[k].version \in Nat /\ rows[k].version <= run.version
    BY TypedRow DEF RowSound
<1>2. Drift(rows[k].version)' # "none" \/ rows'[k].version # rows[k].version
    BY <1>1, MovedStays DEF Moved, Drift, RunGrows
<1> QED
    BY <1>1 DEF Moved, Drift, RunGrows

\* An executor that does not act keeps what it believes.
LEMMA OtherSound ==
    ASSUME RetryInv, RunGrows, NEW u \in Executor, exec'[u] = exec[u],
           NEW k, k = exec[u].key,
           k \in Key /\ rows[k].status # "absent" =>
              /\ rows'[k].status # "absent" /\ rows'[k].version = rows[k].version
              /\ rows[k].lock = u => /\ rows'[k].lock = u
                                     /\ rows'[k].status = rows[k].status
                                     /\ rows'[k].lease = rows[k].lease
    PROVE  ExecSound(u)'
<1>1. ExecSound(u)
    BY DEF RetryInv, ExecsSound
<1>2. CASE exec[u].pc = "idle"
    BY <1>2 DEF ExecSound
<1>3. CASE exec[u].pc # "idle"
  <2>1. k \in Key /\ rows[k].status # "absent"
      BY <1>1, <1>3 DEF ExecSound
  <2>2. Moved(k) => Moved(k)'
      BY <2>1, MovedKept
  <2>3. exec[u].pc \in Working => rows[k].lock = u
      BY <1>1, <1>3 DEF ExecSound
  <2>4. exec[u].pc \in {"claiming", "finishing"} => exec[u].pc \in Working
      BY DEF Working
  <2> QED
      BY <1>1, <1>3, <2>1, <2>2, <2>3, <2>4 DEF ExecSound
<1> QED
    BY <1>2, <1>3

\* An idle executor believes nothing.
LEMMA IdleKept ==
    ASSUME RetryInv, NEW w \in Executor, Hold(w, ExecutorIdle)
    PROVE  ExecSound(w)' /\ exec' \in [Executor -> ExecutorLocal]
<1>1. ExecutorIdle \in ExecutorLocal /\ ExecutorIdle.pc = "idle"
    BY DEF ExecutorIdle, ExecutorLocal, Code, NoKey, NoId
<1>2. exec \in [Executor -> ExecutorLocal]
    BY DEF RetryInv, TypeOK
<1>3. exec'[w].pc = "idle" /\ exec' \in [Executor -> ExecutorLocal]
    BY <1>1, <1>2 DEF Hold
<1> QED
    BY <1>3 DEF ExecSound

\* While neither the run nor the plan changes, the run has moved or not.
LEMMA MovedSame ==
    ASSUME UNCHANGED run, NEW k \in Key, rows'[k].version = rows[k].version
    PROVE  Moved(k)' <=> Moved(k)
BY DEF Moved, Drift

\* An executor at pc "claim" or "finish" has yet to see its row.
LEMMA WaitingSound ==
    ASSUME NEW w \in Executor, exec'[w].pc \in {"claim", "finish"},
           NEW k \in Key, exec'[w].key = k, rows'[k].status # "absent",
           exec'[w].lease # NoId, exec'[w].late => Moved(k)',
           exec'[w].pc = "finish" => exec'[w].answer # "none"
    PROVE  ExecSound(w)'
BY DEF ExecSound, Working

\* What the clock and the run say of a retry, in the local state of an executor.
Reading(local, pc, answer, k) ==
    [local EXCEPT !.pc = pc, !.answer = answer,
                  !.dead = ReadClock(k), !.late = Moved(k)]

LEMMA ReadingTyped ==
    ASSUME RetryInv, NEW k \in Key, NEW local \in ExecutorLocal,
           NEW pc \in {"claim", "finish"},
           NEW answer \in {"none", "success", "failure", "error"}
    PROVE  LET new == Reading(local, pc, answer, k)
           IN /\ new \in ExecutorLocal /\ new.pc = pc /\ new.answer = answer
              /\ new.key = local.key /\ new.lease = local.lease
              /\ new.late = Moved(k)
<1>1. ReadClock(k) \in Nat
    BY TypedRow DEF ReadClock, Row, NoId
<1>2. Moved(k) \in BOOLEAN
    BY DEF Moved
<1>3. \A dead \in Nat : \A late \in BOOLEAN :
         LET new == [local EXCEPT !.pc = pc, !.answer = answer,
                           !.dead = dead, !.late = late]
         IN /\ new \in ExecutorLocal /\ new.pc = pc /\ new.answer = answer
            /\ new.key = local.key /\ new.lease = local.lease
            /\ new.late = late
    BY DEF ExecutorLocal
<1> QED
    BY <1>1, <1>2, <1>3, Zenon DEF Reading

\* After finish raised, the executor is done or tries once more.
LEMMA RaisedSound ==
    ASSUME RetryInv, NEW w \in Executor, exec[w].pc # "idle", FinishRaised(w),
           UNCHANGED run, NEW k \in Key, k = exec[w].key,
           rows'[k].version = rows[k].version, rows'[k].status # "absent"
    PROVE  /\ ExecSound(w)'
           /\ exec' \in [Executor -> ExecutorLocal]
<1>1. /\ exec \in [Executor -> ExecutorLocal] /\ exec[w] \in ExecutorLocal
      /\ exec[w].lease # NoId
    BY DEF RetryInv, TypeOK, ExecsSound, ExecSound
<1>2. CASE exec[w].answer = "error"
    BY <1>2, IdleKept DEF FinishRaised
<1>3. CASE exec[w].answer # "error"
  <2> DEFINE local == Reading(exec[w], "finish", "error", k)
  <2>1. exec' = [exec EXCEPT ![w] = local]
      BY <1>3 DEF FinishRaised, Hold, Reading
  <2>2. /\ local \in ExecutorLocal /\ local.pc = "finish" /\ local.answer = "error"
        /\ local.key = exec[w].key /\ local.lease = exec[w].lease
        /\ local.late = Moved(k)
      BY <1>1, ReadingTyped
  <2> HIDE DEF local
  <2>3. exec'[w] = local /\ exec' \in [Executor -> ExecutorLocal]
      BY <1>1, <2>1, <2>2
  <2>4. exec'[w].late => Moved(k)'
      BY <2>2, <2>3, MovedSame
  <2> QED
      BY <1>1, <2>2, <2>3, <2>4, WaitingSound
<1> QED
    BY <1>2, <1>3

\* The executor that acts: sound again, typed, and in a transaction only with
\* the row it has locked.
ActorSound(w) ==
    /\ ExecSound(w)'
    /\ exec' \in [Executor -> ExecutorLocal]
    /\ \A k \in Key :
          rows'[k].lock = w => exec'[w].pc \in Working /\ exec'[w].key = k

LEMMA IdleSound ==
    ASSUME RetryInv, NEW w \in Executor, Hold(w, ExecutorIdle), Unlocked(w)
    PROVE  ActorSound(w)
BY IdleKept DEF ActorSound, Unlocked

\* Outside of its transactions an executor holds no lock.
LEMMA NoLockHeld ==
    ASSUME RetryInv, NEW w \in Executor, exec[w].pc \notin Working, UNCHANGED rows
    PROVE  Unlocked(w)
BY DEF RetryInv, LockSound, Unlocked

Looking(local, k) == [local EXCEPT !.dead = ReadClock(k), !.late = Moved(k)]

LEMMA LookingTyped ==
    ASSUME RetryInv, NEW k \in Key, NEW local \in ExecutorLocal
    PROVE  LET new == Looking(local, k)
           IN /\ new \in ExecutorLocal /\ new.pc = local.pc
              /\ new.key = local.key /\ new.lease = local.lease
              /\ new.late = Moved(k)
<1>1. ReadClock(k) \in Nat
    BY TypedRow DEF ReadClock, Row, NoId
<1>2. Moved(k) \in BOOLEAN
    BY DEF Moved
<1>3. \A dead \in Nat : \A late \in BOOLEAN :
         LET new == [local EXCEPT !.dead = dead, !.late = late]
         IN /\ new \in ExecutorLocal /\ new.pc = local.pc
            /\ new.key = local.key /\ new.lease = local.lease /\ new.late = late
    BY DEF ExecutorLocal
<1> QED
    BY <1>1, <1>2, <1>3, Zenon DEF Looking

\* The local state of an executor that was just called is typed.
LEMMA CalledTyped ==
    ASSUME RetryInv, NEW k \in Key, NEW lease \in Nat
    PROVE  LET new == Looking([ExecutorIdle EXCEPT !.pc = "claim", !.key = k,
                                   !.lease = lease], k)
           IN /\ new \in ExecutorLocal /\ new.pc = "claim"
              /\ new.key = k /\ new.lease = lease /\ new.late = Moved(k)
<1> DEFINE named == [ExecutorIdle EXCEPT !.pc = "claim", !.key = k, !.lease = lease]
<1>1. ExecutorIdle \in ExecutorLocal
    BY DEF ExecutorIdle, ExecutorLocal, Code, NoKey, NoId
<1>2. /\ named \in ExecutorLocal /\ named.pc = "claim" /\ named.key = k
      /\ named.lease = lease
    BY <1>1 DEF ExecutorLocal
<1> HIDE DEF named
<1>3. LET new == Looking(named, k)
      IN /\ new \in ExecutorLocal /\ new.pc = "claim"
         /\ new.key = k /\ new.lease = lease /\ new.late = Moved(k)
    BY <1>2, LookingTyped
<1> QED
    BY <1>3 DEF named

LEMMA CallSound ==
    ASSUME RetryInv, NEW w \in Executor, NEW k \in Key, Call(w, k)
    PROVE  ActorSound(w)
<1> DEFINE local == Looking([ExecutorIdle EXCEPT !.pc = "claim", !.key = k,
                                 !.lease = calls + 1], k)
<1>1. /\ exec \in [Executor -> ExecutorLocal] /\ calls \in Nat
      /\ rows[k].status # "absent" /\ rows' = rows /\ run' = run
      /\ exec[w].pc = "idle"
    BY DEF Call, RetryInv, TypeOK, repoVars
<1>2. exec' = [exec EXCEPT ![w] = local]
    BY DEF Call, Hold, Looking
<1>3. calls + 1 \in Nat
    BY <1>1
<1>4. /\ local \in ExecutorLocal /\ local.pc = "claim"
      /\ local.key = k /\ local.lease = calls + 1 /\ local.late = Moved(k)
    BY <1>3, CalledTyped, Zenon
<1> HIDE DEF local
<1>5. exec'[w] = local /\ exec' \in [Executor -> ExecutorLocal]
    BY <1>1, <1>2, <1>4
<1>6. Unlocked(w)
    BY <1>1, NoLockHeld DEF Working
<1>7. calls + 1 # NoId
    BY <1>1 DEF NoId
<1>8. exec'[w].late => Moved(k)'
    BY <1>1, <1>4, <1>5, MovedSame
<1>9. ExecSound(w)'
    BY <1>1, <1>4, <1>5, <1>7, <1>8, WaitingSound
<1> QED
    BY <1>5, <1>6, <1>9 DEF ActorSound, Unlocked

\* A transaction begins: the row is locked, and what the run is now is seen.
LEMMA BeginSound ==
    ASSUME RetryInv, NEW w \in Executor, NEW pc \in Working, exec[w].pc \notin Working,
           exec[w].pc # "idle", UNCHANGED run, NEW k, k = exec[w].key, Lock(k, w),
           Hold(w, [exec[w] EXCEPT !.pc = pc, !.drift = Drift(rows[k].version)]),
           rows[k].status \in {"pending", "running"},
           pc = "finishing" =>
              /\ rows[k].status = "running" /\ rows[k].lease = exec[w].lease
              /\ exec[w].answer # "none"
    PROVE  ActorSound(w)
<1> DEFINE local == [exec[w] EXCEPT !.pc = pc, !.drift = Drift(rows[k].version)]
<1>1. /\ exec \in [Executor -> ExecutorLocal] /\ exec[w] \in ExecutorLocal
      /\ rows \in [Key -> Row] /\ k \in Key /\ exec[w].lease # NoId
      /\ exec[w].late => Moved(k)
    BY DEF RetryInv, TypeOK, ExecsSound, ExecSound
<1>2. /\ rows'[k].status = rows[k].status /\ rows'[k].version = rows[k].version
      /\ rows'[k].lease = rows[k].lease /\ rows'[k].lock = w
      /\ \A j \in Key : j # k => rows'[j] = rows[j]
    BY <1>1 DEF Lock, Row
<1>3. Drift(rows[k].version) \in Code
    BY DEF Drift, Code
<1>4. /\ local \in ExecutorLocal /\ local.pc = pc /\ local.key = k
      /\ local.lease = exec[w].lease /\ local.late = exec[w].late
      /\ local.answer = exec[w].answer /\ local.drift = Drift(rows[k].version)
    BY <1>1, <1>3 DEF ExecutorLocal, Working
<1>5. exec'[w] = local /\ exec' \in [Executor -> ExecutorLocal]
    BY <1>1, <1>4 DEF Hold
<1>6. Moved(k)' <=> Moved(k)
    BY <1>1, <1>2, MovedSame
<1>7. \A j \in Key : rows'[j].lock = w => j = k
    BY <1>2 DEF RetryInv, LockSound
<1> HIDE DEF local
<1>8. ExecSound(w)'
  <2>1. exec'[w].late => local.drift # "none" /\ Moved(k)'
      BY <1>1, <1>4, <1>5, <1>6 DEF Moved
  <2>2. exec'[w].pc = "finishing" => /\ rows'[k].status = "running"
                                     /\ rows'[k].lease = exec'[w].lease
                                     /\ exec'[w].answer # "none"
      BY <1>2, <1>4, <1>5
  <2> QED
      BY <1>1, <1>2, <1>4, <1>5, <2>1, <2>2 DEF ExecSound, Working
<1> QED
    BY <1>4, <1>5, <1>7, <1>8 DEF ActorSound

LEMMA ClaimWriteSound ==
    ASSUME RetryInv, RunGrows, NEW w \in Executor, ClaimWrite(w)
    PROVE  ActorSound(w)
<1>1. Unlocked(w) /\ RowKept(exec[w].key)
    BY ClaimWrites, WorkingRow, ExecutorRowKept DEF ClaimWrite, Working
<1>2. CASE Hold(w, ExecutorIdle)
    BY <1>1, <1>2, IdleSound
<1>3. CASE exec[w].drift = "none" /\ Hold(w, [exec[w] EXCEPT !.pc = "execute"])
  <2> DEFINE local == [exec[w] EXCEPT !.pc = "execute"]
  <2>1. /\ exec \in [Executor -> ExecutorLocal] /\ exec[w] \in ExecutorLocal
        /\ exec[w].key \in Key /\ exec[w].lease # NoId /\ ~exec[w].late
        /\ rows[exec[w].key].status # "absent"
      BY <1>3 DEF RetryInv, TypeOK, ExecsSound, ExecSound, ClaimWrite, Working
  <2>2. /\ local \in ExecutorLocal /\ local.pc = "execute" /\ local.key = exec[w].key
        /\ local.lease = exec[w].lease /\ local.late = exec[w].late
      BY <2>1 DEF ExecutorLocal
  <2>3. exec'[w] = local /\ exec' \in [Executor -> ExecutorLocal]
      BY <1>3, <2>1, <2>2 DEF Hold
  <2> HIDE DEF local
  <2>4. ExecSound(w)'
      BY <1>1, <2>1, <2>2, <2>3 DEF ExecSound, Working, RowKept
  <2> QED
      BY <1>1, <2>3, <2>4 DEF ActorSound, Unlocked
<1> QED
    BY <1>2, <1>3 DEF ClaimWrite

LEMMA AnswerSound ==
    ASSUME RetryInv, NEW w \in Executor, Answer(w)
    PROVE  ActorSound(w)
<1>1. PICK k : k = exec[w].key
    OBVIOUS
<1>2. PICK answer \in {"success", "failure", "error"} :
          Hold(w, [exec[w] EXCEPT !.pc = "finish", !.answer = answer,
                      !.dead = ReadClock(k), !.late = Moved(k)])
    BY <1>1 DEF Answer
<1> DEFINE local == Reading(exec[w], "finish", answer, k)
<1>3. /\ exec \in [Executor -> ExecutorLocal] /\ exec[w] \in ExecutorLocal
      /\ k \in Key /\ exec[w].lease # NoId /\ rows[k].status # "absent"
      /\ exec[w].pc = "execute" /\ rows' = rows /\ run' = run
    BY <1>1 DEF RetryInv, TypeOK, ExecsSound, ExecSound, Answer, repoVars
<1>4. /\ local \in ExecutorLocal /\ local.pc = "finish" /\ local.answer = answer
      /\ local.key = exec[w].key /\ local.lease = exec[w].lease
      /\ local.late = Moved(k)
    BY <1>3, ReadingTyped
<1>5. exec' = [exec EXCEPT ![w] = local]
    BY <1>2 DEF Hold, Reading
<1> HIDE DEF local
<1>6. exec'[w] = local /\ exec' \in [Executor -> ExecutorLocal]
    BY <1>3, <1>4, <1>5
<1>7. Unlocked(w)
    BY <1>3, NoLockHeld DEF Working
<1>8. exec'[w].late => Moved(k)'
    BY <1>3, <1>4, <1>6, MovedSame
<1>9. ExecSound(w)'
    BY <1>1, <1>3, <1>4, <1>6, <1>8, WaitingSound
<1> QED
    BY <1>6, <1>7, <1>9 DEF ActorSound, Unlocked

LEMMA ExecutorSound ==
    ASSUME RetryInv, RunGrows, NEW w \in Executor, ExecutorStep(w)
    PROVE  ActorSound(w)
<1>1. PICK k : k = exec[w].key
    OBVIOUS
<1>2. exec[w].pc # "idle" => k \in Key /\ rows[k].status # "absent"
    BY <1>1 DEF RetryInv, ExecsSound, ExecSound
<1>3. k \in Key => rows'[k].version = rows[k].version
                   /\ (rows[k].status # "absent" => rows'[k].status # "absent")
    BY ExecutorRows, ExecutorRowKept DEF RowKept
<1>4. ASSUME exec[w].pc # "idle", FinishRaised(w), Unlocked(w), UNCHANGED run
      PROVE  ActorSound(w)
    BY <1>1, <1>2, <1>3, <1>4, RaisedSound DEF ActorSound, Unlocked
<1>5. CASE ClaimRead(w)
  <2>1. CASE Hold(w, ExecutorIdle) /\ UNCHANGED rows
      BY <1>5, <2>1, IdleSound, NoLockHeld DEF ClaimRead, Working
  <2>2. CASE /\ rows[k].status \in {"pending", "running"}
             /\ Lock(k, w)
             /\ Hold(w, [exec[w] EXCEPT !.pc = "claiming",
                            !.drift = Drift(rows[k].version)])
    <3>1. exec[w].pc = "claim" /\ UNCHANGED run
        BY <1>5 DEF ClaimRead, repoVars
    <3> QED
        BY <1>1, <2>2, <3>1, BeginSound DEF Working
  <2> QED
      BY <1>1, <1>5, <2>1, <2>2 DEF ClaimRead
<1>6. CASE FinishRead(w)
  <2>1. exec[w].pc = "finish" /\ exec[w].answer # "none" /\ UNCHANGED run
      BY <1>6 DEF FinishRead, RetryInv, ExecsSound, ExecSound, repoVars
  <2>2. CASE UNCHANGED rows /\ (Hold(w, ExecutorIdle) \/ FinishRaised(w))
      BY <1>4, <2>1, <2>2, IdleSound, NoLockHeld DEF Working
  <2>3. CASE /\ HoldsLease(w) /\ Lock(k, w)
             /\ Hold(w, [exec[w] EXCEPT !.pc = "finishing",
                            !.drift = Drift(rows[k].version)])
      BY <1>1, <2>1, <2>3, BeginSound DEF Working, HoldsLease
  <2> QED
      BY <1>1, <1>6, <2>2, <2>3 DEF FinishRead
<1>7. CASE FinishWrite(w)
    BY <1>7, RecordedWrites, IdleSound DEF FinishWrite
<1>8. CASE FinishFails(w)
    BY <1>4, <1>8, RecordedWrites, ReleasedFrees DEF FinishFails, repoVars
<1>9. CASE Crash(w)
    BY <1>9, ReleasedFrees, IdleSound DEF Crash
<1> QED
    BY <1>5, <1>6, <1>7, <1>8, <1>9, CallSound, ClaimWriteSound, AnswerSound
       DEF ExecutorStep

\* The others keep what they hold.
LEMMA OthersAlone ==
    ASSUME RetryInv, NEW w \in Executor, ExecutorStep(w),
           NEW u \in Executor, u # w
    PROVE  exec'[u] = exec[u]
<1>1. exec \in [Executor -> ExecutorLocal]
    BY DEF RetryInv, TypeOK
<1>2. ASSUME NEW local, Hold(w, local) PROVE exec'[u] = exec[u]
    BY <1>1, <1>2 DEF Hold
<1> QED
    BY <1>2
       DEF ExecutorStep, Call, ClaimRead, ClaimWrite, Answer, FinishRead, FinishWrite,
           FinishFails, FinishRaised, Crash

\* A step of anybody else leaves the locks, and the rows under them, alone.
LEMMA QuietSound ==
    ASSUME RetryInv, RunGrows, UNCHANGED exec,
           \A k \in Key :
              \/ /\ rows[k].status = "absent" /\ rows'[k].lock = NoExecutor
              \/ /\ rows'[k].lock = rows[k].lock /\ rows'[k].status = rows[k].status
                 /\ rows'[k].lease = rows[k].lease /\ rows'[k].version = rows[k].version
    PROVE  exec' \in [Executor -> ExecutorLocal] /\ ExecsSound' /\ LockSound'
<1>1. exec' \in [Executor -> ExecutorLocal]
    BY DEF RetryInv, TypeOK
<1>2. ASSUME NEW w \in Executor PROVE ExecSound(w)'
  <2>1. PICK k : k = exec[w].key
      OBVIOUS
  <2> QED
      BY <2>1, OtherSound
<1>3. ASSUME NEW k \in Key, NEW w \in Executor, rows'[k].lock = w
      PROVE  exec'[w].pc \in Working /\ exec'[w].key = k
  <2>1. w # NoExecutor
      BY CapabilityRetryAssumption DEF NoExecutor
  <2> QED
      BY <1>3, <2>1 DEF RetryInv, LockSound
<1> QED
    BY <1>1, <1>2, <1>3 DEF ExecsSound, LockSound

LEMMA BusySound ==
    ASSUME RetryInv, RunGrows, NEW w \in Executor, ExecutorStep(w)
    PROVE  exec' \in [Executor -> ExecutorLocal] /\ ExecsSound' /\ LockSound'
<1>1. ByExecutor(w) /\ ActorSound(w)
    BY ExecutorRows, ExecutorSound
<1>2. ASSUME NEW u \in Executor, u # w PROVE ExecSound(u)'
  <2>1. PICK k : k = exec[u].key
      OBVIOUS
  <2>2. exec'[u] = exec[u]
      BY <1>2, OthersAlone
  <2>3. k \in Key /\ rows[k].status # "absent" =>
           /\ rows'[k].status # "absent" /\ rows'[k].version = rows[k].version
           /\ rows[k].lock = u => rows'[k] = rows[k]
      BY <1>1, <1>2, ExecutorRowKept DEF RowKept, SameRow
  <2> QED
      BY <2>1, <2>2, <2>3, OtherSound
<1>3. ASSUME NEW k \in Key, NEW u \in Executor, rows'[k].lock = u
      PROVE  exec'[u].pc \in Working /\ exec'[u].key = k
  <2>1. CASE u = w
      BY <1>1, <1>3, <2>1 DEF ActorSound
  <2>2. CASE u # w
    <3>1. rows[k].lock = u
        BY <1>1, <1>3, <2>2, ExecutorRowKept DEF SameRow
    <3> QED
        BY <2>2, <3>1, OthersAlone DEF RetryInv, LockSound
  <2> QED
      BY <2>1, <2>2
<1> QED
    BY <1>1, <1>2, <1>3 DEF ActorSound, ExecsSound, LockSound

-----------------------------------------------------------------------------
(* The invariant, part by part.                                            *)

\* A step keeps every row, or creates the one of a node that had none.
LEMMA StepRows ==
    ASSUME RetryInv, RunGrows, [Next]_vars
    PROVE  \/ rows' \in [Key -> Row] /\ \A k \in Key : RowKept(k)
           \/ \E k \in Key : \E n \in Node :
                 CreatedRow(k, n) /\ run'.version = run.version
<1>1. CASE UNCHANGED rows
    BY <1>1, SameRowKept DEF SameRow, RetryInv, TypeOK
<1>2. CASE Age
    BY <1>2, AgedRows
<1>3. ASSUME NEW w \in Executor, ExecutorStep(w)
      PROVE  rows' \in [Key -> Row] /\ \A k \in Key : RowKept(k)
    BY <1>3, ExecutorRows, ExecutorRowKept DEF ByExecutor
<1>4. ASSUME NEW c \in Client, ClientStep(c)
      PROVE  \/ UNCHANGED rows
             \/ \E k \in Key : \E n \in Node :
                   CreatedRow(k, n) /\ run'.version = run.version
  <2>1. UNCHANGED run
      BY <1>4 DEF ClientStep, Create, Plan, repoVars
  <2> QED
      BY <1>4, <2>1, ClientRows
<1>5. RunMoves \/ UNCHANGED vars => UNCHANGED rows
    BY DEF RunMoves, retryVars, vars
<1> QED
    BY <1>1, <1>2, <1>3, <1>4, <1>5, NextCases

LEMMA RowsStaySound ==
    ASSUME RetryInv, RunGrows, [Next]_vars
    PROVE  /\ rows' \in [Key -> Row] /\ \A k \in Key : ValidRow(rows'[k])
           /\ RowsSound' /\ OneRetryPerNode'
<1>1. CASE rows' \in [Key -> Row] /\ \A k \in Key : RowKept(k)
    BY <1>1 DEF RowKept, RowsSound, OneRetryPerNode, RetryInv
<1>2. ASSUME NEW k \in Key, NEW n \in Node, CreatedRow(k, n),
             run'.version = run.version
      PROVE  /\ rows' \in [Key -> Row] /\ \A j \in Key : ValidRow(rows'[j])
             /\ RowsSound' /\ OneRetryPerNode'
  <2>1. /\ rows' \in [Key -> Row]
        /\ \A j \in Key : ValidRow(rows'[j]) /\ RowSound(j)'
        /\ \A j \in Key : j # k => rows'[j] = rows[j]
        /\ rows'[k].node = n
      BY <1>2, CreatedRows DEF SameRow
  <2>2. \A j \in Key : rows[j].node # n
      BY <1>2 DEF CreatedRow, ForNode
  <2>3. OneRetryPerNode'
      BY <2>1, <2>2 DEF RetryInv, OneRetryPerNode
  <2> QED
      BY <2>1, <2>3 DEF RowsSound
<1> QED
    BY <1>1, <1>2, StepRows

LEMMA ExecutorsStaySound ==
    ASSUME RetryInv, RunGrows, [Next]_vars
    PROVE  exec' \in [Executor -> ExecutorLocal] /\ ExecsSound' /\ LockSound'
<1>1. CASE UNCHANGED <<rows, exec>>
    BY <1>1, QuietSound
<1>2. CASE Age
  <2>1. UNCHANGED exec
      BY <1>2 DEF Age
  <2> QED
      BY <1>2, <2>1, AgedRows, QuietSound DEF RowKept
<1>3. ASSUME NEW c \in Client, ClientStep(c)
      PROVE  exec' \in [Executor -> ExecutorLocal] /\ ExecsSound' /\ LockSound'
  <2>1. UNCHANGED exec /\ UNCHANGED run
      BY <1>3 DEF ClientStep, Create, Plan, repoVars
  <2>2. ASSUME NEW k \in Key, NEW n \in Node, CreatedRow(k, n)
        PROVE  exec' \in [Executor -> ExecutorLocal] /\ ExecsSound' /\ LockSound'
      BY <2>1, <2>2, CreatedRows, QuietSound DEF SameRow
  <2> QED
      BY <1>1, <1>3, <2>1, <2>2, ClientRows
<1>4. RunMoves \/ UNCHANGED vars => UNCHANGED <<rows, exec>>
    BY DEF RunMoves, retryVars, vars
<1> QED
    BY <1>1, <1>2, <1>3, <1>4, BusySound, NextCases

LEMMA ClientsStaySound ==
    ASSUME RetryInv, [Next]_vars
    PROVE  client' \in [Client -> ClientLocal] /\ ClientsSound'
<1>1. client \in [Client -> ClientLocal] /\ run.version \in Nat
    BY DEF RetryInv, TypeOK, RepoTypeOK, RunRow
<1>2. CASE UNCHANGED client
    BY <1>1, <1>2 DEF RetryInv, ClientsSound, ClientSound
<1>3. ASSUME NEW c \in Client, NEW local \in ClientLocal,
             local.pc = "create" => local.key \in Key /\ local.node \in Node,
             client' = [client EXCEPT ![c] = local]
      PROVE  client' \in [Client -> ClientLocal] /\ ClientsSound'
    BY <1>1, <1>3 DEF RetryInv, ClientsSound, ClientSound
<1>4. ASSUME NEW outcome \in {"none", "record", "refused", "stale", "conflict"}
      PROVE  ClientIdle(outcome) \in ClientLocal /\ ClientIdle(outcome).pc = "idle"
    BY DEF ClientIdle, ClientLocal, NoKey, NoNode
<1>5. ASSUME NEW c \in Client, Create(c)
      PROVE  client' \in [Client -> ClientLocal] /\ ClientsSound'
  <2>1. \E outcome \in {"record", "stale", "conflict"} : Respond(c, outcome)
      BY <1>5 DEF Create
  <2> QED
      BY <1>3, <1>4, <2>1 DEF Respond
<1>6. ASSUME NEW c \in Client, NEW k \in Key, NEW n \in Node, Plan(c, k, n)
      PROVE  client' \in [Client -> ClientLocal] /\ ClientsSound'
  <2> DEFINE asking == [pc |-> "create", key |-> k, node |-> n,
                        version |-> run.version, outcome |-> "none"]
  <2>1. asking \in ClientLocal /\ asking.key = k /\ asking.node = n
      BY <1>1 DEF ClientLocal
  <2>2. \/ client' = [client EXCEPT ![c] = asking]
        \/ client' = [client EXCEPT ![c] = ClientIdle("refused")]
      BY <1>6 DEF Plan
  <2> HIDE DEF asking
  <2> QED
      BY <1>3, <1>4, <2>1, <2>2
<1>7. \/ UNCHANGED client
      \/ \E c \in Client : Create(c) \/ \E k \in Key, n \in Node : Plan(c, k, n)
    BY DEF Next, RunMoves, Age, Call, ClaimRead, ClaimWrite, Answer, FinishRead,
           FinishWrite, FinishFails, Crash, vars, retryVars
<1> QED
    BY <1>2, <1>5, <1>6, <1>7

LEMMA CountersStayTyped ==
    ASSUME RetryInv, [Next]_vars
    PROVE  requests' \in 0..MaxRequests /\ calls' \in 0..MaxCalls
           /\ faults' \in 0..MaxFaults
<1>1. /\ requests \in 0..MaxRequests /\ calls \in 0..MaxCalls
      /\ faults \in 0..MaxFaults
      /\ MaxRequests \in Nat /\ MaxCalls \in Nat /\ MaxFaults \in Nat
    BY CapabilityRetryAssumption DEF RetryInv, TypeOK
<1> DEFINE Counted ==
        /\ requests' = requests \/ (requests < MaxRequests /\ requests' = requests + 1)
        /\ calls' = calls \/ (calls < MaxCalls /\ calls' = calls + 1)
        /\ faults' = faults \/ (faults < MaxFaults /\ faults' = faults + 1)
<1>2. ASSUME UNCHANGED <<requests, calls, faults>> PROVE Counted
    BY <1>2
<1>3. ASSUME NEW w \in Executor, ExecutorStep(w) PROVE Counted
  <2>1. ASSUME NEW k \in Key, Call(w, k) PROVE Counted
      BY <2>1, Zenon DEF Call
  <2>2. CASE ClaimRead(w) \/ FinishRead(w)
      BY <2>2 DEF ClaimRead, FinishRead
  <2>3. CASE ClaimWrite(w) \/ FinishWrite(w)
      BY <2>3 DEF ClaimWrite, FinishWrite
  <2>4. CASE Answer(w)
      BY <2>4, Zenon DEF Answer
  <2>5. CASE FinishFails(w) \/ Crash(w)
      BY <2>5 DEF FinishFails, Crash, Fault
  <2> QED
      BY <1>3, <2>1, <2>2, <2>3, <2>4, <2>5 DEF ExecutorStep
<1>4. ASSUME NEW c \in Client, ClientStep(c) PROVE Counted
    BY <1>4 DEF ClientStep, Create, Plan
<1>5. RunMoves \/ Age \/ UNCHANGED vars => UNCHANGED <<requests, calls, faults>>
    BY DEF RunMoves, Age, vars, retryVars
<1>6. Counted
    BY <1>2, <1>3, <1>4, <1>5, NextCases
<1> QED
    BY <1>1, <1>6

LEMMA InitRetryInv == Init => RetryInv
<1> SUFFICES ASSUME Init PROVE RetryInv
    OBVIOUS
<1>1. RepoTypeOK /\ LeaseMeansOpen /\ run.version \in Nat
    BY RepoInitInv DEF Init, RepoTypeOK, RunRow
<1>2. /\ Absent \in Row /\ Absent.status = "absent" /\ Absent.node = NoNode
      /\ Absent.left = 0 /\ Absent.version = 0 /\ Absent.lock = NoExecutor
      /\ ValidRow(Absent)
  <2>1. 0 \in 0..RetryTTL
      BY CapabilityRetryAssumption
  <2> QED
      BY <2>1 DEF Absent, Row, Status, Result, Code, NoId, ValidRow
<1>3. /\ ClientIdle("none") \in ClientLocal /\ ClientIdle("none").pc = "idle"
      /\ ExecutorIdle \in ExecutorLocal /\ ExecutorIdle.pc = "idle"
    BY DEF ClientIdle, ClientLocal, ExecutorIdle, ExecutorLocal, Code, NoKey, NoNode, NoId
<1>4. \A k \in Key : rows[k] = Absent
    BY DEF Init
<1>5. RowsSound
  <2>1. 0 <= run.version
      BY <1>1
  <2> QED
      BY <1>2, <1>4, <2>1 DEF RowsSound, RowSound
<1>6. ExecsSound /\ ClientsSound
    BY <1>3 DEF Init, ExecsSound, ExecSound, ClientsSound, ClientSound
<1>7. LockSound /\ OneRetryPerNode
    BY <1>2, <1>4, CapabilityRetryAssumption DEF LockSound, OneRetryPerNode, NoExecutor
<1>8. TypeOK
    BY <1>1, <1>2, <1>3, CapabilityRetryAssumption DEF Init, TypeOK
<1> QED
    BY <1>1, <1>5, <1>6, <1>7, <1>8 DEF RetryInv

LEMMA NextRetryInv == RetryInv /\ [Next]_vars => RetryInv'
<1> SUFFICES ASSUME RetryInv, [Next]_vars PROVE RetryInv'
    OBVIOUS
<1>1. RepoTypeOK' /\ LeaseMeansOpen' /\ RunGrows
    BY StepRun
<1>2. TypeOK'
    BY <1>1, RowsStaySound, ExecutorsStaySound, ClientsStaySound, CountersStayTyped
       DEF TypeOK
<1> QED
    BY <1>1, <1>2, RowsStaySound, ExecutorsStaySound, ClientsStaySound DEF RetryInv

\* The records stay well formed, the locks of the rows belong to transactions under
\* way, and an executor's beliefs about its row are true (retry.py _claim, _finish).
THEOREM RetryInvHolds == Spec => []RetryInv
BY InitRetryInv, NextRetryInv, PTL DEF Spec

\* However many clients race for it with whichever keys, a failed capability is
\* retried once (retry.py _create, with ask_capability_retries_run_node_uniq).
THEOREM RetriedOnce == Spec => []RetryIsSingle
<1>1. RetryInv => RetryIsSingle
    BY DEF RetryInv, RetryIsSingle
<1> QED
    BY <1>1, RetryInvHolds, PTL

-----------------------------------------------------------------------------
(* What a step may never do.                                               *)

LEMMA SettledKept ==
    ASSUME RetryInv, [Next]_vars, NEW k \in Key, rows[k].status \in Settled
    PROVE  rows'[k] = rows[k]
<1>1. RunGrows
    BY StepRun
<1>2. ASSUME NEW j \in Key, NEW n \in Node, CreatedRow(j, n),
             run'.version = run.version
      PROVE  rows'[k] = rows[k]
  <2>1. rows[j].status = "absent" /\ \A i \in Key : i # j => rows'[i] = rows[i]
      BY <1>1, <1>2, CreatedRows DEF SameRow
  <2> QED
      BY <2>1 DEF Settled
<1> QED
    BY <1>1, <1>2, StepRows DEF RowKept

LEMMA DriftKept ==
    ASSUME RetryInv, [Next]_vars, NEW w \in Executor, NEW k, k = exec[w].key,
           exec[w].pc = "finishing", exec[w].late
    PROVE  rows'[k].status # "succeeded"
<1>1. /\ RunGrows
      /\ k \in Key /\ rows[k].lock = w /\ rows[k].status = "running"
      /\ rows[k] \in Row /\ exec[w].drift # "none" /\ exec[w].pc \in Working
    BY StepRun, TypedRow DEF RetryInv, ExecsSound, ExecSound, Working
<1>2. CASE rows'[k] = rows[k]
    BY <1>1, <1>2
<1>3. CASE Age
    BY <1>1, <1>3, AgedRows
<1>4. ASSUME NEW c \in Client, ClientStep(c) PROVE rows'[k] = rows[k]
  <2>1. UNCHANGED run
      BY <1>4 DEF ClientStep, Create, Plan, repoVars
  <2>2. ASSUME NEW j \in Key, NEW n \in Node, CreatedRow(j, n)
        PROVE  rows'[k] = rows[k]
    <3>1. rows[j].status = "absent" /\ \A i \in Key : i # j => rows'[i] = rows[i]
        BY <1>1, <2>1, <2>2, CreatedRows DEF SameRow
    <3> QED
        BY <1>1, <3>1
  <2> QED
      BY <1>4, <2>2, ClientRows
<1>5. ASSUME NEW u \in Executor, ExecutorStep(u)
      PROVE  rows'[k].status # "succeeded"
  <2>1. ByExecutor(u)
      BY <1>5, ExecutorRows
  <2>2. CASE u # w
      BY <1>1, <1>2, <2>1, <2>2, ExecutorRowKept DEF SameRow
  <2>3. CASE u = w
    <3>1. TakenRow(k, w) \/ FreedRow(k, w) => rows'[k].status = rows[k].status
        BY <1>1 DEF TakenRow, FreedRow, Row
    <3>2. WrittenRow(k, w) => rows'[k].status = "failed"
        BY <1>1 DEF WrittenRow
    <3> QED
        BY <1>1, <2>1, <2>3, <3>1, <3>2 DEF ByExecutor, SameRow
  <2> QED
      BY <2>2, <2>3
<1>6. RunMoves \/ UNCHANGED vars => UNCHANGED rows
    BY DEF RunMoves, retryVars, vars
<1> QED
    BY <1>2, <1>3, <1>4, <1>5, <1>6, NextCases

\* No late, repeated or drifted execution leaves a trace in a record: a settled
\* row stays as it is, only the executor that claimed last settles it, and a run
\* that moved is never charged or credited (retry.py _claim and _finish).
THEOREM ResultsStayFenced == Spec => ResultsAreFenced
<1>1. RetryInv /\ [Next]_vars =>
          [\A k \in Key : rows[k].status \in Settled => rows'[k] = rows[k]]_vars
    BY SettledKept
<1>2. RetryInv =>
          \A w \in Executor :
              LET k == exec[w].key IN
              exec[w].pc = "finishing"
                  => rows[k].status = "running" /\ rows[k].lease = exec[w].lease
    BY DEF RetryInv, ExecsSound, ExecSound
<1>3. RetryInv /\ [Next]_vars =>
          [\A w \in Executor :
              LET k == exec[w].key IN
              exec[w].pc = "finishing" /\ rows[k].status # rows'[k].status
                  => rows[k].status = "running" /\ rows[k].lease = exec[w].lease]_vars
    BY <1>2
<1>4. RetryInv => \A w \in Executor : exec[w].pc = "execute" => ~exec[w].late
    BY DEF RetryInv, ExecsSound, ExecSound
<1>5. RetryInv /\ [Next]_vars =>
          [\A w \in Executor :
              LET k == exec[w].key IN
              exec[w].pc = "finishing" /\ exec[w].late
                  => rows'[k].status # "succeeded" \/ rows[k].status = "succeeded"]_vars
  <2>1. ASSUME RetryInv, [Next]_vars, NEW w \in Executor,
               exec[w].pc = "finishing", exec[w].late
        PROVE  rows'[exec[w].key].status # "succeeded"
    <3>1. PICK k : k = exec[w].key
        OBVIOUS
    <3>2. rows'[k].status # "succeeded"
        BY <2>1, <3>1, DriftKept
    <3> QED
        BY <3>1, <3>2
  <2> QED
      BY <2>1
<1> QED
    BY <1>1, <1>3, <1>4, <1>5, RetryInvHolds, PTL
       DEF Spec, ResultsAreFenced, SettledIsFinal, OnlyClaimantRecords, DriftIsRefused

\* Only the request itself ends a client's wait.
LEMMA RequestAnswered ==
    ASSUME RetryInv, [Next]_vars, NEW c \in Client,
           client[c].pc = "create", client'[c].pc = "idle"
    PROVE  Create(c)
<1>1. client \in [Client -> ClientLocal]
    BY DEF RetryInv, TypeOK
<1>2. client' # client
    BY DEF RetryInv
<1>3. ASSUME NEW d \in Client, ClientStep(d), d # c
      PROVE  client'[c] = client[c]
    BY <1>1, <1>3 DEF ClientStep, Create, Plan, Respond
<1>4. ASSUME NEW k \in Key, NEW n \in Node PROVE ~Plan(c, k, n)
    BY DEF Plan
<1>5. \A w \in Executor : ~ExecutorStep(w)
    BY <1>2, ExecutorRows
<1>6. ~RunMoves /\ ~Age /\ ~UNCHANGED vars
    BY <1>2 DEF RunMoves, Age, vars, retryVars
<1> QED
    BY <1>3, <1>4, <1>5, <1>6, NextCases DEF ClientStep

\* A request repeated with its key, while the run does not move, gets its own
\* record again, whatever executors do with it meanwhile (retry.py _create).
THEOREM RepeatsAreAnswered == Spec => RepeatedRequestIsAnswered
<1> DEFINE Answered(c) ==
        LET k == client[c].key IN
        /\ client[c].pc = "create" /\ client'[c].pc = "idle"
        /\ rows[k].status # "absent" /\ rows[k].node = client[c].node
        /\ ~Moved(k) /\ client[c].version = run.version
        => client'[c].outcome = "record"
<1>1. ASSUME RetryInv, [Next]_vars, NEW c \in Client PROVE Answered(c)
  <2> SUFFICES ASSUME NEW k, k = client[c].key,
                      client[c].pc = "create", client'[c].pc = "idle",
                      rows[k].status # "absent", rows[k].node = client[c].node,
                      ~Moved(k), client[c].version = run.version
               PROVE  client'[c].outcome = "record"
      OBVIOUS
  <2>1. Create(c) /\ client \in [Client -> ClientLocal]
      BY <1>1, RequestAnswered DEF RetryInv, TypeOK
  <2>2. Drift(client[c].version) = "none" /\ rows[k].version = run.version
      BY DEF Moved, Drift
  <2>3. SamePlan(k, client[c].node, client[c].version)
      BY <2>2 DEF SamePlan
  <2>4. Respond(c, "record")
      BY <2>1, <2>2, <2>3 DEF Create
  <2>5. client'[c] = ClientIdle("record")
      BY <2>1, <2>4 DEF Respond
  <2> QED
      BY <2>5 DEF ClientIdle
<1>2. RetryInv /\ [Next]_vars => [\A c \in Client : Answered(c)]_vars
    BY <1>1
<1> QED
    BY <1>2, RetryInvHolds, PTL DEF Spec, RepeatedRequestIsAnswered

-----------------------------------------------------------------------------
(* The turns that a browser shows (ResearchTurns).  A turn saved late is   *)
(* placed anywhere, but never moves those that are there: what was saved   *)
(* when the first page of a read was answered is on the pages it has, or   *)
(* behind their last turn (Reached); so a read that came to the end has    *)
(* it.  Pages with more behind them never take a question that was not     *)
(* read, so the server knows their last turn, and a list on the screen     *)
(* always has a query that a reconciliation reaches.                       *)

\* Pages hold at least one question, and the mark for no records is not a question.
ShownSetting == Limit \subseteq Nat \ {0} /\ "none" \notin Turn

-----------------------------------------------------------------------------
Question == Turn \cup Foreign
Pages == Seq(Seq(Question))
Data == [pages : Pages, more : BOOLEAN]
Fetching == [want : Nat, pages : Pages, more : BOOLEAN, asof : SUBSET Question]

ShownTyped ==
    /\ server \in Seq(Question)
    /\ Shown!Recorded \subseteq Turn
    /\ cache \in [Limit -> Data]
    /\ fetch \in [Limit -> Fetching]
    /\ mounted \subseteq Limit

\* A question is saved once.
SavedOnce == \A i, j \in 1..Len(server) : server[i] = server[j] => i = j

\* The last turn of the pages, from which the server goes on.
Cursor(pages) == Shown!Last(Shown!Last(pages))
Readable(pages) ==
    pages # <<>> => /\ Len(pages[Len(pages)]) > 0
                    /\ \E i \in 1..Len(server) : server[i] = Cursor(pages)

\* The server lists k behind the pages.
Follows(k, pages) ==
    \E i, j \in 1..Len(server) : i < j /\ server[i] = Cursor(pages) /\ server[j] = k

\* What a read has to show is on its pages or still comes.
Reached(f) ==
    \A k \in f.asof : k \in Shown!Items(f) \/ (f.more /\ f.pages # <<>> /\ Follows(k, f.pages))

CacheSound(l) == cache[l].more => Readable(cache[l].pages)

FetchSound(l) ==
    /\ fetch[l].more => Readable(fetch[l].pages)
    /\ Reached(fetch[l])
    /\ fetch[l] # Shown!NoFetch => fetch[l].want > 0

ShownInv ==
    /\ ShownTyped
    /\ SavedOnce
    /\ \A l \in Limit : CacheSound(l) /\ FetchSound(l)
    /\ \A l \in mounted : Shown!HasQuery(l)

-----------------------------------------------------------------------------
\* What pages hold.
LEMMA ItemsHold ==
    ASSUME NEW data, NEW k
    PROVE  /\ Shown!Holds(data, k) <=> k \in Shown!Items(data)
           /\ k \in Shown!Items(data) <=>
              \E p \in DOMAIN data.pages : k \in Shown!ToSet(data.pages[p])
  BY DEF Shown!Holds, Shown!Items

\* A record for a question leaves the others.
LEMMA RecordsWith ==
    ASSUME ShownSetting, Shown!Recorded \subseteq Turn, NEW k \in Turn, NEW r,
           records' = Shown!With(k, r)
    PROVE  /\ Shown!Recorded' = Shown!Recorded \cup {k}
           /\ records'[k] = r
           /\ \A j \in Shown!Recorded \ {k} : records'[j] = records[j]
  <1>1. DOMAIN Shown!With(k, r) = Shown!Recorded \cup {k}
    BY DEF Shown!With
  <1>2. DOMAIN Shown!NoRecords = {"none"}
    BY DEF Shown!NoRecords
  <1>3. Shown!With(k, r) # Shown!NoRecords
    BY <1>1, <1>2 DEF ShownSetting
  <1>4. Shown!Recorded' = Shown!Recorded \cup {k}
    BY <1>1, <1>3 DEF Shown!Recorded
  <1>5. Shown!With(k, r)[k] = r /\ \A j \in Shown!Recorded \ {k} : Shown!With(k, r)[j] = records[j]
    BY DEF Shown!With
  <1>. QED  BY <1>4, <1>5

\* What a step leaves of the server: the turns and their order.
Extended ==
    /\ server' \in Seq(Question)
    /\ \A i \in 1..Len(server) : \E a \in 1..Len(server') : server'[a] = server[i]
    /\ \A i, j \in 1..Len(server) : i < j =>
          \E a, b \in 1..Len(server') : a < b /\ server'[a] = server[i] /\ server'[b] = server[j]

LEMMA ReadableStays ==
    ASSUME Extended, NEW pages, Readable(pages)
    PROVE  Readable(pages)'
  BY DEF Extended, Readable, Cursor

LEMMA FollowsStays ==
    ASSUME Extended, NEW pages, NEW k, Follows(k, pages)
    PROVE  Follows(k, pages)'
  BY DEF Extended, Follows, Cursor

\* A question that was not there is placed among the others.
LEMMA PlacedOnce ==
    ASSUME ShownTyped, SavedOnce, NEW k \in Question, k \notin Shown!ToSet(server),
           NEW p \in 1..(Len(server) + 1), server' = Shown!InsertAt(server, p, k)
    PROVE  Extended /\ SavedOnce'
  <1>1. server \in Seq(Question) /\ Len(server) \in Nat /\ p \in Nat
    BY DEF ShownTyped
  <1>2. server' = SubSeq(server, 1, p - 1) \o <<k>> \o SubSeq(server, p, Len(server))
    BY DEF Shown!InsertAt
  <1>3. /\ SubSeq(server, 1, p - 1) \in Seq(Question) /\ Len(SubSeq(server, 1, p - 1)) = p - 1
        /\ \A i \in 1..(p - 1) : SubSeq(server, 1, p - 1)[i] = server[i]
    <2>1. 1 \in Int /\ p - 1 \in Int /\ \A i \in 1..(p - 1) : server[i] \in Question
      BY <1>1
    <2> DEFINE b == p - 1
    <2> HIDE DEF b
    <2>2. /\ SubSeq(server, 1, b) \in Seq(Question)
          /\ Len(SubSeq(server, 1, b)) = IF 1 <= b THEN b - 1 + 1 ELSE 0
          /\ \A i \in 1..(b - 1 + 1) : SubSeq(server, 1, b)[i] = server[1 + i - 1]
      <3>1. 1 \in Int /\ b \in Int /\ \A i \in 1..b : server[i] \in Question
        BY <2>1 DEF b
      <3>. QED  BY <3>1, SubSeqProperties
    <2>3. b \in Nat /\ b = p - 1
      BY <1>1 DEF b
    <2>. QED  BY <2>2, <2>3
  <1>4. /\ SubSeq(server, p, Len(server)) \in Seq(Question)
        /\ Len(SubSeq(server, p, Len(server))) = Len(server) - p + 1
        /\ \A i \in 1..(Len(server) - p + 1) : SubSeq(server, p, Len(server))[i] = server[p + i - 1]
    <2>1. p \in Int /\ Len(server) \in Int /\ \A i \in p..Len(server) : server[i] \in Question
      BY <1>1
    <2> DEFINE b == Len(server)
    <2> HIDE DEF b
    <2>2. /\ SubSeq(server, p, b) \in Seq(Question)
          /\ Len(SubSeq(server, p, b)) = IF p <= b THEN b - p + 1 ELSE 0
          /\ \A i \in 1..(b - p + 1) : SubSeq(server, p, b)[i] = server[p + i - 1]
      <3>1. p \in Int /\ b \in Int /\ \A i \in p..b : server[i] \in Question
        BY <2>1 DEF b
      <3>. QED  BY <3>1, SubSeqProperties
    <2>3. b \in Nat /\ b = Len(server) /\ p <= b + 1
      BY <1>1 DEF b
    <2>. QED  BY <1>1, <2>2, <2>3
  <1> DEFINE s1 == SubSeq(server, 1, p - 1)  s2 == SubSeq(server, p, Len(server))
  <1>5. /\ s1 \in Seq(Question) /\ Len(s1) = p - 1 /\ \A i \in 1..(p - 1) : s1[i] = server[i]
        /\ s2 \in Seq(Question) /\ Len(s2) = Len(server) - p + 1
        /\ \A i \in 1..(Len(server) - p + 1) : s2[i] = server[p + i - 1]
        /\ server' = s1 \o <<k>> \o s2
    BY <1>2, <1>3, <1>4
  <1> HIDE DEF s1, s2
  <1>6. s1 \o <<k>> \in Seq(Question) /\ Len(s1 \o <<k>>) = p
        /\ \A i \in 1..p : (s1 \o <<k>>)[i] = IF i < p THEN server[i] ELSE k
    BY <1>1, <1>5
  <1> DEFINE s3 == s1 \o <<k>>
  <1> HIDE DEF s3
  <1>7. /\ server' \in Seq(Question) /\ Len(server') = Len(server) + 1
        /\ \A i \in 1..(Len(server) + 1) :
              server'[i] = IF i <= p THEN s3[i] ELSE s2[i - p]
    <2>1. server' = s3 \o s2 /\ s3 \in Seq(Question) /\ Len(s3) = p
      BY <1>5, <1>6 DEF s3
    <2>2. /\ s3 \o s2 \in Seq(Question) /\ Len(s3 \o s2) = Len(s3) + Len(s2)
          /\ \A i \in 1..(Len(s3) + Len(s2)) :
                (s3 \o s2)[i] = IF i <= Len(s3) THEN s3[i] ELSE s2[i - Len(s3)]
      BY <1>5, <2>1, ConcatProperties
    <2>3. Len(s3) + Len(s2) = Len(server) + 1
      BY <1>1, <1>5, <2>1
    <2>. QED  BY <2>1, <2>2, <2>3
  <1>8. \A i \in 1..(Len(server) + 1) :
            server'[i] = IF i < p THEN server[i] ELSE IF i = p THEN k ELSE server[i - 1]
    <2>1. ASSUME NEW i \in 1..(Len(server) + 1), i <= p
          PROVE  server'[i] = IF i < p THEN server[i] ELSE k
      BY <1>1, <1>6, <1>7, <2>1 DEF s3
    <2>2. ASSUME NEW i \in 1..(Len(server) + 1), i > p PROVE server'[i] = server[i - 1]
      <3>1. server'[i] = s2[i - p] /\ i - p \in 1..(Len(server) - p + 1) /\ p + (i - p) - 1 = i - 1
        BY <1>1, <1>7, <2>2
      <3>. QED  BY <1>5, <3>1
    <2>. QED  BY <1>1, <2>1, <2>2
  <1>9. \A i \in 1..Len(server) : server[i] # k
    BY <1>1 DEF Shown!ToSet
  <1> DEFINE to(i) == IF i < p THEN i ELSE i + 1
  <1>10. ASSUME NEW i \in 1..Len(server)
         PROVE  to(i) \in 1..Len(server') /\ server'[to(i)] = server[i]
    <2>1. CASE i < p
      <3>1. to(i) = i /\ i \in 1..(Len(server) + 1)
        BY <1>1, <2>1
      <3> HIDE DEF to
      <3>. QED  BY <1>7, <1>8, <2>1, <3>1
    <2>2. CASE ~(i < p)
      <3>1. to(i) = i + 1 /\ i + 1 \in 1..(Len(server) + 1)
            /\ ~(i + 1 < p) /\ i + 1 # p /\ (i + 1) - 1 = i
        BY <1>1, <2>2
      <3> HIDE DEF to
      <3>. QED  BY <1>7, <1>8, <3>1
    <2>. QED  BY <2>1, <2>2
  <1>11. \A i, j \in 1..Len(server) : i < j => to(i) < to(j)
    BY <1>1
  <1>14. \A a \in 1..Len(server') : a = p \/ \E i \in 1..Len(server) : a = to(i)
    <2>1. ASSUME NEW a \in 1..(Len(server) + 1), a < p PROVE a \in 1..Len(server) /\ a = to(a)
      BY <1>1, <2>1
    <2>2. ASSUME NEW a \in 1..(Len(server) + 1), a > p
          PROVE a - 1 \in 1..Len(server) /\ a = to(a - 1)
      BY <1>1, <2>2
    <2> HIDE DEF to
    <2>. QED  BY <1>1, <1>7, <2>1, <2>2
  <1>15. server'[p] = k
    BY <1>1, <1>8
  <1> HIDE DEF to
  <1>12. Extended
    BY <1>7, <1>10, <1>11 DEF Extended
  <1>13. SavedOnce'
    <2>1. ASSUME NEW a \in 1..Len(server'), NEW b \in 1..Len(server'), server'[a] = server'[b]
          PROVE  a = b
      <3>1. CASE a = p /\ b = p
        BY <3>1
      <3>2. ASSUME NEW i \in 1..Len(server), {a, b} = {p, to(i)} PROVE FALSE
        BY <1>9, <1>10, <1>15, <2>1, <3>2
      <3>3. ASSUME NEW i \in 1..Len(server), NEW j \in 1..Len(server), a = to(i), b = to(j)
            PROVE  a = b
        BY <1>10, <2>1, <3>3 DEF SavedOnce
      <3>. QED  BY <1>14, <3>1, <3>2, <3>3
    <2>. QED  BY <2>1 DEF SavedOnce
  <1>. QED  BY <1>12, <1>13

LEMMA SavedStays ==
    ASSUME ShownTyped, SavedOnce, NEW k \in Question, NEW before,
           server' \in IF k \in Shown!ToSet(server) THEN {server} ELSE Shown!Places(k, before)
    PROVE  Extended /\ SavedOnce'
  <1>1. server \in Seq(Question) /\ Len(server) \in Nat
    BY DEF ShownTyped
  <1>2. CASE k \in Shown!ToSet(server)
    BY <1>1, <1>2 DEF Extended, SavedOnce
  <1>3. CASE k \notin Shown!ToSet(server)
    <2>1. PICK p \in 1..(Len(server) + 1) : server' = Shown!InsertAt(server, p, k)
      BY <1>3 DEF Shown!Places
    <2>. QED  BY <1>3, <2>1, PlacedOnce
  <1>. QED  BY <1>2, <1>3

\* Where server, caches and reads stay, what is said of them does.
LEMMA ShownKept ==
    ASSUME ShownInv, Extended, SavedOnce', Shown!Recorded' \subseteq Turn,
           cache' = cache, fetch' = fetch,
           mounted' \subseteq mounted
    PROVE  ShownInv'
  <1>1. ShownTyped'
    BY DEF ShownInv, ShownTyped, Extended
  <1>2. ASSUME NEW l \in Limit PROVE CacheSound(l)' /\ FetchSound(l)'
    <2>1. CacheSound(l) /\ FetchSound(l)
      BY DEF ShownInv
    <2>2. CacheSound(l)'
      BY <2>1, ReadableStays DEF CacheSound
    <2>3. Shown!Items(fetch[l])' = Shown!Items(fetch[l])
      BY DEF Shown!Items
    <2>4. Reached(fetch[l])'
      BY <2>1, <2>3, FollowsStays DEF FetchSound, Reached
    <2>5. fetch[l].more => Readable(fetch[l].pages)'
      BY <2>1, ReadableStays DEF FetchSound
    <2>. QED  BY <2>1, <2>2, <2>4, <2>5 DEF FetchSound, Shown!NoFetch
  <1>. QED  BY <1>1, <1>2 DEF ShownInv, Shown!HasQuery

-----------------------------------------------------------------------------
(* The caches and the reads.                                               *)

LEMMA ReadingSound ==
    ASSUME ShownTyped, NEW pages \in Pages, NEW n \in Nat \ {0}
    PROVE  /\ Shown!Reading(pages, n) \in Fetching
           /\ Shown!Reading(pages, n).more /\ Shown!Reading(pages, n).pages = pages
           /\ Shown!Reading(pages, n).want > 0
           /\ Reached(Shown!Reading(pages, n))
  <1> DEFINE read == Shown!Reading(pages, n)  had == Shown!Items([pages |-> pages])
  <1>1. Len(pages) \in Nat /\ pages \in Seq(Seq(Question))
    BY DEF Pages
  <1>2. \A p \in DOMAIN pages : Shown!ToSet(pages[p]) \subseteq Question
    BY <1>1 DEF Shown!ToSet
  <1>3. had \subseteq Question
    BY <1>2, ItemsHold
  <1> HIDE DEF had
  <1>4. read = [want |-> Len(pages) + n, pages |-> pages, more |-> TRUE, asof |-> had]
    BY DEF Shown!Reading, had
  <1> HIDE DEF read
  <1>5. read.pages = pages /\ read.asof = had /\ Shown!Items(read) = had
    BY <1>4 DEF Shown!Items, had
  <1>6. Reached(read)
    BY <1>5 DEF Reached
  <1>7. read \in Fetching /\ read.more /\ read.want > 0
    BY <1>1, <1>3, <1>4 DEF Fetching
  <1>. QED  BY <1>5, <1>6, <1>7 DEF read

LEMMA FromStartSound ==
    ASSUME ShownTyped, NEW l \in Limit
    PROVE  /\ Shown!FromStart(l) \in Fetching /\ Shown!FromStart(l).more
              /\ Shown!FromStart(l).pages = <<>>
           /\ Shown!FromStart(l).want > 0 /\ Reached(Shown!FromStart(l)) /\ Readable(<<>>)
  <1>1. cache[l].pages \in Pages
    BY DEF ShownTyped, Data
  <1>2. <<>> \in Pages
    BY DEF Pages
  <1>4. cache[l].pages # <<>> => Len(cache[l].pages) \in Nat \ {0}
    BY <1>1 DEF Pages
  <1>5. \E n \in Nat \ {0} : Shown!FromStart(l) = Shown!Reading(<<>>, n)
    BY <1>4 DEF Shown!FromStart
  <1>. QED  BY <1>2, <1>5, ReadingSound DEF Readable

\* A cache to which a saved question was brought.
LEMMA UpsertSound ==
    ASSUME ShownTyped, NEW l \in Limit, NEW k \in Turn
    PROVE  /\ Shown!Upserted(l, k) \in Data
           /\ Shown!Upserted(l, k) = cache[l] \/ ~Shown!Upserted(l, k).more
           /\ Shown!Upserted(l, k) = Shown!NoData => cache[l] = Shown!NoData
           /\ Shown!Items(cache[l]) \subseteq Shown!Items(Shown!Upserted(l, k))
           /\ Shown!Retained(l, k) => k \in Shown!Items(Shown!Upserted(l, k))
  <1> DEFINE data == cache[l]  n == Len(data.pages)
  <1>1. data \in Data /\ data.pages \in Pages /\ n \in Nat /\ k \in Question
    BY DEF ShownTyped, Data, Question, Pages
  <1>2. CASE data.pages = <<>>
    <2>1. Shown!Upserted(l, k) = [pages |-> <<<<k>>>>, more |-> FALSE]
      BY <1>2 DEF Shown!Upserted
    <2>2. <<<<k>>>> \in Pages
      BY <1>1 DEF Pages
    <2>3. Shown!Items(data) = {}
      BY <1>2 DEF Shown!Items
    <2>4. k \in Shown!Items(Shown!Upserted(l, k))
      BY <2>1 DEF Shown!Items, Shown!ToSet
    <2>. QED  BY <2>1, <2>2, <2>3, <2>4 DEF Data, Shown!NoData
  <1>3. CASE data.pages # <<>> /\ (Shown!Holds(data, k) \/ ~Shown!Complete(data))
    <2>1. Shown!Upserted(l, k) = data
      BY <1>3 DEF Shown!Upserted
    <2>. QED  BY <1>1, <1>3, <2>1 DEF Shown!Retained, Shown!Holds
  <1>4. CASE data.pages # <<>> /\ ~Shown!Holds(data, k) /\ Shown!Complete(data)
    <2> DEFINE new == [data.pages EXCEPT ![n] = Append(data.pages[n], k)]
    <2>1. Shown!Upserted(l, k) = [data EXCEPT !.pages[n] = Append(@, k)]
      BY <1>4 DEF Shown!Upserted
    <2>2. n \in 1..n /\ data.pages[n] \in Seq(Question)
      BY <1>1, <1>4 DEF Pages
    <2>3. Append(data.pages[n], k) \in Seq(Question)
      BY <1>1, <2>2
    <2>4. /\ new \in Pages /\ DOMAIN new = 1..n /\ DOMAIN data.pages = 1..n /\ Len(new) = n
          /\ new[n] = Append(data.pages[n], k)
          /\ \A p \in 1..n : p # n => new[p] = data.pages[p]
      <3>1. data.pages \in Seq(Seq(Question)) /\ n \in 1..n /\ DOMAIN data.pages = 1..n
        BY <1>1, <2>2 DEF Pages
      <3> DEFINE was == data.pages  e == Append(was[n], k)  S == Seq(Question)
      <3>2. was \in Seq(S) /\ n \in 1..Len(was) /\ e \in S
        BY <2>3, <3>1
      <3> HIDE DEF was, e, S, n
      <3>3. /\ [was EXCEPT ![n] = e] \in Seq(S) /\ Len([was EXCEPT ![n] = e]) = Len(was)
            /\ \A p \in 1..Len(was) : [was EXCEPT ![n] = e][p] = IF p = n THEN e ELSE was[p]
        BY <3>2, ExceptSeq
      <3>4. new = [was EXCEPT ![n] = e] /\ Len(was) = n
        BY DEF was, e, n
      <3>. QED  BY <3>1, <3>2, <3>3, <3>4 DEF Pages, S, was, e
    <2>5. Shown!Upserted(l, k) = [pages |-> new, more |-> FALSE]
      BY <1>1, <1>4, <2>1 DEF Shown!Complete, Data
    <2> HIDE DEF new
    <2>6. ASSUME NEW s \in Seq(Question) PROVE Shown!ToSet(Append(s, k)) = Shown!ToSet(s) \cup {k}
      <3>1. /\ DOMAIN Append(s, k) = 1..(Len(s) + 1) /\ DOMAIN s = 1..Len(s) /\ Len(s) \in Nat
            /\ Append(s, k)[Len(s) + 1] = k /\ \A i \in 1..Len(s) : Append(s, k)[i] = s[i]
        BY <1>1
      <3>. QED  BY <3>1 DEF Shown!ToSet
    <2>7. Shown!ToSet(new[n]) = Shown!ToSet(data.pages[n]) \cup {k}
      BY <2>2, <2>4, <2>6
    <2>8. \A p \in 1..n : Shown!ToSet(data.pages[p]) \subseteq Shown!ToSet(new[p])
      BY <2>4, <2>7
    <2>9. Shown!Items(data) \subseteq Shown!Items(Shown!Upserted(l, k))
          /\ k \in Shown!Items(Shown!Upserted(l, k))
      <3>1. Shown!Upserted(l, k).pages = new
        BY <2>5
      <3>. QED  BY <2>2, <2>4, <2>7, <2>8, <3>1, ItemsHold
    <2>10. ~Shown!Upserted(l, k).more /\ Shown!Upserted(l, k) \in Data
      BY <2>4, <2>5 DEF Data
    <2>. QED  BY <2>9, <2>10 DEF Shown!NoData
  <1>. QED  BY <1>2, <1>3, <1>4

\* A page that was read.
LEMMA PageSound ==
    ASSUME ShownSetting, ShownInv, NEW l \in Limit, Shown!ReadPage(l)
    PROVE  /\ fetch'[l] \in Fetching /\ fetch'[l].want > 0
           /\ fetch'[l].more => Readable(fetch'[l].pages)
           /\ Reached(fetch'[l])
  <1> DEFINE f == fetch[l]
             from == IF f.pages = <<>> THEN 0
                     ELSE CHOOSE i \in DOMAIN server : server[i] = Shown!Last(Shown!Last(f.pages))
             rest == SubSeq(server, from + 1, Len(server))
             size == IF Len(rest) > l THEN l ELSE Len(rest)
             page == SubSeq(rest, 1, size)
  <1>1. /\ f \in Fetching /\ f.pages \in Pages /\ f.want \in Nat /\ f.asof \subseteq Question
        /\ server \in Seq(Question) /\ Len(server) \in Nat /\ l \in Nat \ {0}
        /\ fetch \in [Limit -> Fetching]
    BY DEF ShownInv, ShownTyped, Fetching, ShownSetting
  <1>2. /\ f.more /\ Readable(f.pages) /\ Reached(f)
        /\ (f # Shown!NoFetch => f.want > 0) /\ Len(f.pages) < f.want
    BY DEF Shown!ReadPage, ShownInv, FetchSound
  <1>3. fetch'[l] = [want |-> f.want, pages |-> Append(f.pages, page), more |-> Len(rest) > l,
                     asof |-> IF f.pages = <<>> THEN Shown!ToSet(server) ELSE f.asof]
    BY <1>1 DEF Shown!ReadPage, Fetching
  <1>4. PICK n \in 0..Len(server) :
            IF f.pages = <<>> THEN n = 0 ELSE n > 0 /\ server[n] = Cursor(f.pages)
    BY <1>1, <1>2 DEF Readable
  <1>5. from = n /\ n \in 0..Len(server)
    <2>1. CASE f.pages = <<>>
      BY <1>4, <2>1
    <2>2. CASE f.pages # <<>>
      <3>1. n \in DOMAIN server /\ server[n] = Shown!Last(Shown!Last(f.pages))
        BY <1>1, <1>4, <2>2 DEF Cursor
      <3>2. \A i \in DOMAIN server : server[i] = Shown!Last(Shown!Last(f.pages)) => i = n
        BY <1>1, <3>1 DEF ShownInv, SavedOnce
      <3>. QED  BY <1>1, <2>2, <3>1, <3>2
    <2>. QED  BY <2>1, <2>2
  <1> HIDE DEF from
  <1>6. /\ rest \in Seq(Question) /\ Len(rest) = Len(server) - n
        /\ \A i \in 1..Len(rest) : rest[i] = server[n + i]
    <2>1. n + 1 \in Int /\ Len(server) \in Int /\ rest = SubSeq(server, n + 1, Len(server))
      BY <1>1, <1>5
    <2>2. \A i \in (n + 1)..Len(server) : server[i] \in Question
      BY <1>1, <1>5
    <2> DEFINE a == n + 1  b == Len(server)
    <2> HIDE DEF a, b
    <2>3. /\ SubSeq(server, a, b) \in Seq(Question)
          /\ Len(SubSeq(server, a, b)) = IF a <= b THEN b - a + 1 ELSE 0
          /\ \A i \in 1..(b - a + 1) : SubSeq(server, a, b)[i] = server[a + i - 1]
      <3>1. a \in Int /\ b \in Int /\ \A i \in a..b : server[i] \in Question
        BY <2>1, <2>2 DEF a, b
      <3>. QED  BY <3>1, SubSeqProperties
    <2>4. rest = SubSeq(server, a, b)
      BY <2>1 DEF a, b
    <2> HIDE DEF rest
    <2>. QED  BY <1>1, <1>5, <2>3, <2>4 DEF a, b
  <1> HIDE DEF rest
  <1>7. size \in 0..Len(rest) /\ (Len(rest) > l => size = l)
        /\ (~(Len(rest) > l) => size = Len(rest))
    BY <1>1, <1>5, <1>6
  <1> HIDE DEF size
  <1>8. /\ page \in Seq(Question) /\ Len(page) = size
        /\ \A i \in 1..size : page[i] = server[n + i]
    <2>1. 1 \in Int /\ size \in Int /\ \A i \in 1..size : i \in 1..Len(rest)
      BY <1>6, <1>7
    <2>2. \A i \in 1..size : rest[i] \in Question
      BY <1>6, <2>1
    <2>3. /\ page \in Seq(Question) /\ Len(page) = IF 1 <= size THEN size - 1 + 1 ELSE 0
          /\ \A i \in 1..(size - 1 + 1) : page[i] = rest[1 + i - 1]
      BY <2>1, <2>2, SubSeqProperties
    <2> HIDE DEF page
    <2>4. \A i \in 1..size : 1 + i - 1 = i /\ i \in 1..Len(rest) /\ i \in 1..(size - 1 + 1)
      BY <1>6, <1>7, <2>1
    <2>5. Len(page) = size
      BY <1>1, <1>5, <1>6, <1>7, <2>3
    <2>. QED  BY <1>6, <2>3, <2>4, <2>5
  <1> HIDE DEF page
  <1> DEFINE all == Append(f.pages, page)
  <1>9. /\ all \in Pages /\ Len(all) = Len(f.pages) + 1 /\ Len(f.pages) \in Nat
        /\ all[Len(all)] = page /\ \A p \in DOMAIN f.pages : p \in DOMAIN all /\ all[p] = f.pages[p]
        /\ Len(all) \in DOMAIN all
    <2>1. f.pages \in Seq(Seq(Question)) /\ page \in Seq(Question)
      BY <1>1, <1>8 DEF Pages
    <2>2. /\ all \in Seq(Seq(Question)) /\ Len(all) = Len(f.pages) + 1 /\ Len(f.pages) \in Nat
          /\ DOMAIN f.pages = 1..Len(f.pages) /\ DOMAIN all = 1..Len(all)
      BY <2>1
    <2>3. all[Len(f.pages) + 1] = page /\ \A p \in 1..Len(f.pages) : all[p] = f.pages[p]
      BY <2>1
    <2> HIDE DEF all
    <2>. QED  BY <2>2, <2>3 DEF Pages
  <1> DEFINE due == IF f.pages = <<>> THEN Shown!ToSet(server) ELSE f.asof
  <1>14. due \subseteq Question
    BY <1>1 DEF Shown!ToSet
  <1>15. \A k \in due : k \in Shown!Items(f) \/ \E j \in (n + 1)..Len(server) : server[j] = k
    <2>1. CASE f.pages = <<>>
      BY <1>1, <1>4, <2>1 DEF Shown!ToSet
    <2>2. CASE f.pages # <<>>
      <3>1. ASSUME NEW k \in f.asof, k \notin Shown!Items(f)
            PROVE  \E j \in (n + 1)..Len(server) : server[j] = k
        <4>1. PICK i, j \in 1..Len(server) : i < j /\ server[i] = Cursor(f.pages) /\ server[j] = k
          BY <1>2, <3>1 DEF Reached, Follows
        <4>2. i = n
          BY <1>1, <1>4, <2>2, <4>1 DEF ShownInv, SavedOnce
        <4>. QED  BY <1>1, <4>1, <4>2
      <3>. QED  BY <2>2, <3>1
    <2>. QED  BY <2>1, <2>2
  <1> HIDE DEF due
  <1>10. /\ fetch'[l].pages = all /\ (fetch'[l].more <=> Len(rest) > l)
         /\ fetch'[l].asof = due /\ fetch'[l].want = f.want
         /\ fetch'[l] \in Fetching
    <2>1. fetch'[l].pages = all /\ fetch'[l].asof = due /\ fetch'[l].want = f.want
      BY <1>3 DEF due
    <2> DEFINE read(m) == [want |-> f.want, pages |-> all, more |-> m, asof |-> due]
    <2>2. \A m \in BOOLEAN : read(m) \in Fetching /\ (read(m).more <=> m)
      BY <1>1, <1>9, <1>14 DEF Fetching
    <2>3. fetch'[l] = read(Len(rest) > l)
      BY <1>3 DEF due
    <2>4. (Len(rest) > l) \in BOOLEAN
      BY <1>1, <1>6
    <2> HIDE DEF read
    <2>5. fetch'[l] \in Fetching /\ (fetch'[l].more <=> Len(rest) > l)
      BY <2>2, <2>3, <2>4
    <2>. QED  BY <2>1, <2>5
  <1> HIDE DEF all
  <1>11. Shown!Items(f) \subseteq Shown!Items(fetch'[l])
    <2>1. \A k : k \in Shown!Items(f) => \E p \in DOMAIN all : k \in Shown!ToSet(all[p])
      BY <1>9, ItemsHold
    <2>. QED  BY <1>10, <2>1, ItemsHold
  <1>12. ASSUME fetch'[l].more
         PROVE  /\ n + size \in 1..Len(server) /\ all # <<>> /\ Len(all[Len(all)]) > 0
                /\ server[n + size] = Cursor(all)
    <2>1. size = l /\ size > 0 /\ n + size \in 1..Len(server)
      BY <1>1, <1>5, <1>6, <1>7, <1>10, <1>12
    <2>2. Len(all[Len(all)]) > 0 /\ Shown!Last(Shown!Last(all)) = server[n + size]
      BY <1>8, <1>9, <2>1 DEF Shown!Last
    <2>3. all # <<>>
      BY <1>9
    <2>. QED  BY <2>1, <2>2, <2>3 DEF Cursor
  <1>13. ASSUME NEW j \in (n + 1)..Len(server)
         PROVE  server[j] \in Shown!Items(fetch'[l]) \/ (fetch'[l].more /\ Follows(server[j], all))
    <2>1. CASE j <= n + size
      <3>1. j - n \in 1..size /\ page[j - n] = server[n + (j - n)] /\ n + (j - n) = j
        BY <1>5, <1>7, <1>8, <2>1
      <3>2. server[j] \in Shown!ToSet(page)
        BY <1>8, <3>1 DEF Shown!ToSet
      <3>. QED  BY <1>9, <1>10, <3>2, ItemsHold
    <2>2. CASE j > n + size
      <3>1. fetch'[l].more
        BY <1>5, <1>6, <1>7, <1>10, <2>2
      <3>2. /\ n + size \in 1..Len(server) /\ j \in 1..Len(server) /\ n + size < j
            /\ server[n + size] = Cursor(all)
        BY <1>1, <1>5, <1>12, <2>2, <3>1
      <3>. QED  BY <3>1, <3>2 DEF Follows
    <2>. QED  BY <1>1, <1>5, <1>7, <2>1, <2>2
  <1>16. Reached(fetch'[l])
    <2>1. ASSUME NEW k \in due, k \notin Shown!Items(fetch'[l])
          PROVE  fetch'[l].more /\ all # <<>> /\ Follows(k, all)
      <3>1. PICK j \in (n + 1)..Len(server) : server[j] = k
        BY <1>11, <1>15, <2>1
      <3>. QED  BY <1>12, <1>13, <2>1, <3>1
    <2>. QED  BY <1>10, <2>1 DEF Reached
  <1>17. fetch'[l].more => Readable(fetch'[l].pages)
    BY <1>10, <1>12 DEF Readable
  <1>18. f.want > 0
    BY <1>1, <1>2, <1>9
  <1>. QED  BY <1>10, <1>16, <1>17, <1>18

-----------------------------------------------------------------------------
(* The invariant holds.                                                    *)

LEMMA ShownBegins ==
    ASSUME ShownSetting, Shown!Init
    PROVE  ShownInv
  <1>1. <<>> \in Seq(Question) /\ <<>> \in Pages /\ Len(<<>>) = 0
    BY DEF Pages
  <1>2. Shown!NoData \in Data /\ Shown!NoFetch \in Fetching
    BY <1>1 DEF Shown!NoData, Shown!NoFetch, Data, Fetching
  <1>3. ShownTyped
    BY <1>1, <1>2 DEF Shown!Init, ShownTyped, Shown!Recorded
  <1>4. SavedOnce
    BY <1>1 DEF Shown!Init, SavedOnce
  <1>6. ASSUME NEW l \in Limit PROVE CacheSound(l) /\ FetchSound(l)
    BY DEF Shown!Init, CacheSound, FetchSound, Readable, Reached, Shown!NoData, Shown!NoFetch
  <1>. QED  BY <1>3, <1>4, <1>6 DEF Shown!Init, ShownInv

\* Steps that leave the server.
LEMMA ShownCached ==
    ASSUME ShownInv, server' = server, Shown!Recorded' \subseteq Turn, mounted' \subseteq Limit,
           cache' \in [Limit -> Data], fetch' \in [Limit -> Fetching],
           \A l \in Limit : cache'[l].more => Readable(cache'[l].pages),
           \A l \in Limit : fetch'[l] = fetch[l] \/
               /\ fetch'[l] # Shown!NoFetch => fetch'[l].want > 0
               /\ fetch'[l].more => Readable(fetch'[l].pages)
               /\ Reached(fetch'[l]),
           \A l \in mounted' : cache'[l] # Shown!NoData \/ fetch'[l] # Shown!NoFetch
    PROVE  ShownInv'
  <1>1. ShownTyped' /\ SavedOnce'
    BY DEF ShownInv, ShownTyped, SavedOnce
  <1>2. ASSUME NEW pages, Readable(pages) PROVE Readable(pages)'
    BY <1>2 DEF Readable, Cursor
  <1>3. ASSUME NEW l \in Limit PROVE CacheSound(l)' /\ FetchSound(l)'
    <2>1. CacheSound(l)'
      BY <1>2 DEF CacheSound
    <2>2. FetchSound(l)
      BY DEF ShownInv
    <2> DEFINE f == fetch'[l]
    <2>3. /\ f.more => Readable(f.pages)
          /\ Reached(f)
          /\ f # Shown!NoFetch => f.want > 0
      BY <2>2 DEF FetchSound
    <2>4. Reached(fetch[l])'
      BY <2>3 DEF Reached, Follows, Cursor, Shown!Items
    <2>. QED  BY <1>2, <2>1, <2>3, <2>4 DEF FetchSound, Shown!NoFetch
  <1>. QED  BY <1>1, <1>3 DEF ShownInv, Shown!HasQuery, Shown!NoData, Shown!NoFetch

LEMMA ShownNext ==
    ASSUME ShownSetting, ShownInv, [Shown!Next]_(Shown!vars)
    PROVE  ShownInv'
  <1>1. ShownTyped /\ SavedOnce /\ Shown!Recorded \subseteq Turn /\ Len(server) \in Nat
    BY DEF ShownInv, ShownTyped
  <1>2. server' = server => Extended /\ SavedOnce'
    BY <1>1 DEF Extended, SavedOnce, ShownTyped
  <1>3. records' = records => Shown!Recorded' = Shown!Recorded
    BY DEF Shown!Recorded
  <1>4. CASE UNCHANGED Shown!vars
    BY <1>1, <1>2, <1>3, <1>4, ShownKept DEF Shown!vars
  <1>5. CASE Shown!Relist
    <2>1. Shown!Recorded' = {}
      BY <1>5 DEF Shown!Relist, Shown!Recorded
    <2>. QED  BY <1>2, <1>5, <2>1, ShownKept DEF Shown!Relist
  <1>6. ASSUME NEW k \in Turn, Shown!Begin(k) \/ Shown!Retry(k) \/ Shown!MarkUnsynced(k)
        PROVE ShownInv'
    <2>1. \E r : records' = Shown!With(k, r)
      BY <1>6 DEF Shown!Begin, Shown!Retry, Shown!MarkUnsynced
    <2>2. Shown!Recorded' \subseteq Turn
      BY <1>1, <2>1, RecordsWith
    <2>. QED  BY <1>2, <1>6, <2>2, ShownKept DEF Shown!Begin, Shown!Retry, Shown!MarkUnsynced
  <1>7. ASSUME NEW k \in Turn, Shown!Save(k) \/ Shown!LoseAnswer(k) PROVE ShownInv'
    <2>1. k \in Question
      BY DEF Question
    <2>2. Extended /\ SavedOnce'
      BY <1>1, <1>2, <1>7, <2>1, SavedStays DEF Shown!Save, Shown!LoseAnswer
    <2>. QED  BY <1>1, <1>3, <1>7, <2>2, ShownKept DEF Shown!Save, Shown!LoseAnswer
  <1>8. ASSUME NEW k \in Foreign, Shown!SaveForeign(k) PROVE ShownInv'
    <2>1. k \in Question
      BY DEF Question
    <2>2. Extended /\ SavedOnce'
      BY <1>1, <1>8, <2>1, SavedStays DEF Shown!SaveForeign
    <2>. QED  BY <1>1, <1>3, <1>8, <2>2, ShownKept DEF Shown!SaveForeign
  <1>9. ASSUME NEW l \in Limit, Shown!Unmount(l) PROVE ShownInv'
    BY <1>1, <1>2, <1>3, <1>9, ShownKept DEF Shown!Unmount
  <1>10. \A l \in Limit : cache[l].more => Readable(cache[l].pages)
    BY DEF ShownInv, CacheSound
  <1>11. cache \in [Limit -> Data] /\ fetch \in [Limit -> Fetching] /\ mounted \subseteq Limit
    BY <1>1 DEF ShownTyped
  <1>12. \A l \in mounted : cache[l] # Shown!NoData \/ fetch[l] # Shown!NoFetch
    BY DEF ShownInv, Shown!HasQuery
  <1>13. \A l \in Limit : /\ Shown!FromStart(l) \in Fetching /\ Shown!FromStart(l).more
                          /\ Readable(Shown!FromStart(l).pages) /\ Shown!FromStart(l).want > 0
                          /\ Shown!FromStart(l) # Shown!NoFetch /\ Reached(Shown!FromStart(l))
    BY <1>1, FromStartSound DEF Shown!NoFetch
  <1>14. ASSUME NEW k \in Turn, Shown!Reconcile(k) PROVE ShownInv'
    <2>1. CASE k \in Shown!Recorded
      <3>1. /\ cache' = [l \in Limit |->
                   IF l \in Shown!Targets THEN Shown!Upserted(l, k) ELSE cache[l]]
            /\ records' = Shown!With(k, Shown!Synced(Shown!Resolved(k)))
            /\ UNCHANGED <<server, fetch, mounted>>
        BY <1>14, <2>1 DEF Shown!Reconcile
      <3>2. Shown!Recorded' \subseteq Turn
        BY <1>1, <3>1, RecordsWith
      <3>3. ASSUME NEW l \in Limit
            PROVE  /\ cache'[l] \in Data
                   /\ cache'[l].more => Readable(cache'[l].pages)
                   /\ cache'[l] = Shown!NoData => cache[l] = Shown!NoData
        BY <1>1, <1>10, <1>11, <3>1, UpsertSound
      <3>4. cache' \in [Limit -> Data]
        BY <3>1, <3>3
      <3>. QED  BY <1>11, <1>12, <3>1, <3>2, <3>3, <3>4, ShownCached
    <2>2. CASE k \notin Shown!Recorded
      BY <1>1, <1>2, <1>3, <1>14, <2>2, ShownKept DEF Shown!Reconcile
    <2>. QED  BY <2>1, <2>2
  <1>15. ASSUME NEW m \in Limit, Shown!Mount(m) PROVE ShownInv'
    <2>1. /\ mounted' = mounted \cup {m} /\ UNCHANGED <<server, records, cache>>
          /\ \E stale \in BOOLEAN : fetch' = [fetch EXCEPT ![m] =
                IF @ = Shown!NoFetch /\ (stale \/ cache[m] = Shown!NoData)
                   THEN Shown!FromStart(m) ELSE @]
      BY <1>15 DEF Shown!Mount
    <2>2. \A l \in Limit : fetch'[l] = fetch[l] \/ fetch'[l] = Shown!FromStart(l)
      BY <1>11, <2>1
    <2>3. fetch' \in [Limit -> Fetching]
      BY <1>11, <1>13, <2>1
    <2>4. \A l \in Limit : fetch[l] # Shown!NoFetch => fetch'[l] # Shown!NoFetch
      BY <1>13, <2>2
    <2>5. cache[m] # Shown!NoData \/ fetch'[m] # Shown!NoFetch
      BY <1>11, <1>13, <2>1
    <2>. QED  BY <1>1, <1>3, <1>10, <1>11, <1>12, <1>13, <2>1, <2>2, <2>3, <2>4, <2>5, ShownCached
  <1>16. ASSUME NEW m \in Limit, Shown!FetchNext(m) PROVE ShownInv'
    <2>1. /\ fetch' = [fetch EXCEPT ![m] = Shown!Reading(cache[m].pages, 1)]
          /\ cache[m].more /\ UNCHANGED <<server, records, cache, mounted>>
      BY <1>16 DEF Shown!FetchNext
    <2>2. cache[m].pages \in Pages /\ Readable(cache[m].pages)
      BY <1>10, <1>11, <2>1 DEF Data
    <2> DEFINE read == Shown!Reading(cache[m].pages, 1)
    <2>3. read \in Fetching /\ read.more /\ read.pages = cache[m].pages /\ read.want > 0
          /\ Reached(read)
      BY <1>1, <2>2, ReadingSound
    <2> HIDE DEF read
    <2>4. read # Shown!NoFetch
      BY <2>3 DEF Shown!NoFetch
    <2>5. fetch' \in [Limit -> Fetching]
          /\ \A l \in Limit : fetch'[l] = IF l = m THEN read ELSE fetch[l]
      BY <1>11, <2>1, <2>3 DEF read
    <2>. QED  BY <1>1, <1>3, <1>10, <1>11, <1>12, <2>1, <2>2, <2>3, <2>4, <2>5, ShownCached
  <1>17. ASSUME NEW m \in Limit, Shown!ReadPage(m) PROVE ShownInv'
    <2>1. /\ \E v : fetch' = [fetch EXCEPT ![m] = v]
          /\ UNCHANGED <<server, records, cache, mounted>>
      BY <1>17 DEF Shown!ReadPage
    <2>2. fetch'[m] \in Fetching
      BY <1>17, PageSound
    <2>4. fetch' \in [Limit -> Fetching] /\ \A l \in Limit : l # m => fetch'[l] = fetch[l]
      BY <1>11, <2>1, <2>2
    <2>3. fetch'[m] # Shown!NoFetch
      BY <1>17, PageSound DEF Shown!NoFetch
    <2>. QED  BY <2>4, <1>1, <1>3, <1>10, <1>11, <1>12, <1>17,
                 <2>1, <2>2, <2>3, PageSound, ShownCached
  <1>18. ASSUME NEW m \in Limit, Shown!Settle(m) PROVE ShownInv'
    <2>1. /\ fetch[m] # Shown!NoFetch /\ (Len(fetch[m].pages) = fetch[m].want \/ ~fetch[m].more)
          /\ cache' = [cache EXCEPT ![m] = [pages |-> fetch[m].pages, more |-> fetch[m].more]]
          /\ fetch' = [fetch EXCEPT ![m] = Shown!NoFetch]
          /\ UNCHANGED <<server, records, mounted>>
      BY <1>18 DEF Shown!Settle
    <2>2. fetch[m] \in Fetching /\ FetchSound(m)
      BY <1>11 DEF ShownInv
    <2> DEFINE got == [pages |-> fetch[m].pages, more |-> fetch[m].more]
    <2>3. got \in Data /\ (got.more => Readable(got.pages))
      BY <2>2 DEF FetchSound, Data, Fetching
    <2>4. got # Shown!NoData
      BY <2>1, <2>2 DEF FetchSound, Shown!NoData
    <2> HIDE DEF got
    <2>5. /\ cache' \in [Limit -> Data]
          /\ \A l \in Limit : cache'[l] = IF l = m THEN got ELSE cache[l]
      BY <1>11, <2>1, <2>3 DEF got
    <2>6. /\ Shown!NoFetch \in Fetching /\ Readable(Shown!NoFetch.pages) /\ Shown!NoFetch.more
          /\ Reached(Shown!NoFetch)
      <3>1. Shown!NoFetch.pages = <<>> /\ Shown!NoFetch.more /\ Readable(<<>>)
        BY <1>1, FromStartSound DEF Shown!NoFetch
      <3>2. <<>> \in Pages
        BY DEF Pages
      <3>. QED  BY <3>1, <3>2 DEF Shown!NoFetch, Fetching, Reached
    <2>7. /\ fetch' \in [Limit -> Fetching]
          /\ \A l \in Limit : fetch'[l] = IF l = m THEN Shown!NoFetch ELSE fetch[l]
      BY <1>11, <2>1, <2>6
    <2>. QED  BY <1>1, <1>3, <1>10, <1>11, <1>12, <2>1, <2>3, <2>4, <2>5, <2>6, <2>7, ShownCached
  <1>19. CASE Shown!SessionAction
    <2>1. /\ fetch' = [l \in Limit |->
                 IF l \notin mounted THEN fetch[l]
                 ELSE IF cache[l] # Shown!NoData \/ fetch[l] = Shown!NoFetch
                    THEN Shown!FromStart(l) ELSE fetch[l]]
          /\ UNCHANGED <<server, records, cache, mounted>>
      BY <1>19 DEF Shown!SessionAction
    <2>2. \A l \in Limit : fetch'[l] = fetch[l] \/ fetch'[l] = Shown!FromStart(l)
      BY <2>1
    <2>3. fetch' \in [Limit -> Fetching]
      BY <1>11, <1>13, <2>1
    <2>4. \A l \in Limit : fetch[l] # Shown!NoFetch => fetch'[l] # Shown!NoFetch
      BY <1>13, <2>2
    <2>. QED  BY <1>1, <1>3, <1>10, <1>11, <1>12, <1>13, <2>1, <2>2, <2>3, <2>4, ShownCached
  <1>. QED  BY <1>4, <1>5, <1>6, <1>7, <1>8, <1>9, <1>14, <1>15, <1>16, <1>17, <1>18, <1>19
               DEF Shown!Next

-----------------------------------------------------------------------------
(* What the user sees.                                                     *)

\* What Handover says of one step.
StaysInSight ==
    \A l \in mounted \cap mounted' : \A k \in Shown!Shown(l) \ Shown!Shown(l)' :
        \/ k \in Shown!Recorded /\ k \notin Shown!Recorded'
        \/ fetch'[l] = Shown!NoFetch /\ fetch[l] # Shown!NoFetch /\ ~Shown!ReadShows(l, k)

SyncedStays ==
    \A k \in Shown!Recorded \cap Shown!Recorded' :
        records[k].state = "synced" => records'[k].state = "synced"

\* A record that shows its question.
Overlays(k) == records[k].state # "synced" \/ records[k].resolved

LEMMA ShownIs ==
    ASSUME NEW l, NEW k
    PROVE  k \in Shown!Shown(l) <=> k \in Shown!Items(cache[l])
              \/ (k \in Shown!Recorded /\ Overlays(k))
  BY DEF Shown!Shown, Overlays

\* Records and caches untouched.
LEMMA SightKept ==
    ASSUME records' = records, cache' = cache
    PROVE  StaysInSight /\ SyncedStays
  BY DEF StaysInSight, SyncedStays, Shown!Shown, Shown!Items, Shown!Recorded

LEMMA SightStays ==
    ASSUME ShownSetting, ShownInv, Shown!Next
    PROVE  StaysInSight /\ SyncedStays
  <1>1. Shown!Recorded \subseteq Turn /\ ShownTyped /\ mounted \subseteq Limit
    BY DEF ShownInv, ShownTyped
  <1>2. CASE Shown!SessionAction
    BY <1>2, SightKept DEF Shown!SessionAction
  <1>3. ASSUME NEW k \in Turn, Shown!Save(k) \/ Shown!LoseAnswer(k)
        PROVE StaysInSight /\ SyncedStays
    BY <1>3, SightKept DEF Shown!Save, Shown!LoseAnswer
  <1>4. ASSUME NEW k \in Foreign, Shown!SaveForeign(k) PROVE StaysInSight /\ SyncedStays
    BY <1>4, SightKept DEF Shown!SaveForeign
  <1>5. ASSUME NEW l \in Limit, Shown!Mount(l) \/ Shown!Unmount(l) \/ Shown!FetchNext(l)
               \/ Shown!ReadPage(l)
        PROVE  StaysInSight /\ SyncedStays
    BY <1>5, SightKept DEF Shown!Mount, Shown!Unmount, Shown!FetchNext, Shown!ReadPage
  <1>6. CASE Shown!Relist
    <2>1. Shown!Recorded' = {} /\ cache' = cache
      BY <1>6 DEF Shown!Relist, Shown!Recorded
    <2>2. SyncedStays
      BY <2>1 DEF SyncedStays
    <2>3. StaysInSight
      BY <2>1 DEF StaysInSight, Shown!Shown, Shown!Items
    <2>. QED  BY <2>2, <2>3
  <1>7. ASSUME NEW k \in Turn, NEW r, records' = Shown!With(k, r), cache' = cache,
               k \in Shown!Recorded => records[k].state # "synced",
               r.state # "synced" \/ k \notin Shown!Recorded
        PROVE  StaysInSight /\ SyncedStays
    <2>1. /\ Shown!Recorded' = Shown!Recorded \cup {k} /\ records'[k] = r
          /\ \A j \in Shown!Recorded \ {k} : records'[j] = records[j]
      BY <1>1, <1>7, RecordsWith
    <2>2. SyncedStays
      BY <1>7, <2>1 DEF SyncedStays
    <2>3. ASSUME NEW l, NEW j, j \in Shown!Shown(l) PROVE j \in Shown!Shown(l)'
      BY <1>7, <2>1, <2>3 DEF Shown!Shown, Shown!Items
    <2>. QED  BY <2>2, <2>3 DEF StaysInSight
  <1>8. ASSUME NEW k \in Turn, Shown!Begin(k) \/ Shown!Retry(k) \/ Shown!MarkUnsynced(k)
        PROVE  StaysInSight /\ SyncedStays
    <2>1. CASE Shown!Begin(k)
      BY <1>7, <2>1 DEF Shown!Begin
    <2>2. CASE Shown!Retry(k)
      BY <1>7, <2>2 DEF Shown!Retry, Shown!Saving
    <2>3. CASE Shown!MarkUnsynced(k)
      BY <1>7, <2>3 DEF Shown!MarkUnsynced, Shown!Saving, Shown!Unsynced
    <2>. QED  BY <1>8, <2>1, <2>2, <2>3
  <1>9. ASSUME NEW k \in Turn, Shown!Reconcile(k) PROVE StaysInSight /\ SyncedStays
    <2>1. CASE k \notin Shown!Recorded
      BY <1>9, <2>1, SightKept DEF Shown!Reconcile
    <2>2. CASE k \in Shown!Recorded
      <3> DEFINE r == Shown!Synced(Shown!Resolved(k))
      <3>1. /\ cache' = [l \in Limit |->
                   IF l \in Shown!Targets THEN Shown!Upserted(l, k) ELSE cache[l]]
            /\ records' = Shown!With(k, r) /\ mounted' = mounted
        BY <1>9, <2>2 DEF Shown!Reconcile
      <3>2. r.state = "synced" /\ r.resolved = Shown!Resolved(k)
        BY DEF Shown!Synced
      <3> HIDE DEF r
      <3>3. /\ Shown!Recorded' = Shown!Recorded \cup {k} /\ records'[k] = r
            /\ \A j \in Shown!Recorded \ {k} : records'[j] = records[j]
        BY <1>1, <3>1, RecordsWith
      <3>4. SyncedStays
        BY <3>2, <3>3 DEF SyncedStays
      <3>5. ASSUME NEW l \in mounted PROVE l \in Shown!Targets
        BY <1>1 DEF ShownInv, Shown!Targets
      <3>6. ASSUME NEW l \in mounted, NEW j \in Shown!Shown(l) PROVE j \in Shown!Shown(l)'
        <4>1. cache'[l] = Shown!Upserted(l, k)
          BY <1>1, <3>1, <3>5
        <4>2. Shown!Items(cache[l])' = Shown!Items(Shown!Upserted(l, k))
          BY <4>1 DEF Shown!Items
        <4>3. CASE j \in Shown!Items(cache[l])
          BY <1>1, <4>2, <4>3, UpsertSound DEF Shown!Shown
        <4>4. CASE j # k /\ j \in Shown!Recorded /\ Overlays(j)
          BY <3>3, <4>4 DEF Shown!Shown, Overlays
        <4>5. CASE j = k /\ Shown!Resolved(k)
          BY <3>2, <3>3, <4>5 DEF Shown!Shown
        <4>6. CASE j = k /\ ~Shown!Resolved(k)
          <5>1. Shown!Retained(l, k)
            BY <3>5, <4>6 DEF Shown!Resolved
          <5>. QED  BY <1>1, <4>2, <4>6, <5>1, UpsertSound DEF Shown!Shown
        <4>. QED  BY <4>3, <4>4, <4>5, <4>6, ShownIs
      <3>. QED  BY <3>1, <3>4, <3>6 DEF StaysInSight
    <2>. QED  BY <2>1, <2>2
  <1>10. ASSUME NEW m \in Limit, Shown!Settle(m) PROVE StaysInSight /\ SyncedStays
    <2>1. /\ fetch[m] # Shown!NoFetch
          /\ cache' = [cache EXCEPT ![m] = [pages |-> fetch[m].pages, more |-> fetch[m].more]]
          /\ fetch' = [fetch EXCEPT ![m] = Shown!NoFetch]
          /\ UNCHANGED <<server, records, mounted>>
      BY <1>10 DEF Shown!Settle
    <2>2. SyncedStays
      BY <2>1 DEF SyncedStays, Shown!Recorded
    <2>3. /\ cache \in [Limit -> Data] /\ fetch \in [Limit -> Fetching]
          /\ fetch'[m] = Shown!NoFetch
      BY <1>1, <2>1 DEF ShownTyped
    <2>4. ASSUME NEW l \in mounted, NEW k \in Shown!Shown(l), k \notin Shown!Shown(l)'
          PROVE  l = m /\ k \in Shown!Items(cache[l]) /\ k \notin Shown!Items(cache[l])'
      <3>1. k \in Shown!Items(cache[l]) /\ k \notin Shown!Items(cache[l])'
        BY <2>1, <2>4 DEF Shown!Shown, Shown!Recorded
      <3>2. l # m => cache'[l] = cache[l]
        BY <1>1, <2>1, <2>3
      <3>. QED  BY <3>1, <3>2 DEF Shown!Items
    <2>5. ASSUME NEW k, k \notin Shown!Items(cache[m])' PROVE ~Shown!ReadShows(m, k)
      <3>1. Shown!Items(cache[m])' = Shown!Items(fetch[m])
        BY <2>1, <2>3 DEF Shown!Items
      <3>. QED  BY <2>5, <3>1 DEF Shown!ReadShows, ShownInv, FetchSound, Reached
    <2>. QED  BY <2>1, <2>2, <2>3, <2>4, <2>5 DEF StaysInSight
  <1>. QED  BY <1>2, <1>3, <1>4, <1>5, <1>6, <1>8, <1>9, <1>10 DEF Shown!Next

\* Handing a question over from record to page never drops it.
THEOREM HandoverStays ==
    ASSUME ShownSetting
    PROVE  Shown!Spec => Shown!HandoverKeepsTurns
  <1> DEFINE Step ==
        /\ \A l \in mounted \cap mounted' : \A k \in Shown!Shown(l) \ Shown!Shown(l)' :
             \/ k \in Shown!Recorded /\ k \notin Shown!Recorded'
             \/ fetch'[l] = Shown!NoFetch /\ fetch[l] # Shown!NoFetch /\ ~Shown!ReadShows(l, k)
        /\ \A k \in Shown!Recorded \cap Shown!Recorded' :
             records[k].state = "synced" => records'[k].state = "synced"
  <1>1. Shown!Init => ShownInv
    BY ShownBegins
  <1>2. ShownInv /\ [Shown!Next]_(Shown!vars) => ShownInv'
    BY ShownNext
  <1>3. ShownInv /\ [Shown!Next]_(Shown!vars) => [Step]_(Shown!vars)
    BY SightStays DEF StaysInSight, SyncedStays
  <1>. QED  BY <1>1, <1>2, <1>3, PTL DEF Shown!Spec, Shown!HandoverKeepsTurns

-----------------------------------------------------------------------------
(* The runner of the migrations (SchemaMigrations).  Under the lock a plan *)
(* stays what the ledger lacks of the checkout (CommandSound), so each     *)
(* file that is run is the next one, whatever was done by hand meanwhile.  *)

\* Nobody is called "none", and versions are numbers.
SchemaSetting == "none" \notin Target /\ \A f \in Schema!Files : f.version \in Int

CommandKinds == {"none", "apply", "status", "baseline", "mark"}
CommandSteps == {"idle", "lock", "ensure", "plan", "apply"}

SchemaTyped ==
    /\ ledger \subseteq Schema!Files
    /\ ran \in [Schema!Files -> {0, 1}]
    /\ command \in [Target ->
          [kind : CommandKinds, tree : SUBSET Schema!Files, through : Int,
           pc : CommandSteps, plan : SUBSET Schema!Files]]

\* What is recorded took effect, what took effect is recorded or was done by hand, the
\* runner ran what is recorded, and a checkout begins with it.
LedgerSound ==
    /\ ledger \subseteq effects /\ effects \subseteq ledger \cup byHand
    /\ \A f \in Schema!Files : ran[f] = 1 => f \in ledger
    /\ \A f \in ledger : ran[f] = 1 \/ f \in byHand
    /\ \E t \in Checkouts : Schema!Begins(ledger, t)

\* Who reads or writes the ledger holds the lock.
OneRunner ==
    \A o \in Target : command[o].pc \in {"ensure", "plan", "apply"} => migrationLock = o

\* A baseline that was asked for is of migrations that took effect; and a plan is what
\* the ledger still lacks of the checkout it begins, whatever has happened since it was
\* made.
CommandSound(c) ==
    c.pc # "idle" =>
        /\ c.tree \in Checkouts /\ Schema!Discoverable(c.tree)
        /\ c.kind = "baseline" => Schema!Upto(c.tree, c.through) \subseteq effects
        /\ c.pc = "apply" =>
              Schema!Begins(ledger, c.tree) /\ c.plan = Schema!Pending(c.tree, c.through)

SchemaInv ==
    SchemaTyped /\ LedgerSound /\ OneRunner /\ \A o \in Target : CommandSound(command[o])

-----------------------------------------------------------------------------
\* A checkout begins with what it began with and the first of what is left of it
\* up to a version.
LEMMA BeginsWith ==
    ASSUME NEW t \in Checkouts, \A f \in Schema!Files : f.version \in Int,
           Schema!Discoverable(t), NEW S, Schema!Begins(S, t), NEW n \in Int,
           NEW f \in Schema!Upto(t, n) \ S, \A g \in Schema!Upto(t,
           n) \ S : f.version <= g.version
    PROVE  Schema!Begins(S \cup {f}, t)
  <1>1. t \subseteq Schema!Files /\ f \in t
    BY DEF Schema!Files, Schema!Upto
  <1>2. ASSUME NEW g \in t \ (S \cup {f}), NEW h \in S \cup {f} PROVE h.version < g.version
    <2>1. CASE h \in S
      BY <2>1, <1>2 DEF Schema!Begins
    <2>2. CASE h = f /\ g \in Schema!Upto(t, n)
      <3>1. f.version <= g.version /\ f.version # g.version
        BY <1>1, <1>2, <2>2 DEF Schema!Discoverable
      <3>2. f.version \in Int /\ g.version \in Int
        BY <1>1, <1>2
      <3>. QED  BY <2>2, <3>1, <3>2
    <2>3. CASE h = f /\ g \notin Schema!Upto(t, n)
      <3>1. n # 0 /\ ~(g.version <= n) /\ f.version <= n
        BY <1>2, <2>3 DEF Schema!Upto
      <3>2. f.version \in Int /\ g.version \in Int
        BY <1>1, <1>2
      <3>. QED  BY <2>3, <3>1, <3>2
    <2>. QED  BY <1>2, <2>1, <2>2, <2>3
  <1>3. S \cup {f} \subseteq t
    BY <1>1 DEF Schema!Begins
  <1>. QED  BY <1>2, <1>3 DEF Schema!Begins

\* And with all of it up to a version.
LEMMA BeginsUpto ==
    ASSUME NEW t \in Checkouts, \A f \in Schema!Files : f.version \in Int,
           NEW S, Schema!Begins(S, t), NEW n \in Int
    PROVE  Schema!Begins(S \cup Schema!Upto(t, n), t)
  <1>1. t \subseteq Schema!Files
    BY DEF Schema!Files
  <1>2. ASSUME NEW g \in t \ (S \cup Schema!Upto(t, n)), NEW h \in S \cup Schema!Upto(t, n)
        PROVE  h.version < g.version
    <2>1. CASE h \in S
      BY <2>1, <1>2 DEF Schema!Begins
    <2>2. CASE h \in Schema!Upto(t, n)
      <3>1. n # 0 /\ ~(g.version <= n) /\ h.version <= n /\ h \in t
        BY <1>2, <2>2 DEF Schema!Upto
      <3>2. h.version \in Int /\ g.version \in Int
        BY <1>1, <1>2, <3>1
      <3>. QED  BY <3>1, <3>2
    <2>. QED  BY <1>2, <2>1, <2>2
  <1>3. S \cup Schema!Upto(t, n) \subseteq t
    BY DEF Schema!Begins, Schema!Upto
  <1>. QED  BY <1>2, <1>3 DEF Schema!Begins

\* The invariant holds.
LEMMA SchemaBegins ==
    ASSUME SchemaSetting, Schema!MigrationsInit
    PROVE  SchemaInv
  <1>1. SchemaTyped
    BY DEF SchemaTyped, Schema!MigrationsInit, Schema!NoCommand, CommandKinds, CommandSteps
  <1>2. LedgerSound
    BY DEF LedgerSound, Schema!MigrationsInit, Schema!Begins
  <1>3. \A o \in Target : command[o].pc = "idle"
    BY DEF Schema!MigrationsInit, Schema!NoCommand
  <1>. QED  BY <1>1, <1>2, <1>3 DEF SchemaInv, OneRunner, CommandSound

\* Another operator's command stays sound while the ledger is not its own to write.
LEMMA CommandKept ==
    ASSUME NEW c, CommandSound(c), effects \subseteq effects',
           c.pc = "apply" => ledger' = ledger
    PROVE  CommandSound(c)'
  BY DEF CommandSound, Schema!Begins, Schema!Pending

\* Every step keeps the invariant.
LEMMA SchemaNext ==
    ASSUME SchemaSetting, SchemaInv, [Schema!MigrationsNext]_(Schema!migrations)
    PROVE  SchemaInv'
  <1> USE DEF SchemaSetting
  <1>0. CASE UNCHANGED Schema!migrations
    <2>1. SchemaTyped' /\ LedgerSound' /\ OneRunner'
      BY <1>0 DEF SchemaInv, SchemaTyped, LedgerSound, OneRunner, Schema!migrations, Schema!Begins
    <2>2. ASSUME NEW o \in Target PROVE CommandSound(command[o])'
      BY <1>0 DEF SchemaInv, CommandSound, Schema!migrations, Schema!Begins, Schema!Pending
    <2>. QED  BY <2>1, <2>2 DEF SchemaInv
  <1>1. /\ command \in [Target -> [kind : CommandKinds, tree : SUBSET Schema!Files, through : Int,
                                     pc : CommandSteps, plan : SUBSET Schema!Files]]
        /\ OneRunner /\ \A o \in Target : CommandSound(command[o])
        /\ LedgerSound /\ SchemaTyped
    BY DEF SchemaInv, SchemaTyped
  <1> DEFINE Command == [kind : CommandKinds, tree : SUBSET Schema!Files, through : Int,
                         pc : CommandSteps, plan : SUBSET Schema!Files]
  \* A command begins, goes on or ends, and the ledger with what it says stays.
  <1>2. ASSUME NEW o \in Target, NEW c \in Command,
               command' = [command EXCEPT ![o] = c], UNCHANGED Schema!Ledger,
               CommandSound(c)',
               c.pc \in {"ensure", "plan", "apply"} => migrationLock' = o,
               \A p \in Target \ {o} : migrationLock = p => migrationLock' = p
        PROVE  SchemaInv'
    <2>1. /\ command' \in [Target -> Command]
          /\ command'[o] = c /\ \A p \in Target \ {o} : command'[p] = command[p]
      BY <1>1, <1>2
    <2>2. SchemaTyped'
      BY <1>1, <1>2, <2>1 DEF SchemaTyped, Schema!Ledger
    <2>3. LedgerSound'
      BY <1>1, <1>2 DEF LedgerSound, Schema!Ledger, Schema!Begins
    <2>4. OneRunner'
      BY <1>1, <1>2, <2>1 DEF OneRunner
    <2>5. ASSUME NEW p \in Target PROVE CommandSound(command[p])'
      <3>1. CASE p = o
        BY <1>2, <2>1, <3>1
      <3>2. CASE p # o
        <4>1. PICK d : d = command[p]
          OBVIOUS
        <4>2. CommandSound(d) /\ command'[p] = d
          BY <1>1, <2>1, <3>2, <4>1
        <4>3. CommandSound(d)'
          BY <1>2, <4>2, CommandKept DEF Schema!Ledger
        <4>. QED  BY <4>2, <4>3
      <3>. QED  BY <3>1, <3>2
    <2>. QED  BY <2>2, <2>3, <2>4, <2>5 DEF SchemaInv
  \* The holder of the lock writes the ledger.
  <1>3. ASSUME NEW o \in Target, NEW c \in Command, migrationLock = o,
               command' = [command EXCEPT ![o] = c],
               migrationLock' = o \/ c.pc = "idle",
               ledger' \subseteq Schema!Files, effects \subseteq effects',
               ran' \in [Schema!Files -> {0, 1}], LedgerSound', CommandSound(c)'
        PROVE  SchemaInv'
    <2>1. /\ command' \in [Target -> Command]
          /\ command'[o] = c /\ \A p \in Target \ {o} : command'[p] = command[p]
      BY <1>1, <1>3
    <2>2. SchemaTyped'
      BY <1>1, <1>3, <2>1 DEF SchemaTyped
    <2>3. \A p \in Target \ {o} : command[p].pc \notin {"ensure", "plan", "apply"}
      BY <1>1, <1>3 DEF OneRunner
    <2>4. OneRunner'
      BY <1>3, <2>1, <2>3 DEF OneRunner
    <2>5. ASSUME NEW p \in Target PROVE CommandSound(command[p])'
      <3>1. CASE p = o
        BY <1>3, <2>1, <3>1
      <3>2. CASE p # o
        <4>1. PICK d : d = command[p]
          OBVIOUS
        <4>2. CommandSound(d) /\ command'[p] = d /\ d.pc # "apply"
          BY <1>1, <2>1, <2>3, <3>2, <4>1
        <4>3. CommandSound(d)'
          BY <1>3, <4>2, CommandKept
        <4>. QED  BY <4>2, <4>3
      <3>. QED  BY <3>1, <3>2
    <2>. QED  BY <1>3, <2>2, <2>4, <2>5 DEF SchemaInv
  <1>4. Schema!NoCommand \in Command /\ Schema!NoCommand.pc = "idle"
        /\ CommandSound(Schema!NoCommand)'
    BY DEF Schema!NoCommand, CommandSound, CommandKinds, CommandSteps
  <1>5. ASSUME NEW o \in Target, Schema!Give(o) PROVE SchemaInv'
    <2>1. PICK kind \in {"apply", "status", "baseline", "mark"}, t \in Checkouts :
             \E n \in {0} \cup {f.version : f \in t} :
               /\ Schema!Discoverable(t)
               /\ kind = "baseline" => Schema!Upto(t, n) \subseteq effects
               /\ command' = [command EXCEPT ![o] = [kind |-> kind, tree |-> t,
                                 through |-> n, pc |-> "lock", plan |-> {}]]
      BY <1>5 DEF Schema!Give
    <2>2. PICK n \in {0} \cup {f.version : f \in t} :
               /\ Schema!Discoverable(t)
               /\ kind = "baseline" => Schema!Upto(t, n) \subseteq effects
               /\ command' = [command EXCEPT ![o] = [kind |-> kind, tree |-> t,
                                 through |-> n, pc |-> "lock", plan |-> {}]]
      BY <2>1
    <2>3. t \subseteq Schema!Files /\ n \in Int
      BY DEF Schema!Files
    <2>4. PICK c : c = [kind |-> kind, tree |-> t, through |-> n, pc |-> "lock",
                        plan |-> {}]
      OBVIOUS
    <2>5. c \in Command
      BY <2>3, <2>4 DEF CommandKinds, CommandSteps
    <2>6. UNCHANGED <<Schema!Ledger, migrationLock>>
      BY <1>5 DEF Schema!Give
    <2>7. CommandSound(c)'
      BY <2>2, <2>4, <2>6 DEF CommandSound, Schema!Ledger
    <2>. QED  BY <1>2, <2>2, <2>4, <2>5, <2>6, <2>7
  <1>6. ASSUME NEW o \in Target, NEW pc \in {"ensure", "plan"}, Schema!Goes(o, pc),
               command[o].pc # "idle", migrationLock' = o,
               migrationLock \in {"none", o}, UNCHANGED <<ledger, effects, ran, byHand>>
        PROVE  SchemaInv'
    <2>1. PICK d : d = command[o]
      OBVIOUS
    <2>2. PICK c : c = [d EXCEPT !.pc = pc]
      OBVIOUS
    <2>3. d \in Command /\ CommandSound(d) /\ d.pc # "idle"
      BY <1>1, <1>6, <2>1
    <2>4. c \in Command /\ command' = [command EXCEPT ![o] = c]
      BY <1>6, <2>1, <2>2, <2>3 DEF Schema!Goes, CommandSteps
    <2>5. CommandSound(c)'
      BY <1>6, <2>2, <2>3 DEF CommandSound
    <2>6. SchemaTyped'
      BY <1>1, <1>6, <2>4 DEF SchemaTyped
    <2>7. LedgerSound'
      BY <1>1, <1>6 DEF LedgerSound, Schema!Begins
    <2>8. /\ command'[o] = c /\ \A p \in Target \ {o} : command'[p] = command[p]
      BY <1>1, <2>4
    <2>9. OneRunner'
      BY <1>1, <1>6, <2>8 DEF OneRunner
    <2>10. ASSUME NEW p \in Target PROVE CommandSound(command[p])'
      <3>1. CASE p = o
        BY <2>5, <2>8, <3>1
      <3>2. CASE p # o
        <4>1. PICK e : e = command[p]
          OBVIOUS
        <4>2. CommandSound(e) /\ command'[p] = e
          BY <1>1, <2>8, <3>2, <4>1
        <4>3. CommandSound(e)'
          BY <1>6, <4>2, CommandKept
        <4>. QED  BY <4>2, <4>3
      <3>. QED  BY <3>1, <3>2
    <2>. QED  BY <2>6, <2>7, <2>9, <2>10 DEF SchemaInv
  <1>7. ASSUME NEW o \in Target, Schema!Lock(o) PROVE SchemaInv'
    BY <1>6, <1>7 DEF Schema!Lock, Schema!Ledger
  <1>8. ASSUME NEW o \in Target, Schema!Ensure(o) PROVE SchemaInv'
    BY <1>1, <1>6, <1>8 DEF Schema!Ensure, OneRunner
  <1>9. ASSUME NEW o \in Target, Schema!Plan(o) PROVE SchemaInv'
    <2>1. migrationLock = o
      BY <1>1, <1>9 DEF Schema!Plan, OneRunner
    <2>2. PICK c : c = command[o]
      OBVIOUS
    <2>3. c \in Command /\ CommandSound(c) /\ c.pc = "plan"
      BY <1>1, <1>9, <2>2 DEF Schema!Plan
    <2>4. UNCHANGED <<table, effects, ran, byHand, commands>>
      BY <1>9 DEF Schema!Plan
    <2>5. ASSUME Schema!Ends(o), LedgerSound', ledger' \subseteq Schema!Files PROVE SchemaInv'
      BY <1>1, <1>3, <1>4, <2>1, <2>4, <2>5 DEF Schema!Ends, SchemaTyped
    <2>6. CASE Schema!Ends(o) /\ UNCHANGED ledger
      <3>1. LedgerSound' /\ ledger' \subseteq Schema!Files
        BY <1>1, <2>4, <2>6 DEF LedgerSound, Schema!Begins, SchemaTyped
      <3>. QED  BY <2>5, <2>6, <3>1
    <2>7. CASE /\ ~Schema!Drifted(c.tree)
               /\ command' = [command EXCEPT ![o].pc = "apply",
                                             ![o].plan = Schema!Pending(c.tree, c.through)]
               /\ UNCHANGED <<ledger, migrationLock>>
      <3>1. PICK d : d = [c EXCEPT !.pc = "apply", !.plan = Schema!Pending(c.tree, c.through)]
        OBVIOUS
      <3>2. Schema!Pending(c.tree, c.through) \subseteq Schema!Files
        BY <2>3 DEF Schema!Pending, Schema!Upto
      <3>3. d \in Command
        BY <2>3, <3>1, <3>2 DEF CommandSteps
      <3>4. command' = [command EXCEPT ![o] = d]
        BY <1>1, <2>2, <2>7, <3>1
      <3>5. CommandSound(d)'
        <4>1. /\ d.kind = c.kind /\ d.tree = c.tree /\ d.through = c.through
              /\ d.plan = Schema!Pending(c.tree, c.through)
          BY <2>3, <3>1
        <4>. QED  BY <2>3, <2>4, <2>7, <4>1
              DEF CommandSound, Schema!Drifted, Schema!Begins, Schema!Pending
      <3>6. UNCHANGED Schema!Ledger
        BY <2>4, <2>7 DEF Schema!Ledger
      <3>7. migrationLock' = o
        BY <2>1, <2>7
      <3>. QED  BY <1>2, <2>1, <2>7, <3>3, <3>4, <3>5, <3>6, <3>7
    <2>8. ASSUME NEW S, S \subseteq effects, Schema!Begins(ledger \cup S, c.tree), Schema!Ends(o),
                 ledger' = ledger \cup S
          PROVE  SchemaInv'
      <3>1. c.tree \in Checkouts
        BY <2>3 DEF CommandSound
      <3>2. c.tree \subseteq Schema!Files /\ ledger' \subseteq Schema!Files
        BY <2>8, <3>1 DEF Schema!Files, Schema!Begins
      <3>3. Schema!Begins(ledger, c.tree)'
        BY <2>8 DEF Schema!Begins
      <3>4. LedgerSound'
        BY <1>1, <2>4, <2>8, <3>1, <3>3 DEF LedgerSound
      <3>. QED  BY <2>5, <2>8, <3>2, <3>4
    <2>9. CASE /\ c.kind = "baseline" /\ Schema!Ends(o)
               /\ ledger' = IF ledger = {} THEN Schema!Upto(c.tree, c.through) ELSE ledger
      <3>1. CASE ledger = {}
        <4>1. c.tree \in Checkouts /\ Schema!Upto(c.tree, c.through) \subseteq effects
          BY <2>3, <2>9 DEF CommandSound
        <4>2. Schema!Begins(ledger, c.tree)
          BY <3>1 DEF Schema!Begins
        <4>3. Schema!Begins(ledger \cup Schema!Upto(c.tree, c.through), c.tree)
          BY <2>3, <4>1, <4>2, BeginsUpto
        <4>. QED  BY <2>8, <2>9, <3>1, <4>1, <4>3
      <3>2. CASE ledger # {}
        BY <2>6, <2>9, <3>2
      <3>. QED  BY <3>1, <3>2
    <2>10. CASE /\ ~Schema!Drifted(c.tree) /\ Schema!Ends(o)
                /\ ledger' = IF \A f \in Schema!Pending(c.tree, c.through) : Schema!Verified(f)
                             THEN ledger \cup Schema!Pending(c.tree, c.through) ELSE ledger
      <3>1. CASE \A f \in Schema!Pending(c.tree, c.through) : Schema!Verified(f)
        <4>1. c.tree \in Checkouts /\ Schema!Begins(ledger, c.tree)
          BY <2>3, <2>10 DEF CommandSound, Schema!Drifted
        <4>2. Schema!Begins(ledger \cup Schema!Upto(c.tree, c.through), c.tree)
          BY <2>3, <4>1, BeginsUpto
        <4>3. ledger \cup Schema!Pending(c.tree, c.through)
              = ledger \cup Schema!Upto(c.tree, c.through)
          BY DEF Schema!Pending
        <4>4. Schema!Pending(c.tree, c.through) \subseteq effects
          BY <3>1 DEF Schema!Verified
        <4>. QED  BY <2>8, <2>10, <3>1, <4>2, <4>3, <4>4
      <3>2. CASE ~\A f \in Schema!Pending(c.tree, c.through) : Schema!Verified(f)
        BY <2>6, <2>10, <3>2
      <3>. QED  BY <3>1, <3>2
    <2>. QED  BY <1>9, <2>2, <2>6, <2>7, <2>9, <2>10 DEF Schema!Plan
  <1>10. ASSUME NEW o \in Target, NEW succeeds \in BOOLEAN, Schema!Apply(o, succeeds)
         PROVE  SchemaInv'
    <2>1. migrationLock = o
      BY <1>1, <1>10 DEF Schema!Apply, OneRunner
    <2>2. PICK c : c = command[o]
      OBVIOUS
    <2>3. /\ c \in Command /\ CommandSound(c) /\ c.pc = "apply"
          /\ c.tree \in Checkouts /\ Schema!Discoverable(c.tree)
          /\ Schema!Begins(ledger, c.tree) /\ c.plan = Schema!Pending(c.tree, c.through)
      BY <1>1, <1>10, <2>2 DEF Schema!Apply, CommandSound
    <2>4. PICK f \in c.plan :
             /\ \A g \in c.plan : f.version <= g.version
             /\ IF succeeds
                THEN /\ effects' = effects \cup {f}
                     /\ ran' = [ran EXCEPT ![f] = @ + 1]
                     /\ ledger' = ledger \cup {f}
                     /\ command' = [command EXCEPT ![o].plan = @ \ {f}]
                     /\ UNCHANGED migrationLock
                ELSE Schema!Ends(o) /\ UNCHANGED <<effects, ran, ledger>>
      BY <1>10, <2>2 DEF Schema!Apply
    <2>5. byHand' = byHand
      BY <1>10 DEF Schema!Apply
    <2>6. CASE ~succeeds
      <3>1. Schema!Ends(o) /\ UNCHANGED <<effects, ran, ledger>>
        BY <2>4, <2>6
      <3>2. LedgerSound'
        BY <1>1, <2>5, <3>1 DEF LedgerSound, Schema!Begins
      <3>. QED  BY <1>1, <1>3, <1>4, <2>1, <3>1, <3>2 DEF Schema!Ends, SchemaTyped
    <2>7. CASE succeeds
      <3>1. /\ effects' = effects \cup {f} /\ ran' = [ran EXCEPT ![f] = @ + 1]
            /\ ledger' = ledger \cup {f} /\ command' = [command EXCEPT ![o].plan = @ \ {f}]
            /\ migrationLock' = o
        BY <2>1, <2>4, <2>7
      <3>2. f \in Schema!Files /\ f \notin ledger /\ f \in Schema!Upto(c.tree, c.through)
        BY <2>3 DEF Schema!Pending, Schema!Files, Schema!Upto
      <3>3. Schema!Begins(ledger \cup {f}, c.tree)
        BY <2>3, <2>4, BeginsWith DEF Schema!Pending
      <3>4. Schema!Begins(ledger, c.tree)'
        BY <3>1, <3>3 DEF Schema!Begins
      <3>5. ran[f] = 0
        BY <1>1, <3>2 DEF SchemaTyped, LedgerSound
      <3>6. ran' = [ran EXCEPT ![f] = 1] /\ ran' \in [Schema!Files -> {0, 1}]
        BY <1>1, <3>1, <3>2, <3>5 DEF SchemaTyped
      <3>7. LedgerSound'
        <4>1. /\ ran'[f] = 1 /\ \A g \in Schema!Files \ {f} : ran'[g] = ran[g]
          BY <1>1, <3>2, <3>6 DEF SchemaTyped
        <4>2. ledger \subseteq Schema!Files
          BY <1>1 DEF SchemaTyped
        <4>. QED  BY <1>1, <2>3, <2>5, <3>1, <3>2, <3>4, <4>1, <4>2 DEF LedgerSound
      <3>8. PICK d : d = [c EXCEPT !.plan = @ \ {f}]
        OBVIOUS
      <3>9. d \in Command /\ d.pc = "apply"
        BY <2>3, <3>8
      <3>10. command' = [command EXCEPT ![o] = d]
        BY <1>1, <2>2, <3>1, <3>8
      <3>11. CommandSound(d)'
        <4>1. /\ d.kind = c.kind /\ d.tree = c.tree /\ d.through = c.through
              /\ d.plan = c.plan \ {f}
          BY <2>3, <3>8
        <4>2. d.plan = Schema!Pending(d.tree, d.through)'
          BY <2>3, <3>1, <4>1 DEF Schema!Pending
        <4>. QED  BY <2>3, <3>1, <3>4, <4>1, <4>2 DEF CommandSound
      <3>12. ledger' \subseteq Schema!Files /\ effects \subseteq effects'
        BY <1>1, <3>1, <3>2 DEF SchemaTyped
      <3>. QED  BY <1>3, <2>1, <3>1, <3>6, <3>7, <3>9, <3>10, <3>11, <3>12
    <2>. QED  BY <2>6, <2>7
  <1>11. ASSUME NEW o \in Target, Schema!Finish(o) \/ Schema!Die(o) PROVE SchemaInv'
    <2>1. /\ command' = [command EXCEPT ![o] = Schema!NoCommand]
          /\ \A p \in Target \ {o} : migrationLock = p => migrationLock' = p
          /\ UNCHANGED Schema!Ledger
      BY <1>1, <1>11 DEF Schema!Finish, Schema!Die, Schema!Ends, OneRunner
    <2>. QED  BY <1>2, <1>4, <2>1
  <1>12. ASSUME NEW f \in Schema!Files, Schema!ByHand(f) PROVE SchemaInv'
    <2>1. /\ effects' = effects \cup {f} /\ byHand' = byHand \cup {f}
          /\ UNCHANGED <<table, ledger, ran, migrationLock, command, commands>>
      BY <1>12 DEF Schema!ByHand
    <2>2. SchemaTyped' /\ LedgerSound' /\ OneRunner'
      BY <1>1, <2>1 DEF SchemaTyped, LedgerSound, OneRunner, Schema!Begins
    <2>3. ASSUME NEW o \in Target PROVE CommandSound(command[o])'
      <3>1. PICK d : d = command[o]
        OBVIOUS
      <3>2. CommandSound(d)'
        BY <1>1, <2>1, <3>1, CommandKept
      <3>. QED  BY <2>1, <3>1, <3>2
    <2>. QED  BY <2>2, <2>3 DEF SchemaInv
  <1>. QED  BY <1>0, <1>5, <1>7, <1>8, <1>9, <1>10, <1>11, <1>12 DEF Schema!MigrationsNext

\* The ledger records what took effect, once, and nothing that took effect is missing
\* but what was done by hand; and what it records begins a checkout: for any number of
\* operators and checkouts, with failing migrations, lost connections and migrations done
\* by hand (core/migrations.py).
THEOREM LedgerStaysTruthful ==
    ASSUME SchemaSetting
    PROVE  Schema!MigrationsSpec => []Schema!LedgerIsTruthful
  <1>1. SchemaInv => Schema!LedgerIsTruthful
    BY DEF SchemaInv, SchemaTyped, LedgerSound, Schema!LedgerIsTruthful
  <1>2. Schema!MigrationsInit => SchemaInv
    BY SchemaBegins
  <1>3. SchemaInv /\ [Schema!MigrationsNext]_(Schema!migrations) => SchemaInv'
    BY SchemaNext
  <1>. QED  BY <1>1, <1>2, <1>3, PTL DEF Schema!MigrationsSpec

-----------------------------------------------------------------------------
(* The backfill of the chat messages (LegacyBackfill).  A message waits    *)
(* until it has its computed identity, and has that for good; so a run     *)
(* that sees nothing waiting has left nothing behind, with or without the  *)
(* lock that it took (RunSound).                                           *)

Identified == {"null", "computed", "own"}
RunFields == {"pc", "after", "began", "seen", "verdict"}

MessageRow ==
    [scope : Request, public : Identified,
     session : {Grouping!NoSession} \cup DOMAIN sessions]

\* A message with a computed identity is in the computed session of its scope, and one
\* that was written as a turn in a session of its scope.
MessageSound(m) ==
    /\ m \in MessageRow
    /\ m.public = "computed" => m.session = Grouping!Legacy(m.scope)
    /\ m.public = "own" => m.session # Grouping!NoSession /\ sessions[m.session].scope = m.scope

MessagesSound ==
    /\ \A i \in DOMAIN messages : MessageSound(messages[i])
    /\ \A i \in DOMAIN inserting : MessageSound(inserting[i])

\* A computed session is marked and of its scope.
SessionsSound ==
    /\ Grouping!NoSession \notin DOMAIN sessions
    /\ \A s \in DOMAIN sessions : sessions[s].scope \in Request
    /\ \A e \in Request : Grouping!Legacy(e) \in DOMAIN sessions =>
          sessions[Grouping!Legacy(e)] = [scope |-> e, marked |-> TRUE]

\* A run says that it is complete, or has found that no message waits.
SaysComplete(c) == c.verdict = "complete" \/ (c.pc = "sessions" /\ ~c.seen.pending)

\* What waited when a run began waits still or has its computed identity, which it has
\* once a read has found nothing waiting.
RunSound(c) ==
    /\ DOMAIN c = RunFields
    /\ \A i \in c.began :
          i \in DOMAIN messages
          /\ (Grouping!Pending(messages[i]) \/ messages[i].public = "computed")
    /\ SaysComplete(c) => \A i \in c.began : messages[i].public = "computed"

RunsSound == DOMAIN runner = Target /\ \A r \in Target : RunSound(runner[r])

BackfillInv == MessagesSound /\ SessionsSound /\ RunsSound

\* What a step leaves of the sessions and the messages that are there.
SessionsStay ==
    /\ DOMAIN sessions \subseteq DOMAIN sessions'
    /\ \A s \in DOMAIN sessions : sessions'[s] = sessions[s]

HistoryStays ==
    \A i \in DOMAIN messages :
        /\ i \in DOMAIN messages'
        /\ \/ messages'[i] = messages[i]
           \/ Grouping!Pending(messages[i]) /\ messages'[i].public = "computed"

-----------------------------------------------------------------------------
\* No session, a computed one and one of the workspace differ.
LEMMA Identities ==
    ASSUME NEW e, NEW n
    PROVE  /\ Grouping!NoSession # Grouping!Legacy(e) /\ Grouping!NoSession # [own |-> n]
    /\ Grouping!Legacy(e) # [own |-> n]
           /\ \A d : Grouping!Legacy(d) = Grouping!Legacy(e) => d = e
  <1>1. DOMAIN Grouping!NoSession = {"none"} /\ DOMAIN Grouping!Legacy(e) = {"legacy"}
    BY DEF Grouping!NoSession, Grouping!Legacy
  <1>2. DOMAIN [own |-> n] = {"own"}
    OBVIOUS
  <1>3. ASSUME NEW d, Grouping!Legacy(d) = Grouping!Legacy(e) PROVE d = e
    <2>1. Grouping!Legacy(d).legacy = d /\ Grouping!Legacy(e).legacy = e
      BY DEF Grouping!Legacy
    <2>. QED  BY <1>3, <2>1
  <1>. QED  BY <1>1, <1>2, <1>3

\* A message with its computed identity waits for nothing.
LEMMA ComputedIsDone ==
    ASSUME NEW m, MessageSound(m), m.public = "computed"
    PROVE  ~Grouping!Pending(m)
  BY Identities DEF MessageSound, Grouping!Pending

\* A message stays sound while sessions stay.
LEMMA MessageStays ==
    ASSUME NEW m, MessageSound(m), SessionsStay
    PROVE  MessageSound(m)'
  <1>1. m \in MessageRow' /\ m \in MessageRow
    BY DEF MessageSound, SessionsStay, MessageRow
  <1>2. m.session # Grouping!NoSession => sessions'[m.session] = sessions[m.session]
    BY <1>1 DEF SessionsStay, MessageRow
  <1>. QED  BY <1>1, <1>2 DEF MessageSound

\* And a run while messages stay or get their computed identities.
LEMMA RunStays ==
    ASSUME MessagesSound, HistoryStays, NEW c, RunSound(c)
    PROVE  RunSound(c)'
  <1>1. ASSUME NEW i \in c.began
        PROVE  /\ i \in DOMAIN messages'
               /\ Grouping!Pending(messages'[i]) \/ messages'[i].public = "computed"
    BY <1>1 DEF RunSound, HistoryStays
  <1>2. ASSUME NEW i \in c.began, messages[i].public = "computed"
        PROVE  messages'[i].public = "computed"
    BY <1>2, ComputedIsDone DEF RunSound, MessagesSound, HistoryStays
  <1>3. \A i \in c.began :
           i \in DOMAIN messages'
           /\ (Grouping!Pending(messages[i])' \/ messages'[i].public = "computed")
    BY <1>1 DEF Grouping!Pending
  <1>. QED  BY <1>2, <1>3, Zenon DEF RunSound, SaysComplete

\* Rows that are sound by the sessions before a step are sound after it.
LEMMA MessagesStaySound ==
    ASSUME SessionsStay, \A i \in DOMAIN messages' : MessageSound(messages'[i]),
           \A i \in DOMAIN inserting' : MessageSound(inserting'[i])
    PROVE  MessagesSound'
  <1>1. ASSUME NEW i \in DOMAIN messages' PROVE MessageSound(messages[i])'
    <2>1. PICK m : m = messages'[i]
      OBVIOUS
    <2>2. MessageSound(m)'
      BY <1>1, <2>1, MessageStays
    <2>. QED  BY <2>1, <2>2
  <1>2. ASSUME NEW i \in DOMAIN inserting' PROVE MessageSound(inserting[i])'
    <2>1. PICK m : m = inserting'[i]
      OBVIOUS
    <2>2. MessageSound(m)'
      BY <1>2, <2>1, MessageStays
    <2>. QED  BY <2>1, <2>2
  <1>. QED  BY <1>1, <1>2 DEF MessagesSound

\* Runs go on beside messages that stay.
LEMMA RunsStay ==
    ASSUME MessagesSound, RunsSound, HistoryStays, runner' = runner
    PROVE  RunsSound'
  <1>1. ASSUME NEW r \in Target PROVE RunSound(runner[r])'
    <2>1. PICK c : c = runner[r]
      OBVIOUS
    <2>2. RunSound(c)'
      BY <2>1, RunStays DEF RunsSound
    <2>. QED  BY <2>1, <2>2
  <1>. QED  BY <1>1 DEF RunsSound

\* The invariant holds.
LEMMA BackfillBegins ==
    ASSUME Grouping!BackfillInit
    PROVE  BackfillInv
  <1>1. PICK S \in SUBSET (1..MaxMessages) : \E e \in [S -> Request] :
          messages = [i \in S |-> Grouping!Bare(e[i])]
    BY DEF Grouping!BackfillInit
  <1>2. \A i \in DOMAIN messages : MessageSound(messages[i])
    <2>1. PICK e \in [S -> Request] : messages = [i \in S |-> Grouping!Bare(e[i])]
      BY <1>1
    <2>. QED  BY <2>1 DEF Grouping!Bare, MessageSound, MessageRow, Identified
  <1>3. DOMAIN sessions = {} /\ DOMAIN inserting = {}
    BY DEF Grouping!BackfillInit
  <1>4. SessionsSound
    BY <1>3 DEF SessionsSound
  <1>5. MessagesSound
    BY <1>2, <1>3 DEF MessagesSound
  <1>6. RunsSound
    <2>1. runner = [r \in Target |-> Grouping!Idle]
      BY DEF Grouping!BackfillInit
    <2>2. RunSound(Grouping!Idle)
      BY DEF RunSound, Grouping!Idle, RunFields, SaysComplete
    <2>. QED  BY <2>1, <2>2 DEF RunsSound
  <1>. QED  BY <1>4, <1>5, <1>6 DEF BackfillInv

\* A session is added.
LEMMA SessionAdded ==
    ASSUME BackfillInv, NEW n, NEW session, session.scope \in Request,
           sessions' = Grouping!With(sessions, [own |-> n], session),
           UNCHANGED <<messages, inserting, runner>>
    PROVE  BackfillInv'
  <1>1. /\ DOMAIN sessions' = DOMAIN sessions \cup {[own |-> n]}
        /\ \A s \in DOMAIN sessions : sessions'[s] = sessions[s]
        /\ [own |-> n] \notin DOMAIN sessions => sessions'[[own |-> n]] = session
    BY DEF Grouping!With
  <1>2. SessionsStay /\ HistoryStays
    BY <1>1 DEF SessionsStay, HistoryStays
  <1>3. MessagesSound'
    BY <1>2, MessagesStaySound DEF BackfillInv, MessagesSound
  <1>4. SessionsSound'
    BY <1>1, Identities DEF BackfillInv, SessionsSound
  <1>5. RunsSound'
    BY <1>2, RunsStay DEF BackfillInv
  <1>. QED  BY <1>3, <1>4, <1>5 DEF BackfillInv

\* Runs go on beside messages and sessions that stay.
LEMMA RunGoes ==
    ASSUME BackfillInv, UNCHANGED <<messages, inserting, sessions>>, NEW r \in Target,
           NEW c, runner' = [runner EXCEPT ![r] = c], RunSound(c)
    PROVE  BackfillInv'
  <1>1. SessionsStay /\ HistoryStays
    BY DEF SessionsStay, HistoryStays
  <1>2. MessagesSound' /\ SessionsSound'
    BY <1>1, MessagesStaySound DEF BackfillInv, MessagesSound, SessionsSound
  <1>3. RunSound(c)'
    BY <1>1, RunStays DEF BackfillInv
  <1>4. ASSUME NEW p \in Target PROVE RunSound(runner[p])'
    <2>1. CASE p = r
      BY <1>3, <2>1 DEF BackfillInv, RunsSound
    <2>2. CASE p # r
      <3>1. PICK d : d = runner[p]
        OBVIOUS
      <3>2. RunSound(d) /\ runner'[p] = d
        BY <2>2, <3>1 DEF BackfillInv, RunsSound
      <3>. QED  BY <1>1, <3>2, RunStays DEF BackfillInv
    <2>. QED  BY <2>1, <2>2
  <1>. QED  BY <1>2, <1>4 DEF BackfillInv, RunsSound

\* A row is inserted, in a transaction that is open,
LEMMA RowInserted ==
    ASSUME BackfillInv, NEW row, MessageSound(row), Grouping!Insert(row), runner' = runner
    PROVE  BackfillInv'
  <1>1. inserting' = Grouping!With(inserting, Grouping!Next1, row)
        /\ UNCHANGED <<messages, sessions>>
    BY DEF Grouping!Insert
  <1>2. ASSUME NEW i \in DOMAIN inserting' PROVE MessageSound(inserting'[i])
    <2>1. PICK n : n = Grouping!Next1
      OBVIOUS
    <2>2. \/ i \in DOMAIN inserting /\ inserting'[i] = inserting[i]
          \/ inserting'[i] = row
      BY <1>1, <1>2, <2>1 DEF Grouping!With
    <2>. QED  BY <2>2 DEF BackfillInv, MessagesSound
  <1>3. SessionsStay /\ HistoryStays
    BY <1>1 DEF SessionsStay, HistoryStays
  <1>4. MessagesSound' /\ SessionsSound'
    BY <1>1, <1>2, <1>3, MessagesStaySound DEF BackfillInv, MessagesSound, SessionsSound
  <1>5. RunsSound'
    BY <1>3, RunsStay DEF BackfillInv
  <1>. QED  BY <1>4, <1>5 DEF BackfillInv

\* and is seen when that commits.
LEMMA InsertCommitted ==
    ASSUME BackfillInv, NEW i \in DOMAIN inserting, Grouping!CommitInsert(i)
    PROVE  BackfillInv'
  <1>1. /\ messages' = Grouping!With(messages, i, inserting[i])
        /\ inserting' = [j \in DOMAIN inserting \ {i} |-> inserting[j]]
        /\ UNCHANGED <<sessions, runner>>
    BY DEF Grouping!CommitInsert, Grouping!Backfilling
  <1>2. /\ DOMAIN messages' = DOMAIN messages \cup {i}
        /\ \A j \in DOMAIN messages : messages'[j] = messages[j]
        /\ i \notin DOMAIN messages => messages'[i] = inserting[i]
    BY <1>1 DEF Grouping!With
  <1>3. SessionsStay /\ HistoryStays
    BY <1>1, <1>2 DEF SessionsStay, HistoryStays
  <1>4. \A j \in DOMAIN messages' : MessageSound(messages'[j])
    BY <1>2 DEF BackfillInv, MessagesSound
  <1>5. \A j \in DOMAIN inserting' : MessageSound(inserting'[j])
    BY <1>1 DEF BackfillInv, MessagesSound
  <1>6. MessagesSound' /\ SessionsSound'
    BY <1>1, <1>3, <1>4, <1>5, MessagesStaySound DEF BackfillInv, MessagesSound, SessionsSound
  <1>7. RunsSound'
    BY <1>1, <1>3, RunsStay DEF BackfillInv
  <1>. QED  BY <1>6, <1>7 DEF BackfillInv

\* A batch is filled with what is computed of its rows.
LEMMA BatchFilled ==
    ASSUME BackfillInv, NEW B,
           B \subseteq {i \in DOMAIN messages : Grouping!Pending(messages[i])},
           messages' = Grouping!Filled(B), sessions' = Grouping!SessionsWith(B),
           inserting' = inserting
    PROVE  SessionsStay /\ HistoryStays /\ MessagesSound' /\ SessionsSound'
  <1>1. \A i \in DOMAIN messages : messages[i].scope \in Request
    BY DEF BackfillInv, MessagesSound, MessageSound, MessageRow
  <1>2. /\ DOMAIN sessions' = DOMAIN sessions \cup {Grouping!Legacy(messages[i].scope) : i \in B}
        /\ \A s \in DOMAIN sessions : sessions'[s] = sessions[s]
        /\ \A s \in DOMAIN sessions' \ DOMAIN sessions :
              sessions'[s] = [scope |-> s.legacy, marked |-> TRUE]
    BY DEF Grouping!SessionsWith
  <1>3. SessionsStay
    BY <1>2 DEF SessionsStay
  <1>4. ASSUME NEW s \in DOMAIN sessions' \ DOMAIN sessions
        PROVE  \E e \in Request : s = Grouping!Legacy(e)
        /\ sessions'[s] = [scope |-> e, marked |-> TRUE]
    <2>1. PICK i \in B : s = Grouping!Legacy(messages[i].scope)
      BY <1>2, <1>4
    <2>2. PICK e \in Request : e = messages[i].scope
      BY <1>1, <2>1
    <2>3. s = Grouping!Legacy(e) /\ s.legacy = e
      BY <2>1, <2>2 DEF Grouping!Legacy
    <2>. QED  BY <1>2, <1>4, <2>3
  <1>5. SessionsSound'
    <2>1. Grouping!NoSession \notin DOMAIN sessions'
      BY <1>4, Identities DEF BackfillInv, SessionsSound
    <2>2. ASSUME NEW s \in DOMAIN sessions' PROVE sessions'[s].scope \in Request
      <3>1. CASE s \in DOMAIN sessions
        BY <1>2, <3>1 DEF BackfillInv, SessionsSound
      <3>2. CASE s \notin DOMAIN sessions
        BY <1>4, <2>2, <3>2
      <3>. QED  BY <3>1, <3>2
    <2>3. ASSUME NEW e \in Request, Grouping!Legacy(e) \in DOMAIN sessions'
          PROVE  sessions'[Grouping!Legacy(e)] = [scope |-> e, marked |-> TRUE]
      <3>1. CASE Grouping!Legacy(e) \in DOMAIN sessions
        BY <1>2, <3>1 DEF BackfillInv, SessionsSound
      <3>2. CASE Grouping!Legacy(e) \notin DOMAIN sessions
        <4>1. PICK d \in Request : /\ Grouping!Legacy(e) = Grouping!Legacy(d)
                                 /\ sessions'[Grouping!Legacy(e)] = [scope |-> d, marked |-> TRUE]
          BY <1>4, <2>3, <3>2
        <4>2. d = e
          BY <4>1, Identities
        <4>. QED  BY <4>1, <4>2
      <3>. QED  BY <3>1, <3>2
    <2>. QED  BY <2>1, <2>2, <2>3 DEF SessionsSound
  <1>6. /\ DOMAIN messages' = DOMAIN messages
        /\ \A i \in DOMAIN messages \ B : messages'[i] = messages[i]
        /\ \A i \in B : messages'[i] = [messages[i] EXCEPT !.public = "computed",
                                          !.session = Grouping!Legacy(messages[i].scope)]
    BY DEF Grouping!Filled
  <1>7. ASSUME NEW i \in B
        PROVE  MessageSound(messages[i])' /\ messages'[i].public = "computed"
    <2>1. PICK m : m = messages[i]
      OBVIOUS
    <2>2. PICK w : w = [m EXCEPT !.public = "computed", !.session = Grouping!Legacy(m.scope)]
      OBVIOUS
    <2>3. m \in MessageRow
      BY <1>7, <2>1 DEF BackfillInv, MessagesSound, MessageSound
    <2>4. Grouping!Legacy(m.scope) \in DOMAIN sessions'
      BY <1>2, <2>1
    <2>5. w \in MessageRow' /\ w.public = "computed" /\ w.session = Grouping!Legacy(w.scope)
      BY <2>2, <2>3, <2>4 DEF MessageRow, Identified
    <2>6. messages'[i] = w
      BY <1>6, <2>1, <2>2
    <2>7. MessageSound(w)'
      BY <2>5 DEF MessageSound, Identified
    <2>. QED  BY <2>5, <2>6, <2>7
  <1>8. HistoryStays
    BY <1>6, <1>7 DEF HistoryStays
  <1>9. MessagesSound'
    <2>1. ASSUME NEW i \in DOMAIN messages' PROVE MessageSound(messages[i])'
      <3>1. CASE i \in B
        BY <1>7, <3>1
      <3>2. CASE i \notin B
        <4>1. PICK m : m = messages[i]
          OBVIOUS
        <4>2. MessageSound(m)' /\ messages'[i] = m
          BY <1>3, <1>6, <2>1, <3>2, <4>1, MessageStays DEF BackfillInv, MessagesSound
        <4>. QED  BY <4>2
      <3>. QED  BY <3>1, <3>2
    <2>2. \A i \in DOMAIN inserting' : MessageSound(inserting[i])'
      BY <1>3, MessageStays DEF BackfillInv, MessagesSound
    <2>. QED  BY <2>1, <2>2 DEF MessagesSound
  <1>. QED  BY <1>3, <1>5, <1>8, <1>9

\* Every step keeps the invariant.
LEMMA BackfillNextSound ==
    ASSUME BackfillInv, [Grouping!BackfillNext]_(Grouping!backfill)
    PROVE  BackfillInv'
  <1>0. CASE UNCHANGED <<messages, inserting, sessions, runner>>
    <2>1. SessionsStay /\ HistoryStays
      BY <1>0 DEF SessionsStay, HistoryStays
    <2>2. MessagesSound' /\ SessionsSound'
      BY <1>0, <2>1, MessagesStaySound DEF BackfillInv, MessagesSound, SessionsSound
    <2>3. RunsSound'
      BY <1>0, <2>1, RunsStay DEF BackfillInv
    <2>. QED  BY <2>2, <2>3 DEF BackfillInv
  <1>1. ASSUME NEW e \in Request, Grouping!OpenSession(e) PROVE BackfillInv'
    BY <1>1, SessionAdded DEF Grouping!OpenSession, Grouping!Backfilling
  <1>2. ASSUME NEW s \in DOMAIN sessions, Grouping!CopySession(s) PROVE BackfillInv'
    <2>1. sessions[s].scope \in Request
      BY DEF BackfillInv, SessionsSound
    <2>. QED  BY <1>2, <2>1, SessionAdded DEF Grouping!CopySession, Grouping!Backfilling
  <1>3. ASSUME NEW e \in Request, Grouping!WriteBare(e) PROVE BackfillInv'
    <2>1. MessageSound(Grouping!Bare(e))
      BY DEF MessageSound, Grouping!Bare, MessageRow, Identified
    <2>. QED  BY <1>3, <2>1, RowInserted
             DEF Grouping!WriteBare, Grouping!Insert, Grouping!Backfilling
  <1>4. ASSUME NEW s \in DOMAIN sessions, Grouping!WriteTurn(s) PROVE BackfillInv'
    <2>1. PICK row : row = [scope |-> sessions[s].scope, public |-> "own", session |-> s]
      OBVIOUS
    <2>2. MessageSound(row)
      BY <2>1 DEF BackfillInv, SessionsSound, MessageSound, MessageRow, Identified
    <2>. QED  BY <1>4, <2>1, <2>2, RowInserted
             DEF Grouping!WriteTurn, Grouping!Insert, Grouping!Backfilling
  <1>5. ASSUME NEW s \in DOMAIN sessions, NEW e \in Request, Grouping!WriteChat(s, e)
        PROVE  BackfillInv'
    <2>1. PICK row : row = [scope |-> e, public |-> "null", session |-> s]
      OBVIOUS
    <2>2. MessageSound(row)
      BY <2>1 DEF MessageSound, MessageRow, Identified
    <2>3. Grouping!Insert(row) \/ UNCHANGED <<messages, inserting, sessions, runner>>
      BY <1>5, <2>1 DEF Grouping!WriteChat, Grouping!Backfilling
    <2>. QED  BY <1>0, <2>2, <2>3, RowInserted DEF Grouping!Insert, Grouping!Backfilling
  <1>6. ASSUME NEW i \in DOMAIN inserting, Grouping!CommitInsert(i) PROVE BackfillInv'
    BY <1>6, InsertCommitted
  <1>7. ASSUME NEW r \in Target
        PROVE  /\ DOMAIN runner = Target /\ RunSound(runner[r])
               /\ DOMAIN runner[r] = RunFields
    BY DEF BackfillInv, RunsSound, RunSound
  <1>8. ASSUME NEW r \in Target, Grouping!BeginRun(r) PROVE BackfillInv'
    <2>1. PICK begin \in {0} \cup DOMAIN messages :
             runner' = [runner EXCEPT ![r] =
                          [pc |-> "batch", after |-> begin, seen |-> <<>>, verdict |-> "none",
                           began |-> {i \in DOMAIN messages : Grouping!Pending(messages[i])}]]
      BY <1>8 DEF Grouping!BeginRun
    <2>2. PICK c : c = [pc |-> "batch", after |-> begin, seen |-> <<>>, verdict |-> "none",
                        began |-> {i \in DOMAIN messages : Grouping!Pending(messages[i])}]
      OBVIOUS
    <2>3. RunSound(c)
      BY <2>2 DEF RunSound, RunFields, SaysComplete
    <2>. QED  BY <1>8, <2>1, <2>2, <2>3, RunGoes DEF Grouping!BeginRun, Grouping!Data
  <1>9. RunSound(Grouping!Idle)
    BY DEF RunSound, Grouping!Idle, RunFields, SaysComplete
  <1>10. ASSUME NEW r \in Target, Grouping!Raises(r), UNCHANGED <<messages, inserting, sessions>>
         PROVE  BackfillInv'
    BY <1>9, <1>10, RunGoes DEF Grouping!Raises
  <1>11. ASSUME NEW r \in Target, Grouping!Verify(r), UNCHANGED <<messages, inserting, sessions>>
         PROVE  BackfillInv'
    <2>1. PICK c : c = [runner[r] EXCEPT !.pc = "verify", !.after = 0]
      OBVIOUS
    <2>2. /\ DOMAIN c = RunFields /\ c.pc = "verify" /\ c.began = runner[r].began
          /\ c.verdict = runner[r].verdict
      BY <1>7, <2>1 DEF RunFields
    <2>3. RunSound(c)
      BY <1>7, <2>2 DEF RunSound, SaysComplete
    <2>4. runner' = [runner EXCEPT ![r] = c]
      BY <1>7, <1>11, <2>1 DEF Grouping!Verify
    <2>. QED  BY <1>11, <2>3, <2>4, RunGoes
  <1>12. ASSUME NEW r \in Target, Grouping!Batch(r) PROVE BackfillInv'
    <2>1. PICK B : B = Grouping!BatchOf(runner[r].after)
      OBVIOUS
    <2>2. B \subseteq {i \in DOMAIN messages : Grouping!Pending(messages[i])}
      BY <2>1 DEF Grouping!BatchOf
    <2>3. inserting' = inserting
      BY <1>12 DEF Grouping!Batch
    <2>4. CASE Grouping!Verify(r) /\ UNCHANGED <<messages, sessions>>
      BY <1>11, <2>3, <2>4
    <2>5. CASE Grouping!Raises(r) /\ UNCHANGED <<messages, sessions>>
      BY <1>10, <2>3, <2>5
    <2>6. CASE /\ messages' = Grouping!Filled(B) /\ sessions' = Grouping!SessionsWith(B)
               /\ runner' = [runner EXCEPT ![r].after = Grouping!Max(B)] \/ Grouping!Verify(r)
      <3>1. SessionsStay /\ HistoryStays /\ MessagesSound' /\ SessionsSound'
        BY <2>2, <2>3, <2>6, BatchFilled
      <3>2. PICK c : /\ DOMAIN c = RunFields /\ c.pc \in {runner[r].pc, "verify"}
                     /\ c.began = runner[r].began /\ c.verdict = runner[r].verdict
                     /\ runner' = [runner EXCEPT ![r] = c]
        <4>1. CASE runner' = [runner EXCEPT ![r].after = Grouping!Max(B)]
          <5>1. PICK c : c = [runner[r] EXCEPT !.after = Grouping!Max(B)]
            OBVIOUS
          <5>2. /\ DOMAIN c = RunFields /\ c.pc = runner[r].pc
                /\ c.began = runner[r].began /\ c.verdict = runner[r].verdict
            BY <1>7, <5>1 DEF RunFields
          <5>. QED  BY <1>7, <4>1, <5>1, <5>2
        <4>2. CASE Grouping!Verify(r)
          <5>1. PICK c : c = [runner[r] EXCEPT !.pc = "verify", !.after = 0]
            OBVIOUS
          <5>2. /\ DOMAIN c = RunFields /\ c.pc = "verify"
                /\ c.began = runner[r].began /\ c.verdict = runner[r].verdict
            BY <1>7, <5>1 DEF RunFields
          <5>. QED  BY <1>7, <4>2, <5>1, <5>2 DEF Grouping!Verify
        <4>. QED  BY <2>6, <4>1, <4>2
      <3>3. runner[r].pc = "batch"
        BY <1>12 DEF Grouping!Batch
      <3>4. RunSound(c)
        BY <1>7, <3>2, <3>3 DEF RunSound, SaysComplete
      <3>5. RunSound(c)'
        BY <3>1, <3>4, RunStays DEF BackfillInv
      <3>6. ASSUME NEW p \in Target PROVE RunSound(runner[p])'
        <4>1. CASE p = r
          BY <1>7, <3>2, <3>5, <4>1
        <4>2. CASE p # r
          <5>1. PICK d : d = runner[p]
            OBVIOUS
          <5>2. RunSound(d) /\ runner'[p] = d
            BY <1>7, <3>2, <4>2, <5>1
          <5>. QED  BY <3>1, <5>2, RunStays DEF BackfillInv
        <4>. QED  BY <4>1, <4>2
      <3>7. DOMAIN runner' = Target
        BY <1>7, <3>2
      <3>. QED  BY <3>1, <3>6, <3>7 DEF BackfillInv, RunsSound
    <2>. QED  BY <1>12, <2>1, <2>4, <2>5, <2>6 DEF Grouping!Batch
  <1>13. ASSUME NEW r \in Target, Grouping!ReadMessages(r) PROVE BackfillInv'
    <2>1. PICK seen : seen = [pending |->
                                 \E i \in DOMAIN messages : Grouping!Pending(messages[i]),
                              drifted |-> Grouping!Drifted(messages, sessions) # {},
                              expected |-> Grouping!Expected(messages, sessions)]
      OBVIOUS
    <2>2. PICK c : c = [runner[r] EXCEPT !.pc = "sessions", !.seen = seen]
      OBVIOUS
    <2>3. /\ DOMAIN c = RunFields /\ c.seen = seen /\ c.began = runner[r].began
          /\ c.verdict = runner[r].verdict
      BY <1>7, <2>2 DEF RunFields
    <2>4. seen.pending <=> \E i \in DOMAIN messages : Grouping!Pending(messages[i])
      BY <2>1, Zenon
    <2>5. RunSound(c)
      BY <1>7, <2>3, <2>4, Zenon DEF RunSound, SaysComplete
    <2>6. runner' = [runner EXCEPT ![r] = c]
      BY <1>7, <1>13, <2>1, <2>2 DEF Grouping!ReadMessages
    <2>. QED  BY <1>13, <2>5, <2>6, RunGoes DEF Grouping!ReadMessages, Grouping!Data
  <1>14. ASSUME NEW r \in Target, Grouping!ReadSessions(r) PROVE BackfillInv'
    <2>1. UNCHANGED <<messages, inserting, sessions>>
      BY <1>14 DEF Grouping!ReadSessions, Grouping!Data
    <2>2. CASE Grouping!Raises(r)
      BY <1>10, <2>1, <2>2
    <2>3. CASE /\ ~runner[r].seen.pending
               /\ runner' = [runner EXCEPT ![r] = [Grouping!Idle EXCEPT !.verdict = "complete",
                                                       !.began = runner[r].began]]
      <3>1. PICK c : c = [Grouping!Idle EXCEPT !.verdict = "complete", !.began = runner[r].began]
        OBVIOUS
      <3>2. DOMAIN c = RunFields /\ c.began = runner[r].began
        BY <3>1 DEF Grouping!Idle, RunFields
      <3>3. SaysComplete(runner[r])
        BY <1>14, <2>3 DEF Grouping!ReadSessions, SaysComplete
      <3>4. RunSound(c)
        BY <1>7, <3>2, <3>3 DEF RunSound
      <3>. QED  BY <2>1, <2>3, <3>1, <3>4, RunGoes
    <2>. QED  BY <1>14, <2>2, <2>3, Zenon DEF Grouping!ReadSessions
  <1>15. ASSUME NEW r \in Target, Grouping!Dies(r) PROVE BackfillInv'
    BY <1>10, <1>15 DEF Grouping!Dies, Grouping!Data
  <1>16. ASSUME NEW r \in Target, Grouping!LosesLock(r) PROVE BackfillInv'
    BY <1>0, <1>16 DEF Grouping!LosesLock, Grouping!Data
  <1>17. CASE Grouping!Validate
    BY <1>0, <1>17 DEF Grouping!Validate
  <1>18. CASE UNCHANGED Grouping!backfill
    BY <1>0, <1>18 DEF Grouping!backfill
  <1>. QED  BY <1>1, <1>2, <1>3, <1>4, <1>5, <1>6, <1>8, <1>12, <1>13, <1>14, <1>15, <1>16,
               <1>17, <1>18 DEF Grouping!BackfillNext

\* What the preflight finds valid is what the migration accepts.
LEMMA InvIsHonest ==
    ASSUME BackfillInv
    PROVE  Grouping!BackfillIsHonest
  <1>1. ASSUME NEW i \in DOMAIN messages, messages[i].public = "computed"
        PROVE  /\ messages[i].session = Grouping!Legacy(messages[i].scope)
               /\ sessions[messages[i].session] = [scope |-> messages[i].scope, marked |-> TRUE]
    <2>1. PICK m : m = messages[i]
      OBVIOUS
    <2>2. m \in MessageRow /\ m.session = Grouping!Legacy(m.scope)
      BY <1>1, <2>1 DEF BackfillInv, MessagesSound, MessageSound
    <2>3. m.scope \in Request /\ Grouping!Legacy(m.scope) \in DOMAIN sessions
      BY <2>2, Identities DEF MessageRow
    <2>. QED  BY <2>1, <2>2, <2>3 DEF BackfillInv, SessionsSound
  <1>2. ASSUME NEW r \in Target, runner[r].verdict = "complete", NEW i \in runner[r].began
        PROVE  /\ messages[i].public = "computed"
               /\ messages[i].session = Grouping!Legacy(messages[i].scope)
    <2>1. i \in DOMAIN messages /\ messages[i].public = "computed"
      BY <1>2 DEF BackfillInv, RunsSound, RunSound, SaysComplete
    <2>. QED  BY <1>1, <2>1
  <1>3. ASSUME Grouping!IsValid(messages, sessions) PROVE Grouping!Accepts(messages, sessions)
    <2>1. ASSUME NEW i \in DOMAIN messages
          PROVE  ~Grouping!Pending(messages[i])
          /\ sessions[messages[i].session].scope = messages[i].scope
      <3>1. ~Grouping!Pending(messages[i])
        BY <1>3 DEF Grouping!IsValid
      <3>2. messages[i].public \in {"computed", "own"}
        BY <3>1 DEF Grouping!Pending, BackfillInv, MessagesSound, MessageSound, MessageRow,
                    Identified
      <3>3. CASE messages[i].public = "computed"
        <4>1. PICK e : e = messages[i].scope
          OBVIOUS
        <4>2. sessions[messages[i].session] = [scope |-> e, marked |-> TRUE]
          BY <1>1, <3>3, <4>1
        <4>. QED  BY <3>1, <4>1, <4>2
      <3>4. CASE messages[i].public = "own"
        BY <3>1, <3>4 DEF BackfillInv, MessagesSound, MessageSound
      <3>. QED  BY <3>2, <3>3, <3>4
    <2>2. ASSUME NEW s \in DOMAIN sessions, NEW t \in DOMAIN sessions,
                 sessions[s].marked, sessions[t].marked, sessions[s].scope = sessions[t].scope
          PROVE  s = t
      <3>1. s = Grouping!Legacy(sessions[s].scope) /\ t = Grouping!Legacy(sessions[t].scope)
        BY <1>3, <2>2, Zenon DEF Grouping!IsValid, Grouping!Astray
      <3>. QED  BY <2>2, <3>1
    <2>. QED  BY <2>1, <2>2, Zenon DEF Grouping!Accepts
  <1>. QED  BY <1>1, <1>2, <1>3 DEF Grouping!BackfillIsHonest

\* A run that says it is complete has left no message that waited when it began, a
\* computed identity is in the computed session of its scope, and what the preflight finds
\* valid the migration 0025 accepts: for any number of runs, messages, sessions and
\* scopes, any size of a batch, with processes that die and locks that are lost
\* (ask/backfill.py, 0025_ask_ai_backfill_validation.sql).
THEOREM BackfillStaysHonest == Grouping!BackfillSpec => []Grouping!BackfillIsHonest
  <1>1. BackfillInv => Grouping!BackfillIsHonest
    BY InvIsHonest
  <1>2. Grouping!BackfillInit => BackfillInv
    BY BackfillBegins
  <1>3. BackfillInv /\ [Grouping!BackfillNext]_(Grouping!backfill) => BackfillInv'
    BY BackfillNextSound
  <1>. QED  BY <1>1, <1>2, <1>3, PTL DEF Grouping!BackfillSpec

-----------------------------------------------------------------------------
(* The composition.                                                        *)

Acts == Retries \/ Researches \/ Browses \/ Migrates \/ Groups
everything == <<which, vars, answers, shown, schema, backfills>>

\* The answers of the composition are those of AnswerLineage.
LEMMA AnswersAreLineage == RequestsSpec => Answers!Spec
  <1>1. RequestsInit => Answers!Init
    BY DEF RequestsInit
  <1>2. [Acts]_everything => [Answers!Next]_(Answers!vars)
    BY DEF Acts, everything, Retries, Researches, Browses, Migrates, Groups, answers,
           Answers!vars
  <1>. QED  BY <1>1, <1>2, PTL DEF RequestsSpec, Answers!Spec, Acts, everything

\* The answers to a question are versions 1 to n, each made from the one before it,
\* and a conflict has a reason, for any number of clients that regenerate, refresh
\* and repeat their requests (regeneration.py, repositories.py).
THEOREM VersionsStayLinear == RequestsSpec => []AnswersAreLinear
  <1>1. Answers!AnswersAreLinear => AnswersAreLinear
    BY DEF AnswersAreLinear
  <1>. QED  BY <1>1, Answers!Answered, AnswersAreLineage, PTL

\* A client that pages to the end, or exports, has seen every question that was
\* there when it began exactly once, for any size of the pages (repositories.py).
THEOREM PagesStayComplete ==
    ASSUME PageSize \in Nat
    PROVE  RequestsSpec => []PagingIsComplete
  <1>1. Answers!PagingIsComplete => PagingIsComplete
    BY DEF PagingIsComplete
  <1>2. Answers!Spec => []Answers!PagingIsComplete
    BY Answers!Paged
  <1>. QED  BY <1>1, <1>2, AnswersAreLineage, PTL

\* The turns of the composition are those of ResearchTurns.
LEMMA TurnsAreResearchTurns == RequestsSpec => Shown!Spec
  <1>1. RequestsInit => Shown!Init
    BY DEF RequestsInit
  <1>2. [Acts]_everything => [Shown!Next]_(Shown!vars)
    BY DEF Acts, everything, Retries, Researches, Browses, Migrates, Groups, shown,
           Shown!vars
  <1>. QED  BY <1>1, <1>2, PTL DEF RequestsSpec, Shown!Spec, Acts, everything

\* While a list is on the screen a question it shows goes out of sight only when its
\* record is erased or when a read arrives that did not reach the end or whose first
\* page was answered before the question was saved, and a synced record stays so; for
\* any questions, page sizes and lists, in whatever order answers, failures, retries and
\* reads arrive, also where turns are saved late and listed early
\* (ask-ai-reconciliation.ts, repositories.py).
THEOREM HandedOver ==
    ASSUME ShownSetting
    PROVE  RequestsSpec => HandoverKeepsTurns
  <1>1. Shown!Spec => Shown!HandoverKeepsTurns
    BY HandoverStays
  <1>. QED  BY <1>1, TurnsAreResearchTurns, PTL DEF HandoverKeepsTurns
\* The migrations of the composition are those of SchemaMigrations, and the messages
\* those of LegacyBackfill.
LEMMA MigrationsAreSchema == RequestsSpec => Schema!MigrationsSpec
  <1>1. RequestsInit => Schema!MigrationsInit
    BY DEF RequestsInit
  <1>2. [Acts]_everything => [Schema!MigrationsNext]_(Schema!migrations)
    BY DEF Acts, everything, Retries, Researches, Browses, Migrates, Groups, schema,
           Schema!migrations
  <1>. QED  BY <1>1, <1>2, PTL DEF RequestsSpec, Schema!MigrationsSpec, Acts, everything

LEMMA MessagesAreBackfill == RequestsSpec => Grouping!BackfillSpec
  <1>1. RequestsInit => Grouping!BackfillInit
    BY DEF RequestsInit
  <1>2. [Acts]_everything => [Grouping!BackfillNext]_(Grouping!backfill)
    BY DEF Acts, everything, Retries, Researches, Browses, Migrates, Groups, backfills,
           Grouping!backfill
  <1>. QED  BY <1>1, <1>2, PTL DEF RequestsSpec, Grouping!BackfillSpec, Acts, everything

\* The ledger of the migrations says what took effect, and a run of the backfill that says
\* it is complete is, for any operators, runs, messages, sessions and scopes
\* (core/migrations.py, ask/backfill.py).
THEOREM MigrationsStayHonest ==
    ASSUME "none" \notin Target
    PROVE  RequestsSpec => []MigrationsAreHonest
  <1>1. SchemaSetting
    BY DEF SchemaSetting, Schema!Files, Checkouts, File
  <1>2. Schema!MigrationsSpec => []Schema!LedgerIsTruthful
    BY <1>1, LedgerStaysTruthful
  <1>3. Grouping!BackfillSpec => []Grouping!BackfillIsHonest
    BY BackfillStaysHonest
  <1>4. Schema!LedgerIsTruthful /\ Grouping!BackfillIsHonest => MigrationsAreHonest
    BY DEF MigrationsAreHonest
  <1>. QED  BY <1>2, <1>3, <1>4, MigrationsAreSchema, MessagesAreBackfill, PTL
=============================================================================
