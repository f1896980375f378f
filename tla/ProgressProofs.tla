---------------------------- MODULE ProgressProofs ----------------------------
(***************************************************************************)
(* The safety of the event stream, for any number of clients, any page     *)
(* size and any journal: what a client receives is the journal, and a      *)
(* complete frame means that it holds all of it.                           *)
(*                                                                         *)
(* The argument: a generator stands at a position of the journal, the one  *)
(* its client has reached; the page in its hand is what the journal holds  *)
(* after that position; and since a journal only grows, and not at all     *)
(* once the run is over, both stay true while others write.                *)
(*                                                                         *)
(* The second half is about the notifications of MCProgress: who has had a *)
(* row and who is about to record a mail decide how often it goes out.     *)
(***************************************************************************)
EXTENDS MCProgress, DurableRunProofs, SequenceTheorems

-----------------------------------------------------------------------------
(* The inductive invariant.                                                *)

\* The cursor of the event at position n, NoCursor for n = 0.
Here(n) == [id |-> n, version |-> n]

Delivered(r) ==
    /\ Len(got[r]) <= Len(events)
    /\ \A i \in 1..Len(got[r]) : got[r][i] = Here(i)

\* The page of a generator continues the journal at its cursor, and is the rest
\* of it if it says that the run is over and no page follows.
PageContinues(g) ==
    /\ g.cursor.version + Len(g.page.items) <= Len(events)
    /\ \A i \in 1..Len(g.page.items) : g.page.items[i] = events[g.cursor.version + i]
    /\ IsTerminal(g.page.status) /\ ~g.page.more =>
          /\ g.page.status = run.status
          /\ g.cursor.version + Len(g.page.items) = Len(events)

\* A generator whose client has received n events.
Stands(g, n) ==
    /\ g.pc # "error"
    /\ g.pc # "off" =>
          /\ g.cursor = Here(n)
          /\ \A id \in g.seen : id <= g.expected
    /\ g.pc \in {"ready", "poll"} => g.expected = g.cursor.version
    /\ g.pc = "emit" => g.expected = g.cursor.version + Len(g.page.items)
    /\ g.pc \in {"ready", "emit"} => PageContinues(g)

Serves(r) == Stands(gen[r], Len(got[r]))

Completed(r) ==
    done[r] # "open" => done[r] = run.status /\ Len(got[r]) = Len(events)

StreamInv ==
    /\ TypeOK
    /\ Numbered
    /\ LeaseMeansOpen
    /\ \A r \in Reader : Delivered(r) /\ Serves(r) /\ Completed(r)

-----------------------------------------------------------------------------
(* Reading a page.                                                         *)

\* The rows after a position are the events that follow it.
LEMMA RowsFollow ==
    ASSUME RepoTypeOK, Numbered, NEW n \in 0..Len(events), NEW limit \in Nat
    PROVE  LET rows == RowsAfter(Here(n), limit) IN
           /\ rows \in Seq(Event)
           /\ Len(rows) = Smaller(Len(events) - n, limit)
           /\ \A i \in 1..Len(rows) : rows[i] = events[n + i]
<1> DEFINE last == Smaller(n + limit, Len(events))
<1>1. /\ events \in Seq(Event) /\ Len(events) \in Nat /\ n \in Nat
      /\ run.next = Len(events)
    BY DEF RepoTypeOK, Numbered
<1>2. last \in n..Len(events) /\ last - n = Smaller(Len(events) - n, limit)
    BY <1>1 DEF Smaller
<1>3. RowsAfter(Here(n), limit) = SubSeq(events, n + 1, last)
    BY <1>1 DEF RowsAfter, Here
<1> HIDE DEF last
<1>4. /\ SubSeq(events, n + 1, last) \in Seq(Event)
      /\ Len(SubSeq(events, n + 1, last)) = last - n
      /\ \A i \in 1..(last - n) : SubSeq(events, n + 1, last)[i] = events[n + i]
  <2>1. n + 1 \in 1..(Len(events) + 1) /\ last \in (n + 1 - 1)..Len(events)
      BY <1>1, <1>2
  <2> QED
      BY <1>1, <1>2, <2>1, SubSeqProperties
<1> QED
    BY <1>2, <1>3, <1>4

\* load_event_page never raises for a client of the stream.
LEMMA PageIsReadable ==
    ASSUME RepoTypeOK, Numbered, PageSize \in Nat, NEW n \in 0..Len(events)
    PROVE  PageReadable(Here(n))
<1> DEFINE rows == RowsAfter(Here(n), PageSize + 1)
<1>1. /\ Len(rows) = Smaller(Len(events) - n, PageSize + 1)
      /\ \A i \in 1..Len(rows) : rows[i] = events[n + i]
      /\ Len(rows) <= Len(events) - n /\ Len(rows) \in Nat
  <2>1. Len(events) \in Nat /\ n \in Nat /\ PageSize + 1 \in Nat
      BY DEF RepoTypeOK
  <2>2. /\ Len(rows) = Smaller(Len(events) - n, PageSize + 1)
        /\ \A i \in 1..Len(rows) : rows[i] = events[n + i]
      BY <2>1, RowsFollow
  <2> HIDE DEF rows
  <2> QED
      BY <2>1, <2>2 DEF Smaller
<1>2. ContiguousBatch(rows, n)
  <2> HIDE DEF rows
  <2>1. \A i \in 1..Len(rows) : n + i \in 1..Len(events)
      BY <1>1 DEF RepoTypeOK
  <2>2. \A i \in 1..Len(rows) :
            rows[i].id = n + i /\ rows[i].sequence = n + i - 1 /\ rows[i].version = n + i
      BY <1>1, <2>1, SMTT(20) DEF Numbered
  <2>3. \A i, j \in 1..Len(rows) : rows[i].id = rows[j].id => i = j
      BY <1>1, <2>2
  <2> QED
      BY <2>2, <2>3 DEF ContiguousBatch
<1>3. AnchorMatches(Here(n))
  <2>1. n = 0 \/ (n \in 1..Len(events) /\ CursorOf(events[n]) = Here(n))
      BY DEF RepoTypeOK, Numbered, CursorOf, Here
  <2> QED
      BY <2>1 DEF AnchorMatches, NoCursor, Here, NoId
<1>4. run.next = Len(events) /\ run.version = Len(events) /\ Here(n).version = n
    BY DEF Numbered, Here
<1> QED
    BY <1>1, <1>2, <1>3, <1>4 DEF PageReadable

\* What read_batch returns continues the journal.
LEMMA BatchContinues ==
    ASSUME RepoTypeOK, Numbered, PageSize \in Nat, NEW n \in 0..Len(events),
           NEW g, g.cursor = Here(n), g.page = Batch(Here(n))
    PROVE  /\ PageContinues(g)
           /\ g.page \in Page
           /\ Len(g.page.items) <= PageSize
<1> DEFINE items == RowsAfter(Here(n), PageSize)
<1>1. /\ items \in Seq(Event)
      /\ Len(items) = Smaller(Len(events) - n, PageSize)
      /\ \A i \in 1..Len(items) : items[i] = events[n + i]
    BY RowsFollow
<1>2. /\ Len(events) \in Nat /\ n \in Nat /\ run.next = Len(events)
      /\ run.status \in RunStatus /\ Here(n).version = n
    BY DEF RepoTypeOK, RunRow, Numbered, Here
<1>3. /\ g.page.items = items /\ g.page.status = run.status
      /\ g.page.more = (run.next - n > Len(items)) /\ g.cursor.version = n
    BY <1>2 DEF Batch
<1> HIDE DEF items
<1>4. Len(items) \in Nat /\ n + Len(items) <= Len(events) /\ Len(items) <= PageSize
    BY <1>1, <1>2 DEF Smaller
<1>5. PageContinues(g)
  <2>1. n + Len(items) <= Len(events) /\ \A i \in 1..Len(items) : items[i] = events[n + i]
      BY <1>1, <1>4
  <2>2. ~g.page.more => ~(run.next - n > Len(items))
      BY <1>3, Zenon
  <2>3. ~g.page.more => n + Len(items) = Len(events)
      BY <1>2, <1>4, <2>2
  <2> QED
      BY <1>3, <2>1, <2>3 DEF PageContinues
<1>6. g.page \in Page
  <2>1. g.page = [items |-> items, more |-> run.next - n > Len(items),
                  status |-> run.status]
      BY <1>2 DEF Batch, items
  <2> QED
      BY <1>1, <1>2, <2>1 DEF Page
<1> QED
    BY <1>3, <1>4, <1>5, <1>6

-----------------------------------------------------------------------------
(* Steps of the repository.                                                *)

LEMMA WriterStep ==
    ASSUME RepoTypeOK, LeaseMeansOpen, Writer \/ Expire
    PROVE  RepoTypeOK' /\ RepoStep
<1> DEFINE id == run.version + 1
<1>1. /\ run \in RunRow /\ id \in Id /\ id \in Nat /\ 0 \in Nat
      /\ run.version \in Nat /\ run.lease \in Nat /\ run.cancel \in Nat
      /\ run.state \in State
    BY DEF RepoTypeOK, RunRow, Id
<1>2. CASE Expire
  <2>1. Quiet
      BY <1>1, <1>2 DEF Expire, Tick, RunRow, Quiet
  <2> QED
      BY <1>2, <2>1, TickType DEF Expire, RepoStep
<1>3. CASE AcquireLease(id, id, 0)
    BY <1>1, <1>3, AcquireType, AcquireShape DEF RepoStep
<1>4. CASE RequestCancellation(id)
    BY <1>1, <1>4, RequestType, RequestShape DEF RepoStep
<1>5. CASE run.lease # NoId /\ RenewLease(run.lease, id, run.version, 0)
    BY <1>1, <1>5, RenewType, RenewShape DEF RepoStep
<1>6. CASE run.lease # NoId /\ ReleaseLease(run.lease, id, run.version)
    BY <1>1, <1>6, ReleaseType, ReleaseShape DEF RepoStep
<1>7. ASSUME NEW s \in State, run.lease # NoId,
             AppendStateTransition(run.lease, id, run.version, 0, s)
      PROVE  RepoTypeOK' /\ RepoStep
    BY <1>1, <1>7, AppendType, AppendShape DEF RepoStep
<1>8. CASE /\ run.lease # NoId /\ run.cancel # NoId
           /\ ApplyCancellation(run.lease, run.cancel, id, run.version, 0, run.state)
    BY <1>1, <1>8, ApplyType, ApplyShape DEF RepoStep
<1> QED
    BY <1>2, <1>3, <1>4, <1>5, <1>6, <1>7, <1>8 DEF Writer, Write, FreshId

\* What a generator and its client hold stays true while others write.
LEMMA ReaderKept ==
    ASSUME TypeOK, events \in Seq(Event), RepoStep, NEW r \in Reader,
           gen'[r] = gen[r], got'[r] = got[r], done'[r] = done[r],
           Delivered(r), Serves(r), Completed(r)
    PROVE  Delivered(r)' /\ Serves(r)' /\ Completed(r)'
<1>1. /\ Len(events) \in Nat /\ Len(events') \in Nat /\ Len(events) <= Len(events')
      /\ \A i \in 1..Len(events) : events'[i] = events[i]
      /\ IsTerminal(run.status) => events' = events /\ run'.status = run.status
    BY JournalGrows
<1>2. /\ gen[r] \in Generator /\ got[r] \in Seq(Cursor)
      /\ done[r] # "open" => IsTerminal(done[r])
    BY DEF TypeOK, IsTerminal
<1>3. Delivered(r)'
    BY <1>1, <1>2 DEF Delivered
<1>4. Completed(r)'
    BY <1>1, <1>2 DEF Completed
<1>5. ASSUME PageContinues(gen[r]) PROVE PageContinues(gen[r])'
  <2> DEFINE n == gen[r].cursor.version
             items == gen[r].page.items
  <2>1. n \in Nat /\ items \in Seq(Event) /\ Len(items) \in Nat
      BY <1>2 DEF Generator, Cursor, Page
  <2>2. /\ n + Len(items) <= Len(events)
        /\ \A i \in 1..Len(items) : items[i] = events[n + i]
        /\ IsTerminal(gen[r].page.status) /\ ~gen[r].page.more =>
              gen[r].page.status = run.status /\ n + Len(items) = Len(events)
      BY <1>5 DEF PageContinues
  <2> HIDE DEF n, items
  <2>3. \A i \in 1..Len(items) : n + i \in 1..Len(events)
      BY <1>1, <2>1, <2>2
  <2>4. /\ n + Len(items) <= Len(events')
        /\ \A i \in 1..Len(items) : items[i] = events'[n + i]
      BY <1>1, <2>1, <2>2, <2>3
  <2>5. IsTerminal(gen[r].page.status) /\ ~gen[r].page.more =>
            gen[r].page.status = run'.status /\ n + Len(items) = Len(events')
      BY <1>1, <2>2
  <2> QED
      BY <2>4, <2>5 DEF PageContinues, n, items
<1>6. Serves(r)'
    BY <1>5 DEF Serves, Stands, PageContinues
<1> QED
    BY <1>3, <1>4, <1>6

-----------------------------------------------------------------------------
(* Steps of a generator.                                                   *)

\* A step of one generator, as far as the types and the other ones go.
LEMMA ServeEffect ==
    ASSUME gen \in [Reader -> Generator], NEW r \in Reader, NEW g \in Generator,
           Serve(r, g)
    PROVE  /\ gen' \in [Reader -> Generator]
           /\ gen'[r] = g
           /\ \A u \in Reader \ {r} : gen'[u] = gen[u]
BY DEF Serve

LEMMA OffType == Off \in Generator /\ Len(Off.page.items) = 0
BY DEF Off, Generator, NoCursor, Cursor, NoId, NoPage, Page, RunStatus

\* A client comes back at the position it has reached.
LEMMA LastIsHere ==
    ASSUME NEW r \in Reader, got[r] \in Seq(Cursor), Delivered(r)
    PROVE  /\ LastCursor(r) = Here(Len(got[r]))
           /\ Len(got[r]) \in Nat
<1>1. Len(got[r]) \in Nat /\ (got[r] = <<>> <=> Len(got[r]) = 0)
    OBVIOUS
<1>2. CASE got[r] = <<>>
    BY <1>1, <1>2 DEF LastCursor, NoCursor, NoId, Here
<1>3. CASE got[r] # <<>>
    BY <1>1, <1>3 DEF LastCursor, Delivered
<1> QED
    BY <1>1, <1>2, <1>3

\* What a step of the generator of client r has to establish.
ReaderStep(r) ==
    /\ repoVars' = repoVars
    /\ gen' \in [Reader -> Generator]
    /\ Len(gen'[r].page.items) <= PageSize
    /\ got' \in [Reader -> Seq(Cursor)]
    /\ done' \in [Reader -> {"open"} \cup TerminalStatus]
    /\ \A u \in Reader \ {r} :
          gen'[u] = gen[u] /\ got'[u] = got[u] /\ done'[u] = done[u]
    /\ Delivered(r)' /\ Serves(r)' /\ Completed(r)'

\* ... and what there is to establish of a step that delivers nothing.
LEMMA SilentStep ==
    ASSUME TypeOK, NEW r \in Reader, Delivered(r), Completed(r), repoVars' = repoVars,
           NEW g \in Generator, Serve(r, g), Len(g.page.items) <= PageSize,
           Stands(g, Len(got[r])), got' = got, done' = done
    PROVE  ReaderStep(r)
<1>1. /\ gen' \in [Reader -> Generator] /\ gen'[r] = g
      /\ \A u \in Reader \ {r} : gen'[u] = gen[u]
    BY ServeEffect DEF TypeOK
<1>2. Delivered(r)' /\ Completed(r)'
    BY DEF Delivered, Completed, repoVars
<1>3. /\ got' \in [Reader -> Seq(Cursor)]
      /\ done' \in [Reader -> {"open"} \cup TerminalStatus]
    BY DEF TypeOK
<1>4. \A u \in Reader \ {r} :
         gen'[u] = gen[u] /\ got'[u] = got[u] /\ done'[u] = done[u]
    BY <1>1
<1>5. Len(gen'[r].page.items) <= PageSize
    BY <1>1
<1>6. Serves(r)'
    BY <1>1 DEF Serves, Stands, PageContinues, repoVars
<1> QED
    BY <1>1, <1>2, <1>3, <1>4, <1>5, <1>6 DEF ReaderStep

\* A generator that stands at the position of its client may read a page there.
LEMMA ReadyServes ==
    ASSUME StreamInv, NEW r \in Reader, NEW n \in 0..Len(events),
           NEW g \in Generator, Serve(r, g), repoVars' = repoVars, got' = got, done' = done,
           n = Len(got[r]), g.pc = "ready", g.cursor = Here(n), g.expected = n,
           g.page = Batch(Here(n)), \A id \in g.seen : id <= n
    PROVE  ReaderStep(r)
<1>1. /\ RepoTypeOK /\ Numbered /\ PageSize \in Nat
      /\ TypeOK /\ Delivered(r) /\ Completed(r)
    BY RunEventStreamAssumption DEF StreamInv, TypeOK
<1>2. PageContinues(g) /\ Len(g.page.items) <= PageSize
    BY <1>1, BatchContinues
<1>3. g.cursor.version = n
    BY DEF Here
<1>4. Stands(g, n)
    BY <1>2, <1>3 DEF Stands
<1> QED
    BY <1>1, <1>2, <1>4, SilentStep

LEMMA PrepareStep ==
    ASSUME StreamInv, NEW r \in Reader, Prepare(r)
    PROVE  ReaderStep(r)
<1> DEFINE n == Len(got[r])
           g == [pc |-> "ready", cursor |-> Here(n), expected |-> n,
                 page |-> Batch(Here(n)), seen |-> {}]
<1>1. /\ RepoTypeOK /\ Numbered /\ PageSize \in Nat /\ got[r] \in Seq(Cursor)
      /\ Delivered(r) /\ Len(events) \in Nat
    BY RunEventStreamAssumption DEF StreamInv, TypeOK, RepoTypeOK
<1>2. n \in 0..Len(events) /\ LastCursor(r) = Here(n) /\ Here(n).version = n
    BY <1>1, LastIsHere DEF Delivered, Here
<1>3. Serve(r, g) /\ repoVars' = repoVars /\ got' = got /\ done' = done
    BY <1>2 DEF Prepare
<1>4. Batch(Here(n)) \in Page
  <2>1. g.cursor = Here(n) /\ g.page = Batch(Here(n))
      OBVIOUS
  <2> HIDE DEF g
  <2>2. g.page \in Page
      BY <1>1, <1>2, <2>1, BatchContinues
  <2> QED
      BY <2>1, <2>2
<1>5. g \in Generator
    BY <1>2, <1>4 DEF Generator, Here, Cursor
<1> QED
    BY <1>2, <1>3, <1>5, ReadyServes

\* _validate_stream_items accepts what continues the journal.
LEMMA ContinuationIsValid ==
    ASSUME RepoTypeOK, Numbered, NEW g \in Generator, PageContinues(g),
           g.expected = g.cursor.version, \A id \in g.seen : id <= g.expected
    PROVE  /\ ValidItems(g)
           /\ \A i \in 1..Len(g.page.items) :
                 g.page.items[i].id = g.expected + i /\ g.page.items[i].id \in Id
<1> DEFINE n == g.expected
           items == g.page.items
<1>1. n \in Nat /\ Len(items) \in Nat /\ Len(events) \in Nat /\ g.seen \subseteq Id
    BY DEF Generator, Page, RepoTypeOK
<1>2. /\ n + Len(items) <= Len(events)
      /\ \A i \in 1..Len(items) : items[i] = events[n + i]
    BY Zenon DEF PageContinues
<1>3. \A id \in g.seen : id <= n
    OBVIOUS
<1> HIDE DEF n, items
<1>4. \A i \in 1..Len(items) : n + i \in 1..Len(events)
    BY <1>1, <1>2
<1>5. \A i \in 1..Len(items) : /\ items[i].id = n + i
                               /\ items[i].sequence = n + i - 1
                               /\ items[i].version = n + i
  <2>1. \A k \in 1..Len(events) :
            events[k].id = k /\ events[k].sequence = k - 1 /\ events[k].version = k
      BY DEF Numbered
  <2> SUFFICES ASSUME NEW i \in 1..Len(items)
               PROVE  /\ items[i].id = n + i
                      /\ items[i].sequence = n + i - 1
                      /\ items[i].version = n + i
      OBVIOUS
  <2>2. items[i] = events[n + i] /\ n + i \in 1..Len(events)
      BY <1>2, <1>4
  <2>3. i \in Nat /\ n \in Nat
      BY <1>1
  <2> QED
      BY <2>1, <2>2, <2>3
<1>6. \A i \in 1..Len(items) : /\ items[i].version = items[i].sequence + 1
                               /\ items[i].id \notin g.seen
                               /\ items[i].id \in Id
    BY <1>1, <1>3, <1>5 DEF Id
<1>7. \A i, j \in 1..Len(items) : items[i].id = items[j].id => i = j
    BY <1>1, <1>5
<1> QED
    BY <1>5, <1>6, <1>7 DEF ValidItems, n, items

LEMMA ValidateStep ==
    ASSUME StreamInv, NEW r \in Reader, Validate(r)
    PROVE  ReaderStep(r)
<1> DEFINE g == gen[r]
           ids == {g.page.items[i].id : i \in 1..Len(g.page.items)}
           h == [g EXCEPT !.pc = "emit", !.seen = @ \cup ids,
                          !.expected = @ + Len(g.page.items)]
<1>1. /\ TypeOK /\ RepoTypeOK /\ Numbered /\ g \in Generator
      /\ Delivered(r) /\ Serves(r) /\ Completed(r)
      /\ repoVars' = repoVars /\ got' = got /\ done' = done
      /\ Len(g.page.items) <= PageSize
    BY DEF StreamInv, TypeOK, Validate
<1>2. /\ g.pc = "ready" /\ PageContinues(g) /\ g.expected = g.cursor.version
      /\ g.cursor = Here(Len(got[r])) /\ \A id \in g.seen : id <= g.expected
    BY <1>1 DEF Validate, Serves, Stands
<1>3. /\ ValidItems(g)
      /\ \A i \in 1..Len(g.page.items) :
            g.page.items[i].id = g.expected + i /\ g.page.items[i].id \in Id
    BY <1>1, <1>2, ContinuationIsValid
<1>4. Serve(r, h)
    BY <1>3 DEF Validate
<1>5. /\ g.seen \subseteq Id /\ g.expected \in Nat /\ Len(g.page.items) \in Nat
      /\ g.cursor \in Cursor /\ g.page \in Page
    BY <1>1 DEF Generator, Page
<1>6. ids \subseteq Id /\ \A id \in ids : id <= g.expected + Len(g.page.items)
  <2>1. \A i \in 1..Len(g.page.items) : g.page.items[i].id <= g.expected + Len(g.page.items)
      BY <1>3, <1>5
  <2> QED
      BY <1>3, <2>1
<1>7. \A id \in g.seen \cup ids : id <= g.expected + Len(g.page.items)
    BY <1>2, <1>5, <1>6 DEF Id
<1>8. /\ h.pc = "emit" /\ h.cursor = g.cursor /\ h.page = g.page
      /\ h.expected = g.expected + Len(g.page.items) /\ h.seen = g.seen \cup ids
    BY <1>1 DEF Generator
<1>9. h \in Generator
  <2> HIDE DEF ids
  <2>1. g.seen \cup ids \in SUBSET Id /\ g.expected + Len(g.page.items) \in Nat
      BY <1>5, <1>6
  <2> QED
      BY <1>1, <1>5, <2>1 DEF Generator
<1> HIDE DEF h, ids
<1>10. PageContinues(h)
    BY <1>2, <1>8 DEF PageContinues
<1>11. Stands(h, Len(got[r]))
    BY <1>2, <1>7, <1>8, <1>10 DEF Stands
<1> QED
    BY <1>1, <1>4, <1>8, <1>9, <1>11, SilentStep

\* The first frame of what continues the journal, and what is left of it.
LEMMA HeadContinues ==
    ASSUME RepoTypeOK, Numbered, NEW g \in Generator, PageContinues(g),
           g.page.items # <<>>,
           NEW h \in Generator, h.page = [g.page EXCEPT !.items = Tail(g.page.items)],
           h.cursor = CursorOf(Head(g.page.items))
    PROVE  /\ CursorOf(Head(g.page.items)) = Here(g.cursor.version + 1)
           /\ g.cursor.version + 1 <= Len(events)
           /\ Len(h.page.items) = Len(g.page.items) - 1
           /\ PageContinues(h)
<1> DEFINE n == g.cursor.version
           items == g.page.items
           rest == h.page.items
<1>1. n \in Nat /\ items \in Seq(Event) /\ Len(items) \in Nat /\ Len(events) \in Nat
    BY DEF Generator, Page, Cursor, RepoTypeOK
<1>2. /\ n + Len(items) <= Len(events)
      /\ \A i \in 1..Len(items) : items[i] = events[n + i]
      /\ IsTerminal(g.page.status) /\ ~g.page.more =>
            g.page.status = run.status /\ n + Len(items) = Len(events)
    BY Zenon DEF PageContinues
<1>3. /\ rest = Tail(items) /\ h.page.status = g.page.status
      /\ items # <<>>
    BY DEF Generator, Page
<1>4. h.page.more = g.page.more
    BY Zenon DEF Generator, Page
<1> HIDE DEF n, items, rest
<1>5. /\ Len(items) >= 1 /\ Head(items) = items[1] /\ Len(rest) = Len(items) - 1
      /\ \A i \in 1..Len(rest) : rest[i] = items[i + 1]
    BY <1>1, <1>3
<1>6. Head(items) = events[n + 1] /\ n + 1 \in 1..Len(events)
  <2>1. 1 \in 1..Len(items) /\ n + 1 \in 1..Len(events)
      BY <1>1, <1>2, <1>5
  <2> QED
      BY <1>2, <1>5, <2>1
<1>7. CursorOf(Head(items)) = Here(n + 1)
    BY <1>6 DEF Numbered, CursorOf, Here
<1>8. h.cursor.version = n + 1
    BY <1>7 DEF Here, n, items
<1>9. \A i \in 1..Len(rest) : rest[i] = events[n + 1 + i]
  <2> SUFFICES ASSUME NEW i \in 1..Len(rest) PROVE rest[i] = events[n + 1 + i]
      OBVIOUS
  <2>1. /\ i \in Nat /\ Len(rest) \in Nat
        /\ i + 1 \in 1..Len(items) /\ n + (i + 1) = n + 1 + i
      BY <1>1, <1>5
  <2>2. rest[i] = items[i + 1] /\ items[i + 1] = events[n + (i + 1)]
      BY <1>2, <1>5, <2>1
  <2> QED
      BY <2>1, <2>2
<1>10. PageContinues(h)
  <2>1. n + 1 + Len(rest) = n + Len(items)
      BY <1>1, <1>5
  <2>2. h.cursor.version + Len(rest) <= Len(events)
      BY <1>2, <1>8, <2>1
  <2>3. \A i \in 1..Len(rest) : rest[i] = events[h.cursor.version + i]
      BY <1>8, <1>9
  <2>4. IsTerminal(h.page.status) /\ ~h.page.more =>
            h.page.status = run.status /\ h.cursor.version + Len(rest) = Len(events)
      BY <1>2, <1>3, <1>4, <1>8, <2>1
  <2> QED
      BY <2>2, <2>3, <2>4 DEF PageContinues, rest
<1> QED
    BY <1>5, <1>6, <1>7, <1>10 DEF n, items, rest

LEMMA EmitStep ==
    ASSUME StreamInv, NEW r \in Reader, Emit(r)
    PROVE  ReaderStep(r)
<1> DEFINE g == gen[r]
           n == Len(got[r])
           c == CursorOf(Head(g.page.items))
           h == [g EXCEPT !.cursor = c, !.page.items = Tail(g.page.items)]
<1>1. /\ TypeOK /\ RepoTypeOK /\ Numbered /\ g \in Generator
      /\ got \in [Reader -> Seq(Cursor)] /\ got[r] \in Seq(Cursor) /\ n \in Nat
      /\ Delivered(r) /\ Stands(g, n) /\ Completed(r)
      /\ repoVars' = repoVars /\ done' = done
      /\ Len(g.page.items) <= PageSize /\ PageSize \in Nat
    BY RunEventStreamAssumption DEF StreamInv, TypeOK, Emit, Serves
<1>2. /\ g.pc = "emit" /\ g.page.items # <<>> /\ PageContinues(g)
      /\ g.expected = g.cursor.version + Len(g.page.items)
      /\ g.cursor = Here(n) /\ \A id \in g.seen : id <= g.expected
    BY <1>1 DEF Emit, Stands
<1>3. Serve(r, h) /\ got' = [got EXCEPT ![r] = Append(got[r], c)]
    BY DEF Emit
<1>4. /\ g.page.items \in Seq(Event) /\ g.page \in Page /\ g.cursor.version = n
      /\ Len(g.page.items) \in Nat /\ g.expected \in Nat
    BY <1>1, <1>2 DEF Generator, Page, Here
<1>5. /\ h.pc = "emit" /\ h.cursor = c /\ h.expected = g.expected /\ h.seen = g.seen
      /\ h.page = [g.page EXCEPT !.items = Tail(g.page.items)]
    BY <1>1, <1>2 DEF Generator, Page
<1>6. h \in Generator /\ c \in Cursor
  <2>1. Tail(g.page.items) \in Seq(Event) /\ Head(g.page.items) \in Event
      BY <1>2, <1>4
  <2>2. c \in Cursor
      BY <2>1 DEF Event, Id, Cursor, CursorOf
  <2>3. [g.page EXCEPT !.items = Tail(g.page.items)] \in Page
      BY <1>4, <2>1 DEF Page
  <2> HIDE DEF c
  <2> QED
      BY <1>1, <2>2, <2>3 DEF Generator
<1> HIDE DEF h
<1>7. /\ c = Here(n + 1) /\ n + 1 <= Len(events)
      /\ Len(h.page.items) = Len(g.page.items) - 1 /\ PageContinues(h)
    BY <1>1, <1>2, <1>4, <1>5, <1>6, HeadContinues
<1> HIDE DEF c
<1>8. gen' \in [Reader -> Generator] /\ gen'[r] = h /\ \A u \in Reader \ {r} : gen'[u] = gen[u]
    BY <1>1, <1>3, <1>6, ServeEffect DEF TypeOK
<1>9. /\ got' \in [Reader -> Seq(Cursor)] /\ got'[r] = Append(got[r], c)
      /\ \A u \in Reader \ {r} : got'[u] = got[u]
    BY <1>1, <1>3, <1>6
<1>10. Len(got'[r]) = n + 1 /\ \A i \in 1..(n + 1) : got'[r][i] = Here(i)
  <2>1. \A i \in 1..n : got[r][i] = Here(i)
      BY <1>1 DEF Delivered
  <2>2. /\ Len(Append(got[r], c)) = n + 1 /\ Append(got[r], c)[n + 1] = c
        /\ \A i \in 1..n : Append(got[r], c)[i] = got[r][i]
      BY <1>1, <1>6
  <2>3. \A i \in 1..(n + 1) : i \in 1..n \/ i = n + 1
      BY <1>1
  <2> HIDE DEF n
  <2> QED
      BY <1>7, <1>9, <2>1, <2>2, <2>3
<1>11. Delivered(r)'
    BY <1>1, <1>7, <1>10 DEF Delivered, repoVars
<1>12. Stands(h, n + 1)
  <2>1. h.cursor.version = n + 1
      BY <1>5, <1>7 DEF Here
  <2>2. h.expected = h.cursor.version + Len(h.page.items)
    <3>1. h.expected = n + Len(g.page.items) /\ Len(h.page.items) = Len(g.page.items) - 1
        BY <1>2, <1>4, <1>5, <1>7
    <3>2. n \in Nat /\ Len(g.page.items) \in Nat
        BY <1>1, <1>4
    <3> HIDE DEF n
    <3>3. \A i, j \in Nat : i + j = (i + 1) + (j - 1)
        OBVIOUS
    <3> QED
        BY <2>1, <3>1, <3>2, <3>3, Zenon
  <2> HIDE DEF n
  <2> QED
      BY <1>2, <1>5, <1>7, <2>2 DEF Stands
<1>13. Serves(r)'
  <2>1. PageContinues(h) => PageContinues(gen[r])'
      BY <1>1, <1>8 DEF PageContinues, repoVars
  <2>2. /\ h.pc = "emit" /\ h.cursor = Here(n + 1) /\ \A id \in h.seen : id <= h.expected
        /\ h.expected = h.cursor.version + Len(h.page.items)
      BY <1>5, <1>12, <1>2 DEF Stands
  <2> HIDE DEF n
  <2> QED
      BY <1>7, <1>8, <1>10, <2>1, <2>2 DEF Serves, Stands
<1>14. Completed(r)'
    BY <1>1, <1>7, <1>10 DEF Completed, repoVars
<1>15. done' \in [Reader -> {"open"} \cup TerminalStatus] /\ Len(gen'[r].page.items) <= PageSize
    BY <1>1, <1>4, <1>7, <1>8 DEF TypeOK
<1> QED
    BY <1>1, <1>8, <1>9, <1>11, <1>13, <1>14, <1>15 DEF ReaderStep

LEMMA EndBatchStep ==
    ASSUME StreamInv, NEW r \in Reader, EndBatch(r)
    PROVE  ReaderStep(r)
<1> DEFINE g == gen[r]
           n == Len(got[r])
           h == [g EXCEPT !.pc = "poll", !.page = NoPage]
<1>1. /\ TypeOK /\ RepoTypeOK /\ g \in Generator /\ PageSize \in Nat
      /\ got \in [Reader -> Seq(Cursor)] /\ got[r] \in Seq(Cursor) /\ n \in Nat
      /\ Delivered(r) /\ Stands(g, n) /\ Completed(r)
      /\ repoVars' = repoVars /\ got' = got
    BY RunEventStreamAssumption DEF StreamInv, TypeOK, EndBatch, Serves
<1>2. /\ g.pc = "emit" /\ Len(g.page.items) = 0 /\ PageContinues(g)
      /\ g.expected = g.cursor.version + Len(g.page.items)
      /\ g.cursor = Here(n) /\ \A id \in g.seen : id <= g.expected
    BY <1>1 DEF EndBatch, Stands
<1>3. g.cursor.version = n /\ g.expected = n
    BY <1>1, <1>2 DEF Here
<1>4. CASE IsTerminal(g.page.status) /\ ~g.page.more
  <2>1. Serve(r, Off) /\ done' = [done EXCEPT ![r] = g.page.status]
      BY <1>4, Zenon DEF EndBatch
  <2>2. g.page.status = run.status /\ n = Len(events) /\ g.page.status \in TerminalStatus
      BY <1>1, <1>2, <1>3, <1>4 DEF PageContinues, IsTerminal
  <2>3. /\ gen' \in [Reader -> Generator] /\ gen'[r] = Off
        /\ \A u \in Reader \ {r} : gen'[u] = gen[u]
      BY <1>1, <2>1, ServeEffect, OffType DEF TypeOK
  <2>4. /\ done' \in [Reader -> {"open"} \cup TerminalStatus]
        /\ done'[r] = run.status
        /\ \A u \in Reader \ {r} : done'[u] = done[u]
      BY <1>1, <2>1, <2>2 DEF TypeOK
  <2>5. Delivered(r)' /\ Completed(r)'
      BY <1>1, <2>2, <2>4 DEF Delivered, Completed, repoVars
  <2>6. Serves(r)'
      BY <2>3 DEF Serves, Stands, Off
  <2>7. Len(gen'[r].page.items) <= PageSize
      BY <1>1, <2>3, OffType
  <2> QED
      BY <1>1, <2>3, <2>4, <2>5, <2>6, <2>7 DEF ReaderStep
<1>5. CASE ~(IsTerminal(g.page.status) /\ ~g.page.more)
  <2>1. Serve(r, h) /\ done' = done
      BY <1>5, Zenon DEF EndBatch
  <2>2. NoPage \in Page /\ Len(NoPage.items) = 0
      BY DEF NoPage, Page, RunStatus
  <2>3. /\ h \in Generator /\ h.pc = "poll" /\ h.cursor = g.cursor
        /\ h.expected = g.expected /\ h.seen = g.seen /\ h.page = NoPage
      BY <1>1, <2>2 DEF Generator
  <2> HIDE DEF h, n
  <2>4. Stands(h, n)
      BY <1>2, <1>3, <2>3 DEF Stands
  <2>5. Len(h.page.items) <= PageSize
      BY <1>1, <2>2, <2>3
  <2> QED
      BY <1>1, <2>1, <2>3, <2>4, <2>5, SilentStep DEF n
<1> QED
    BY <1>4, <1>5

LEMMA PollStep ==
    ASSUME StreamInv, NEW r \in Reader, Poll(r)
    PROVE  ReaderStep(r)
<1> DEFINE g == gen[r]
           n == Len(got[r])
           h == [g EXCEPT !.pc = "ready", !.page = Batch(g.cursor)]
<1>1. /\ RepoTypeOK /\ Numbered /\ PageSize \in Nat /\ g \in Generator
      /\ Delivered(r) /\ Stands(g, n) /\ got[r] \in Seq(Cursor) /\ n \in Nat
      /\ repoVars' = repoVars /\ got' = got /\ done' = done
    BY RunEventStreamAssumption DEF StreamInv, TypeOK, Poll, Serves
<1>2. /\ g.pc = "poll" /\ g.cursor = Here(n) /\ g.expected = g.cursor.version
      /\ \A id \in g.seen : id <= g.expected
    BY <1>1 DEF Poll, Stands
<1>3. n \in 0..Len(events) /\ g.expected = n
    BY <1>1, <1>2 DEF Delivered, RepoTypeOK, Here
<1>4. Serve(r, h)
    BY <1>1, <1>2, <1>3, PageIsReadable DEF Poll
<1>5. Batch(g.cursor) \in Page
  <2> DEFINE b == [g EXCEPT !.page = Batch(g.cursor)]
  <2>1. b.cursor = Here(n) /\ b.page = Batch(Here(n))
      BY <1>1, <1>2 DEF Generator
  <2> HIDE DEF b
  <2>2. b.page \in Page
      BY <1>1, <1>3, <2>1, BatchContinues
  <2> QED
      BY <1>2, <2>1, <2>2
<1>6. /\ h \in Generator /\ h.pc = "ready" /\ h.cursor = Here(n) /\ h.expected = n
      /\ h.page = Batch(Here(n)) /\ h.seen = g.seen
    BY <1>1, <1>2, <1>3, <1>5 DEF Generator
<1> HIDE DEF h, n
<1> QED
    BY <1>1, <1>2, <1>3, <1>4, <1>6, ReadyServes DEF n

LEMMA DropStep ==
    ASSUME StreamInv, NEW r \in Reader, Drop(r)
    PROVE  ReaderStep(r)
<1>1. /\ TypeOK /\ Delivered(r) /\ Completed(r) /\ PageSize \in Nat
      /\ repoVars' = repoVars /\ got' = got /\ done' = done /\ Serve(r, Off)
    BY RunEventStreamAssumption DEF StreamInv, Drop
<1>2. Stands(Off, Len(got[r]))
    BY DEF Stands, Off
<1> QED
    BY <1>1, <1>2, OffType, SilentStep

-----------------------------------------------------------------------------
(* The invariant.                                                          *)

LEMMA StreamInvInit == Init => StreamInv
<1> SUFFICES ASSUME Init PROVE StreamInv
    OBVIOUS
<1>1. RepoTypeOK /\ Numbered /\ LeaseMeansOpen
    BY RepoInitInv DEF Init
<1>2. TypeOK
    BY <1>1, OffType, RunEventStreamAssumption DEF Init, TypeOK
<1>3. ASSUME NEW r \in Reader PROVE Delivered(r) /\ Serves(r) /\ Completed(r)
    BY <1>1 DEF Init, Delivered, Serves, Stands, Completed, Off, RepoTypeOK
<1> QED
    BY <1>1, <1>2, <1>3 DEF StreamInv

LEMMA StreamInvNext == StreamInv /\ [Next]_vars => StreamInv'
<1> SUFFICES ASSUME StreamInv, [Next]_vars PROVE StreamInv'
    OBVIOUS
<1>1. /\ TypeOK /\ RepoTypeOK /\ Numbered /\ LeaseMeansOpen /\ events \in Seq(Event)
      /\ \A r \in Reader : Delivered(r) /\ Serves(r) /\ Completed(r)
    BY DEF StreamInv, TypeOK, RepoTypeOK
<1>2. CASE Writer \/ Expire
  <2>1. RepoTypeOK' /\ RepoStep
      BY <1>1, <1>2, WriterStep
  <2>2. gen' = gen /\ got' = got /\ done' = done /\ drops' = drops
      BY <1>2 DEF Writer, Expire, readerVars
  <2>3. TypeOK'
      BY <1>1, <2>1, <2>2 DEF TypeOK
  <2>4. Numbered' /\ LeaseMeansOpen'
      BY <1>1, <2>1, NumberedKept, LeaseMeansOpenKept
  <2>5. ASSUME NEW r \in Reader PROVE Delivered(r)' /\ Serves(r)' /\ Completed(r)'
      BY <1>1, <2>1, <2>2, ReaderKept
  <2> QED
      BY <2>3, <2>4, <2>5 DEF StreamInv
<1>3. ASSUME NEW r \in Reader, Stream(r) \/ Drop(r)
      PROVE  StreamInv'
  <2>1. ReaderStep(r)
      BY <1>3, PrepareStep, ValidateStep, EmitStep, EndBatchStep, PollStep, DropStep
      DEF Stream
  <2>2. drops' \in 0..MaxDrops
      BY <1>1, <1>3, RunEventStreamAssumption
      DEF TypeOK, Stream, Drop, Prepare, Validate, Emit, EndBatch, Poll
  <2>3. run' = run /\ events' = events
      BY <2>1 DEF ReaderStep, repoVars
  <2>4. RepoTypeOK' /\ Numbered' /\ LeaseMeansOpen'
      BY <1>1, <2>3 DEF RepoTypeOK, Numbered, LeaseMeansOpen
  <2>5. \A u \in Reader : Len(gen'[u].page.items) <= PageSize
      BY <1>1, <2>1 DEF ReaderStep, TypeOK
  <2>6. TypeOK'
      BY <2>1, <2>2, <2>4, <2>5 DEF TypeOK, ReaderStep
  <2>7. ASSUME NEW u \in Reader PROVE Delivered(u)' /\ Serves(u)' /\ Completed(u)'
    <3>1. CASE u = r
        BY <2>1, <3>1 DEF ReaderStep
    <3>2. CASE u # r
      <4>1. gen'[u] = gen[u] /\ got'[u] = got[u] /\ done'[u] = done[u]
          BY <2>1, <3>2 DEF ReaderStep
      <4> QED
          BY <1>1, <2>3, <4>1 DEF Delivered, Serves, Stands, PageContinues, Completed
    <3> QED
        BY <3>1, <3>2
  <2> QED
      BY <2>4, <2>6, <2>7 DEF StreamInv
<1>4. CASE UNCHANGED vars
    BY <1>1, <1>4 DEF vars, readerVars, StreamInv, TypeOK, RepoTypeOK, Numbered,
        LeaseMeansOpen, Delivered, Serves, Stands, PageContinues, Completed
<1> QED
    BY <1>2, <1>3, <1>4 DEF Next

LEMMA StreamInvSuffices == StreamInv => StreamIsFaithful
<1> SUFFICES ASSUME StreamInv PROVE StreamIsFaithful
    OBVIOUS
<1>1. DeliveredIsPrefix
  <2> SUFFICES ASSUME NEW r \in Reader, NEW i \in 1..Len(got[r])
               PROVE  Len(got[r]) <= Len(events) /\ got[r][i] = CursorOf(events[i])
      BY DEF DeliveredIsPrefix, StreamInv, Delivered
  <2>1. Len(got[r]) <= Len(events) /\ got[r][i] = Here(i)
      BY DEF StreamInv, Delivered
  <2>2. got[r] \in Seq(Cursor) /\ Len(events) \in Nat
      BY DEF StreamInv, TypeOK, RepoTypeOK
  <2>3. i \in 1..Len(events)
      BY <2>1, <2>2
  <2> QED
      BY <2>1, <2>3 DEF StreamInv, Numbered, CursorOf, Here
<1>2. CompleteMeansAll
    BY DEF StreamInv, Completed, CompleteMeansAll
<1>3. NoSpuriousError
    BY DEF StreamInv, Serves, Stands, NoSpuriousError
<1> QED
    BY <1>1, <1>2, <1>3 DEF StreamIsFaithful, StreamInv

\* Whatever the journal, the clients, their page size and their lost
\* connections: a client receives the journal, event by event and none twice; a
\* complete frame means that it holds all of it for good; and no page that is
\* read ends in stream_error (load_event_page and _validate_stream_items accept
\* what the repository writes).
THEOREM StreamIsAlwaysFaithful == Spec => []StreamIsFaithful
<1>1. Init => StreamInv
    BY StreamInvInit
<1>2. StreamInv /\ [Next]_vars => StreamInv'
    BY StreamInvNext
<1>3. StreamInv => StreamIsFaithful
    BY StreamInvSuffices
<1> QED
    BY <1>1, <1>2, <1>3, PTL DEF Spec

-----------------------------------------------------------------------------
(***************************************************************************)
(* The notifications of the composition: a mail goes out twice, an attempt *)
(* is one too many, and a mark is taken away only for a cause the model    *)
(* keeps on record.                                                        *)
(*                                                                         *)
(* A row stays claimable while a worker has it, so none of this follows    *)
(* from its status.  What carries the proof is that a worker alone with a  *)
(* row is where its mails say it is: a mail that went out has either its   *)
(* mark or the worker that is about to set it.                             *)
(***************************************************************************)

\* What the theorems assume of the constants.
MailSetting == MaxAttempts \in Nat \ {0} /\ MaxMailFaults \in Nat

-----------------------------------------------------------------------------
(* The inductive invariant.                                                *)

\* Nobody holds a row that was not tried, or writes to somebody unreachable.
HeldSound ==
    \A w \in Mailer :
        /\ \A n \in mailer[w].batch : attempts[n] > 0 /\ log[n] # "none"
        /\ mailer[w].at \in {"send", "mark"} => mailer[w].note \in reachable

\* Two workers that have a row at one time are on record.
MeetingsKnown ==
    \A w, u \in Mailer : w # u => mailer[w].batch \cap mailer[u].batch \subseteq met

\* w is about to mark n as sent.
Marking(w, n) == mailer[w].at = "mark" /\ mailer[w].note = n

\* A mail that went out is marked, or about to be by the one worker that has it.
MailAccounted ==
    \A n \in Note \ (met \cup blurred) :
        /\ mails[n] <= 1
        /\ mails[n] = 1 => log[n] = "sent" \/ \E w \in Mailer : Marking(w, n)
        /\ \A w \in Mailer :
              n \in mailer[w].batch /\ mails[n] = 1 => Marking(w, n)

\* Nobody has a row that is marked as sent.
SentIsLeft ==
    \A n \in Note, w \in Mailer :
        log[n] = "sent" /\ n \in mailer[w].batch => n \in met \cup blurred

\* A row that is pending and that nobody has was never tried.
AttemptsAccounted ==
    \A n \in Note \ (met \cup unmarked) :
        /\ attempts[n] <= MaxAttempts
        /\ log[n] = "pending" /\ (\A w \in Mailer : n \notin mailer[w].batch)
             => attempts[n] = 0

MailInv ==
    /\ Mail!TypeOK /\ HeldSound /\ MeetingsKnown
    /\ MailAccounted /\ SentIsLeft /\ AttemptsAccounted

-----------------------------------------------------------------------------
(* Helpers.                                                                *)

Held == [at : {"next", "send", "mark", "fail"}, batch : SUBSET Note,
         note : Note \cup {Mail!NoNote}]

\* w is now at a with that note and batch; the others stay.
Moves(w, a, batch, note) ==
    /\ mailer' \in [Mailer -> Held]
    /\ mailer'[w].at = a /\ mailer'[w].batch = batch /\ mailer'[w].note = note
    /\ \A u \in Mailer \ {w} : mailer'[u] = mailer[u]

\* The parts of the type invariant.
LEMMA Shapes ==
    ASSUME MailInv
    PROVE  /\ mailer \in [Mailer -> Held] /\ log \in [Note -> Mail!Status]
           /\ attempts \in [Note -> Nat] /\ mails \in [Note -> Nat]
           /\ \A w \in Mailer :
                 /\ mailer[w].batch \subseteq Note
                 /\ mailer[w].at # "next" =>
                       mailer[w].note \in mailer[w].batch /\ mailer[w].note \in Note
BY DEF MailInv, Mail!TypeOK, Held

-----------------------------------------------------------------------------
(* The steps.                                                              *)

\* An empty notifications_log.
LEMMA InitKeeps ==
    ASSUME MailSetting, Mail!Init
    PROVE  MailInv
<1>1. Mail!TypeOK
  <2>1. mailer \in [Mailer -> [at : {"next", "send", "mark", "fail"},
                              batch : SUBSET Note, note : Note \cup {Mail!NoNote}]]
    BY DEF Mail!Init, Mail!Between
  <2>2. /\ log \in [Note -> Mail!Status]
        /\ attempts \in [Note -> Nat] /\ mails \in [Note -> Nat]
    BY DEF Mail!Init, Mail!Status
  <2> QED BY <2>1, <2>2 DEF Mail!Init, Mail!TypeOK, MailSetting, Mail!Between
<1>2. HeldSound /\ MeetingsKnown /\ SentIsLeft
  BY DEF Mail!Init, HeldSound, MeetingsKnown, SentIsLeft, Mail!Between
<1>3. MailAccounted
  BY DEF Mail!Init, MailAccounted, Mail!Between
<1>4. AttemptsAccounted
  BY DEF Mail!Init, AttemptsAccounted, MailSetting
<1> QED BY <1>1, <1>2, <1>3, <1>4 DEF MailInv

\* insert ... on conflict do nothing: only a row that is not there changes.
LEMMA EnqueueKeeps ==
    ASSUME MailSetting, MailInv, NEW n \in Note, Mail!Enqueue(n)
    PROVE  MailInv'
<1> USE DEF Mail!Enqueue, Mail!rows, Mail!history
<1>1. /\ log' \in [Note -> Mail!Status]
      /\ \A m \in Note : log'[m] = log[m] \/ (log[m] = "none" /\ log'[m] = "pending")
  BY Shapes DEF Mail!Enqueued, Mail!Status
<1>2. Mail!TypeOK'
  BY <1>1 DEF MailInv, Mail!TypeOK
<1>3. HeldSound' /\ MeetingsKnown'
  BY <1>1, Shapes DEF MailInv, HeldSound, MeetingsKnown
<1>4. MailAccounted' /\ SentIsLeft'
  BY <1>1 DEF MailInv, MailAccounted, SentIsLeft, Marking
<1>5. AttemptsAccounted'
  BY <1>1 DEF MailInv, Mail!TypeOK, AttemptsAccounted
<1> QED BY <1>2, <1>3, <1>4, <1>5 DEF MailInv

\* The claim of a batch: whoever claims a clean row is alone with it, it has not
\* been mailed, and the attempt that is counted is within the bound.
LEMMA ClaimKeeps ==
    ASSUME MailSetting, MailInv, NEW w \in Mailer, Mail!Claim(w)
    PROVE  MailInv'
<1> USE DEF Mail!rows, Mail!history
<1>0. PICK batch \in SUBSET Note :
          /\ Mail!Batch(batch)
          /\ attempts' = [n \in Note |->
                IF n \in batch THEN attempts[n] + 1 ELSE attempts[n]]
          /\ mailer' = [mailer EXCEPT ![w].batch = batch]
          /\ met' = met \cup
                (batch \cap UNION {mailer[u].batch : u \in Mailer \ {w}})
  BY DEF Mail!Claim
<1>1. mailer[w] = Mail!Between
      /\ UNCHANGED <<log, reachable, mails, blurred, unmarked, mailFaults>>
  BY DEF Mail!Claim
<1>2. Moves(w, "next", batch, Mail!NoNote)
  BY <1>0, <1>1, Shapes DEF Moves, Mail!Between, Held
<1>3. \A n \in batch : Mail!Claimable(n)
  BY <1>0 DEF Mail!Batch
<1>4. \A n \in Note : n \in met' <=>
          n \in met \/ (n \in batch /\ \E u \in Mailer \ {w} : n \in mailer[u].batch)
  BY <1>0, Shapes
<1>5. /\ attempts' \in [Note -> Nat]
      /\ \A n \in batch : attempts'[n] = attempts[n] + 1
      /\ \A n \in Note \ batch : attempts'[n] = attempts[n]
  BY <1>0, Shapes
<1>6. met' \subseteq Note
  BY <1>4, Shapes, <1>0 DEF MailInv, Mail!TypeOK
<1>7. Mail!TypeOK'
  <2>1. \A u \in Mailer :
           mailer'[u].at # "next" => mailer'[u].note \in mailer'[u].batch
    BY <1>2, Shapes DEF Moves
  <2>2. \A n \in Note :
           /\ log[n] = "none" => attempts'[n] = 0
           /\ mails[n] > 0 => n \in reachable /\ attempts'[n] > 0
    BY <1>3, <1>5, Shapes DEF MailInv, Mail!TypeOK, Mail!Claimable
  <2> QED BY <1>1, <1>2, <1>5, <1>6, <2>1, <2>2 DEF MailInv, Mail!TypeOK, Moves, Held
<1>8. HeldSound'
  BY <1>1, <1>2, <1>3, <1>5, Shapes DEF MailInv, HeldSound, Moves, Mail!Claimable
<1>9. MeetingsKnown'
  BY <1>2, <1>4, <1>0 DEF MailInv, MeetingsKnown, Moves
<1>10. MailAccounted'
  <2> SUFFICES ASSUME NEW n \in Note, n \notin met', n \notin blurred
               PROVE  /\ mails[n] <= 1
                      /\ mails[n] = 1 =>
                             log[n] = "sent" \/ \E u \in Mailer : Marking(u, n)'
                      /\ \A u \in Mailer :
                            n \in mailer'[u].batch /\ mails[n] = 1 => Marking(u, n)'
    BY <1>1 DEF MailAccounted
  <2>1. /\ mails[n] <= 1
        /\ mails[n] = 1 => log[n] = "sent" \/ \E u \in Mailer : Marking(u, n)
        /\ \A u \in Mailer : n \in mailer[u].batch /\ mails[n] = 1 => Marking(u, n)
    BY <1>4 DEF MailInv, MailAccounted
  <2>2. \A u \in Mailer : Marking(u, n) => u # w /\ n \in mailer[u].batch
    BY <1>1, Shapes DEF Marking, Mail!Between
  <2>3. n \in batch => mails[n] # 1
    BY <1>3, <1>4, <2>1, <2>2 DEF Mail!Claimable
  <2> QED BY <1>2, <2>1, <2>2, <2>3 DEF Moves, Marking
<1>11. SentIsLeft'
  BY <1>1, <1>2, <1>3, <1>4 DEF MailInv, SentIsLeft, Moves, Mail!Claimable
<1>12. AttemptsAccounted'
  <2> SUFFICES ASSUME NEW n \in Note, n \notin met', n \notin unmarked
               PROVE  /\ attempts'[n] <= MaxAttempts
                      /\ log[n] = "pending" /\
                            (\A u \in Mailer : n \notin mailer'[u].batch)
                           => attempts'[n] = 0
    BY <1>1 DEF AttemptsAccounted
  <2>1. /\ attempts[n] <= MaxAttempts
        /\ log[n] = "pending" /\ (\A u \in Mailer : n \notin mailer[u].batch)
             => attempts[n] = 0
    BY <1>4 DEF MailInv, AttemptsAccounted
  <2>2. CASE n \in batch
    <3>1. \A u \in Mailer : n \notin mailer[u].batch
      BY <1>1, <1>4, <2>2 DEF Mail!Between
    <3>2. attempts[n] < MaxAttempts
      BY <1>3, <2>1, <2>2, <3>1 DEF Mail!Claimable, MailSetting
    <3> QED BY <1>2, <1>5, <2>2, <3>2, Shapes DEF Moves, MailSetting
  <2>3. CASE n \notin batch
    BY <1>1, <1>2, <1>5, <2>1, <2>3 DEF Moves, Mail!Between
  <2> QED BY <2>2, <2>3
<1> QED BY <1>7, <1>8, <1>9, <1>10, <1>11, <1>12 DEF MailInv

\* What leaving a note means.
LEMMA LeavesMoves ==
    ASSUME MailInv, NEW w \in Mailer, NEW n, Mail!Leaves(w, n)
    PROVE  Moves(w, "next", mailer[w].batch \ {n}, Mail!NoNote)
BY Shapes DEF Mail!Leaves, Moves, Mail!Between, Held

\* A step that changes neither batches nor history of meetings.
LEMMA KeepsMeetings ==
    ASSUME MailInv, NEW w \in Mailer, NEW a, NEW batch, NEW note, Moves(w, a, batch, note),
           batch \subseteq mailer[w].batch, met' = met
    PROVE  MeetingsKnown'
BY DEF MailInv, MeetingsKnown, Moves

\* A row is marked and left: as sent by the worker that mailed it, as skipped or
\* failed by one that did not.
LEMMA MarkKeeps ==
    ASSUME MailSetting, MailInv, NEW w \in Mailer, NEW n \in Note,
           NEW mark \in {"sent", "failed", "skipped"},
           n \in mailer[w].batch, log' = [log EXCEPT ![n] = mark], Mail!Leaves(w, n),
           \/ mark = "sent" /\ Marking(w, n)
           \/ mark # "sent" /\ ~Marking(w, n),
           mailer[w].at # "next" => mailer[w].note = n,
           UNCHANGED <<attempts, reachable, mails, Mail!history, mailFaults>>
    PROVE  MailInv'
<1> USE DEF Mail!rows, Mail!history
<1>1. Moves(w, "next", mailer[w].batch \ {n}, Mail!NoNote)
  BY LeavesMoves
<1>2. /\ log' \in [Note -> Mail!Status] /\ log'[n] = mark
      /\ \A m \in Note \ {n} : log'[m] = log[m]
  BY Shapes DEF Mail!Status
<1>3. Mail!TypeOK'
  <2>1. \A u \in Mailer :
           mailer'[u].at # "next" => mailer'[u].note \in mailer'[u].batch
    BY <1>1, Shapes DEF Moves
  <2>2. \A m \in Note : log'[m] = "none" => attempts[m] = 0
    BY <1>2 DEF MailInv, Mail!TypeOK
  <2> QED BY <1>1, <1>2, <2>1, <2>2 DEF MailInv, Mail!TypeOK, Moves, Held
<1>4. HeldSound'
  BY <1>1, <1>2, Shapes DEF MailInv, HeldSound, Moves
<1>5. MeetingsKnown'
  BY <1>1, KeepsMeetings
<1>6. MailAccounted'
  <2> SUFFICES ASSUME NEW m \in Note, m \notin met, m \notin blurred
               PROVE  /\ mails[m] <= 1
                      /\ mails[m] = 1 =>
                             log'[m] = "sent" \/ \E u \in Mailer : Marking(u, m)'
                      /\ \A u \in Mailer :
                            m \in mailer'[u].batch /\ mails[m] = 1 => Marking(u, m)'
    BY DEF MailAccounted
  <2>1. /\ mails[m] <= 1
        /\ mails[m] = 1 => log[m] = "sent" \/ \E u \in Mailer : Marking(u, m)
        /\ \A u \in Mailer : m \in mailer[u].batch /\ mails[m] = 1 => Marking(u, m)
    BY DEF MailInv, MailAccounted
  <2>2. \A u \in Mailer \ {w} : n \in mailer[u].batch => n \in met
    BY DEF MailInv, MeetingsKnown
  <2>3. CASE m = n
    BY <1>1, <1>2, <2>1, <2>2, <2>3 DEF Moves
  <2>4. CASE m # n
    <3>1. ~Marking(w, m)
      BY <2>4 DEF Marking
    <3> QED BY <1>1, <1>2, <2>1, <2>4, <3>1 DEF Moves, Marking
  <2> QED BY <2>3, <2>4
<1>7. SentIsLeft'
  <2>2. \A u \in Mailer \ {w} : n \in mailer[u].batch => n \in met
    BY DEF MailInv, MeetingsKnown
  <2> QED BY <1>1, <1>2, <2>2 DEF MailInv, SentIsLeft, Moves
<1>8. AttemptsAccounted'
  BY <1>1, <1>2 DEF MailInv, AttemptsAccounted, Moves
<1> QED BY <1>3, <1>4, <1>5, <1>6, <1>7, <1>8 DEF MailInv

\* A recipient without an address, or an event that is gone.
LEMMA SkipKeeps ==
    ASSUME MailSetting, MailInv, NEW w \in Mailer, NEW n \in Note, Mail!Skip(w, n)
    PROVE  MailInv'
BY MarkKeeps DEF Mail!Skip, Marking

\* The mail went out.
LEMMA MarkSentKeeps ==
    ASSUME MailSetting, MailInv, NEW w \in Mailer, Mail!MarkSent(w)
    PROVE  MailInv'
BY MarkKeeps, Shapes DEF Mail!MarkSent, Marking

\* _mark_failed.
LEMMA MarkFailedKeeps ==
    ASSUME MailSetting, MailInv, NEW w \in Mailer, Mail!MarkFailed(w)
    PROVE  MailInv'
BY MarkKeeps, Shapes DEF Mail!MarkFailed, Marking

\* w stays with its batch, and moves to another place of _deliver_one.
LEMMA OnwardKeeps ==
    ASSUME MailSetting, MailInv, NEW w \in Mailer, NEW a \in {"send", "mark", "fail"},
           NEW n \in Note, n \in mailer[w].batch,
           Moves(w, a, mailer[w].batch, n),
           UNCHANGED <<attempts, reachable, met, unmarked>>,
           a \in {"send", "mark"} => n \in reachable,
           log' = log \/ (log' = [log EXCEPT ![n] = "sent"] /\ n \in blurred'),
           blurred \subseteq blurred', blurred' \subseteq Note,
           mailFaults' \in 0..MaxMailFaults,
           mailer[w].at # "next" => mailer[w].note = n,
           \/ mails' = mails
           \/ mails' = [mails EXCEPT ![n] = @ + 1] /\ n \in reachable,
           \/ n \in blurred'
           \/ /\ a = "mark" /\ mailer[w].at = "send"
              /\ mails' = [mails EXCEPT ![n] = @ + 1]
           \/ a # "mark" /\ mailer[w].at # "mark" /\ mails' = mails
    PROVE  MailInv'
<1>1. /\ log' \in [Note -> Mail!Status]
      /\ \A m \in Note \ {n} : log'[m] = log[m]
      /\ log'[n] \in {log[n], "sent"}
      /\ log'[n] # log[n] => n \in blurred'
  BY Shapes DEF Mail!Status
<1>2. /\ mails' \in [Note -> Nat]
      /\ \A m \in Note \ {n} : mails'[m] = mails[m]
      /\ mails'[n] \in {mails[n], mails[n] + 1}
      /\ mails'[n] # mails[n] => n \in reachable
  BY Shapes
<1>3. attempts[n] > 0 /\ log[n] # "none"
  BY DEF MailInv, HeldSound
<1>4. Mail!TypeOK'
  <2>1. \A u \in Mailer :
           mailer'[u].at # "next" => mailer'[u].note \in mailer'[u].batch
    BY Shapes DEF Moves
  <2>2. \A m \in Note :
           /\ log'[m] = "none" => attempts[m] = 0
           /\ mails'[m] > 0 => m \in reachable /\ attempts[m] > 0
    BY <1>1, <1>2, <1>3, Shapes DEF MailInv, Mail!TypeOK
  <2> QED BY <1>1, <1>2, <2>1, <2>2 DEF MailInv, Mail!TypeOK, Moves, Held
<1>5. HeldSound'
  BY <1>1, Shapes DEF MailInv, HeldSound, Moves
<1>6. MeetingsKnown'
  BY KeepsMeetings
<1>7. MailAccounted'
  <2> SUFFICES ASSUME NEW m \in Note, m \notin met, m \notin blurred'
               PROVE  /\ mails'[m] <= 1
                      /\ mails'[m] = 1 =>
                             log'[m] = "sent" \/ \E u \in Mailer : Marking(u, m)'
                      /\ \A u \in Mailer :
                            m \in mailer'[u].batch /\ mails'[m] = 1 => Marking(u, m)'
    BY DEF MailAccounted
  <2>1. /\ mails[m] <= 1
        /\ mails[m] = 1 => log[m] = "sent" \/ \E u \in Mailer : Marking(u, m)
        /\ \A u \in Mailer : m \in mailer[u].batch /\ mails[m] = 1 => Marking(u, m)
    BY DEF MailInv, MailAccounted
  <2>2. \A u \in Mailer \ {w} : n \in mailer[u].batch => n \in met
    BY DEF MailInv, MeetingsKnown
  <2>3. CASE m # n
    <3>1. ~Marking(w, m)
      BY <2>3, Shapes DEF Marking, MailInv, Mail!TypeOK
    <3>2. ~Marking(w, m)'
      BY <2>3 DEF Marking, Moves
    <3>3. \A u \in Mailer : mailer'[u].batch = mailer[u].batch
      BY DEF Moves
    <3> QED BY <1>1, <1>2, <2>1, <2>3, <3>1, <3>2, <3>3 DEF Moves, Marking
  <2>4. CASE m = n
    <3>1. mails[n] # 1 \/ Marking(w, n)
      BY <2>1, <2>4
    <3>2. CASE /\ a = "mark" /\ mailer[w].at = "send"
               /\ mails' = [mails EXCEPT ![n] = @ + 1]
      <4>1. mails[n] = 0 /\ mails'[n] = 1
        BY <2>1, <2>4, <3>1, <3>2, Shapes DEF Marking
      <4>2. Marking(w, n)'
        BY <3>2 DEF Marking, Moves
      <4> QED BY <2>2, <2>4, <4>1, <4>2 DEF Moves
    <3>3. CASE a # "mark" /\ mailer[w].at # "mark" /\ mails' = mails
      BY <2>1, <2>4, <3>1, <3>3 DEF Marking
    <3> QED BY <2>4, <3>2, <3>3
  <2> QED BY <2>3, <2>4
<1>8. SentIsLeft'
  BY <1>1 DEF MailInv, SentIsLeft, Moves
<1>9. AttemptsAccounted'
  BY <1>1 DEF MailInv, AttemptsAccounted, Moves
<1> QED BY <1>4, <1>5, <1>6, <1>7, <1>8, <1>9 DEF MailInv

\* A worker that goes on keeps batch and note.
LEMMA GoesMoves ==
    ASSUME MailInv, NEW w \in Mailer, NEW a \in {"send", "mark", "fail"}, Mail!Goes(w, a)
    PROVE  Moves(w, a, mailer[w].batch, mailer[w].note)
BY Shapes DEF Mail!Goes, Moves, Held

\* Recipient and event are read, or the transaction raises.
LEMMA AddressKeeps ==
    ASSUME MailSetting, MailInv, NEW w \in Mailer, NEW n \in Note,
           Mail!Address(w, n) \/ Mail!AddressRaises(w, n)
    PROVE  MailInv'
<1> USE DEF Mail!rows, Mail!history
<1>1. \E a \in {"send", "fail"} :
         Moves(w, a, mailer[w].batch, n) /\ (a = "send" => n \in reachable)
  BY Shapes DEF Mail!Address, Mail!AddressRaises, Moves, Held
<1>2. mailFaults' \in 0..MaxMailFaults /\ blurred \subseteq Note
  BY DEF Mail!Address, Mail!AddressRaises, MailInv, Mail!TypeOK, MailSetting
<1>3. /\ mailer[w].at = "next" /\ n \in mailer[w].batch
      /\ UNCHANGED <<log, attempts, reachable, mails, met, blurred, unmarked>>
  BY DEF Mail!Address, Mail!AddressRaises
<1> QED BY <1>1, <1>2, <1>3, OnwardKeeps

\* The provider accepts, rejects, or accepts and its answer is lost.
LEMMA SendKeeps ==
    ASSUME MailSetting, MailInv, NEW w \in Mailer,
           Mail!Accept(w) \/ Mail!Reject(w) \/ Mail!LoseAnswer(w)
    PROVE  MailInv'
<1> DEFINE n == mailer[w].note
<1> USE DEF Mail!rows, Mail!history
<1>0. mailer[w].at = "send"
  BY DEF Mail!Accept, Mail!Reject, Mail!LoseAnswer
<1>1. n \in Note /\ n \in mailer[w].batch /\ n \in reachable
  BY <1>0, Shapes DEF MailInv, HeldSound
<1>2. mailFaults' \in 0..MaxMailFaults /\ blurred \subseteq Note
  BY DEF Mail!Accept, Mail!Reject, Mail!LoseAnswer, MailInv, Mail!TypeOK, MailSetting
<1>3. CASE Mail!Accept(w)
  <2>1. Moves(w, "mark", mailer[w].batch, n)
    BY <1>3, GoesMoves DEF Mail!Accept
  <2> QED BY <1>0, <1>1, <1>2, <1>3, <2>1, OnwardKeeps DEF Mail!Accept
<1>4. CASE Mail!Reject(w)
  <2>1. Moves(w, "fail", mailer[w].batch, n)
    BY <1>4, GoesMoves DEF Mail!Reject
  <2> QED BY <1>0, <1>1, <1>2, <1>4, <2>1, OnwardKeeps DEF Mail!Reject
<1>5. CASE Mail!LoseAnswer(w)
  <2>1. Moves(w, "fail", mailer[w].batch, n)
    BY <1>5, GoesMoves DEF Mail!LoseAnswer
  <2> QED BY <1>0, <1>1, <1>2, <1>5, <2>1, OnwardKeeps DEF Mail!LoseAnswer
<1> QED BY <1>3, <1>4, <1>5

\* The transaction that marks the row raises: whatever it left, this is on record.
LEMMA MarkSentRaisesKeeps ==
    ASSUME MailSetting, MailInv, NEW w \in Mailer, Mail!MarkSentRaises(w)
    PROVE  MailInv'
<1> DEFINE n == mailer[w].note
<1> USE DEF Mail!rows, Mail!history, Mail!MarkSentRaises
<1>1. n \in Note /\ n \in mailer[w].batch
  BY Shapes
<1>2. mailFaults' \in 0..MaxMailFaults /\ blurred \subseteq Note
  BY DEF MailInv, Mail!TypeOK, MailSetting
<1>3. Moves(w, "fail", mailer[w].batch, n)
  BY GoesMoves
<1>4. log' = log \/ log' = [log EXCEPT ![n] = "sent"]
  BY <1>1, Shapes
<1> QED BY <1>1, <1>2, <1>3, <1>4, OnwardKeeps

\* A worker gives up rows without a mark: one whose mark raised, or its batch.
LEMMA AbandonKeeps ==
    ASSUME MailSetting, MailInv, NEW w \in Mailer, Mail!MarkFailedRaises(w) \/ Mail!Crash(w)
    PROVE  MailInv'
<1> USE DEF Mail!rows, Mail!history
<1>1. PICK lost \in SUBSET mailer[w].batch :
         /\ Moves(w, "next", mailer[w].batch \ lost, Mail!NoNote)
         /\ unmarked' = unmarked \cup lost
         /\ \A n \in Note : Marking(w, n) => n \in blurred'
         /\ blurred \subseteq blurred' /\ blurred' \subseteq Note
  <2>1. CASE Mail!MarkFailedRaises(w)
    <3>1. Moves(w, "next", mailer[w].batch \ {mailer[w].note}, Mail!NoNote)
      BY <2>1, LeavesMoves DEF Mail!MarkFailedRaises
    <3> QED BY <2>1, <3>1, Shapes DEF Mail!MarkFailedRaises, Marking, MailInv, Mail!TypeOK
  <2>2. CASE Mail!Crash(w)
    <3>1. Moves(w, "next", mailer[w].batch \ mailer[w].batch, Mail!NoNote)
      BY <2>2, Shapes DEF Mail!Crash, Moves, Mail!Between, Held
    <3>2. \A n \in Note : Marking(w, n) => n \in blurred'
      BY <2>2 DEF Mail!Crash, Marking
    <3>3. blurred \subseteq blurred' /\ blurred' \subseteq Note
      <4>1. mailer[w].at = "mark" => mailer[w].note \in Note
        BY Shapes
      <4>2. blurred \subseteq Note
        BY DEF MailInv, Mail!TypeOK
      <4> QED BY <2>2, <4>1, <4>2 DEF Mail!Crash
    <3> QED BY <2>2, <3>1, <3>2, <3>3 DEF Mail!Crash
  <2> QED BY <2>1, <2>2
<1>2. /\ mailFaults' \in 0..MaxMailFaults
      /\ UNCHANGED <<log, attempts, reachable, mails, met>>
  BY DEF Mail!MarkFailedRaises, Mail!Crash, MailInv, Mail!TypeOK, MailSetting
<1>3. Mail!TypeOK'
  <2>1. \A u \in Mailer :
           mailer'[u].at # "next" => mailer'[u].note \in mailer'[u].batch
    BY <1>1, Shapes DEF Moves
  <2> QED BY <1>1, <1>2, <2>1, Shapes DEF MailInv, Mail!TypeOK, Moves, Held
<1>4. HeldSound'
  BY <1>1, <1>2, Shapes DEF MailInv, HeldSound, Moves
<1>5. MeetingsKnown'
  BY <1>1, <1>2, KeepsMeetings
<1>6. MailAccounted'
  BY <1>1, <1>2 DEF MailInv, MailAccounted, Moves, Marking
<1>7. SentIsLeft'
  BY <1>1, <1>2 DEF MailInv, SentIsLeft, Moves
<1>8. AttemptsAccounted'
  BY <1>1, <1>2 DEF MailInv, AttemptsAccounted, Moves
<1> QED BY <1>3, <1>4, <1>5, <1>6, <1>7, <1>8 DEF MailInv

\* Every step keeps the invariant.
LEMMA StepKeeps ==
    ASSUME MailSetting, MailInv, [Mail!Next]_(Mail!vars)
    PROVE  MailInv'
<1>1. CASE \E n \in Note : Mail!Enqueue(n)
  BY <1>1, EnqueueKeeps
<1>2. ASSUME NEW w \in Mailer, Mail!Deliver(w) PROVE MailInv'
  BY <1>2, SkipKeeps, AddressKeeps, SendKeeps, MarkSentKeeps, MarkFailedKeeps DEF Mail!Deliver
<1>3. ASSUME NEW w \in Mailer, Mail!Fail(w) PROVE MailInv'
  BY <1>3, SendKeeps, MarkSentRaisesKeeps, AddressKeeps, AbandonKeeps DEF Mail!Fail
<1>4. CASE UNCHANGED Mail!vars
  BY <1>4 DEF Mail!vars, Mail!rows, Mail!history, MailInv, Mail!TypeOK, HeldSound, MeetingsKnown,
         MailAccounted, SentIsLeft, AttemptsAccounted, Marking
<1> QED BY <1>1, <1>2, <1>3, <1>4, ClaimKeeps DEF Mail!Next

\* The inductive invariant holds of the queue and its workers
\* (notifications/delivery.py).
THEOREM MailInvHolds ==
    ASSUME MailSetting
    PROVE  Mail!Spec => []MailInv
<1>1. Mail!Init => MailInv
  BY InitKeeps
<1>2. MailInv /\ [Mail!Next]_(Mail!vars) => MailInv'
  BY StepKeeps
<1> QED BY <1>1, <1>2, PTL DEF Mail!Spec

\* A mail goes out twice only where two workers had its row together or the record of
\* a mail was lost, and a row is tried more than MAX_ATTEMPTS times only where two had
\* it or an attempt ended without a mark (the claim of process_pending_notifications).
THEOREM MailStaysBounded ==
    ASSUME MailSetting
    PROVE  Mail!Spec => []Mail!MailIsBounded
<1>1. MailInv => Mail!MailIsBounded
  <2> SUFFICES ASSUME MailInv, NEW n \in Note
               PROVE  /\ mails[n] > 1 => n \in met \cup blurred
                      /\ attempts[n] > MaxAttempts => n \in met \cup unmarked
    BY DEF MailInv, Mail!MailIsBounded, Mail!MailedOnce, Mail!AttemptsBounded
  <2> QED BY Shapes DEF MailInv, MailAccounted, AttemptsAccounted, MailSetting
<1> QED BY <1>1, MailInvHolds, PTL

\* Whoever writes over a mark has the row in its batch.
LEMMA OnlyACauseUnmarks ==
    ASSUME MailSetting, MailInv, [Mail!Next]_(Mail!vars), NEW n \in Note,
           log[n] = "sent", log'[n] # "sent"
    PROVE  n \in met \cup blurred
<1>1. \E w \in Mailer : n \in mailer[w].batch
  <2>1. CASE \E w \in Mailer, m \in Note : Mail!Skip(w, m)
    BY <2>1, Shapes DEF Mail!Skip
  <2>2. CASE \E w \in Mailer : Mail!MarkFailed(w)
    BY <2>2, Shapes DEF Mail!MarkFailed
  <2>3. CASE \E m \in Note : Mail!Enqueue(m)
    BY <2>3, Shapes DEF Mail!Enqueue, Mail!Enqueued
  <2>4. CASE \E w \in Mailer : Mail!MarkSent(w) \/ Mail!MarkSentRaises(w)
    BY <2>4, Shapes DEF Mail!MarkSent, Mail!MarkSentRaises
  <2>5. CASE UNCHANGED log
    BY <2>5
  <2>6. \/ \E w \in Mailer, m \in Note : Mail!Skip(w, m)
        \/ \E w \in Mailer : Mail!MarkFailed(w) \/ Mail!MarkSent(w) \/ Mail!MarkSentRaises(w)
        \/ \E m \in Note : Mail!Enqueue(m)
        \/ UNCHANGED log
    BY DEF Mail!Next, Mail!vars, Mail!rows, Mail!Claim, Mail!Deliver, Mail!Fail, Mail!Address,
           Mail!Accept, Mail!Reject, Mail!LoseAnswer,
           Mail!AddressRaises, Mail!MarkFailedRaises, Mail!Crash
  <2> QED BY <2>1, <2>2, <2>3, <2>4, <2>5, <2>6
<1> QED BY <1>1 DEF MailInv, SentIsLeft

\* A row that is marked as sent stays so, unless two workers had it or the record of
\* its mail was lost: _mark_failed, which writes whatever the row says, does not take
\* the mark away otherwise.
THEOREM SentStays ==
    ASSUME MailSetting
    PROVE  Mail!Spec => Mail!SentIsFinal
<1>1. MailInv /\ [Mail!Next]_(Mail!vars) =>
         [\A n \in Note : log[n] = "sent" /\ log'[n] # "sent"
                            => n \in met \cup blurred]_(Mail!vars)
  BY OnlyACauseUnmarks
<1> QED BY <1>1, MailInvHolds, PTL DEF Mail!Spec, Mail!SentIsFinal

-----------------------------------------------------------------------------
(* The composition.                                                        *)

Step == Executes \/ Streams \/ Indexes \/ Mails
everything == <<which, execution, vars, queue, mail>>

\* The notifications of the composition are those of NotificationDelivery.
LEMMA MailIsNotificationDelivery == ProgressSpec => Mail!Spec
<1>1. ProgressInit => Mail!Init
    BY DEF ProgressInit
<1>2. [Step]_everything => [Mail!Next]_(Mail!vars)
    BY DEF Step, everything, Executes, Streams, Indexes, Mails, mail,
           Mail!vars, Mail!rows, Mail!history
<1> QED
    BY <1>1, <1>2, PTL DEF ProgressSpec, Mail!Spec, Step, everything

\* A mail goes out twice only after two workers had its row together or its
\* record was lost, and more than the allowed attempts need such an overlap or
\* an attempt without a mark (notifications/delivery.py), for any number of
\* workers and notes.
THEOREM MailsAreBounded ==
    ASSUME MailSetting
    PROVE  ProgressSpec => []MailIsBounded
BY MailStaysBounded, MailIsNotificationDelivery, PTL DEF MailIsBounded

\* A row that was sent stays so, with the same exceptions: no retry and no late
\* failure takes the mark away.
THEOREM SentForGood ==
    ASSUME MailSetting
    PROVE  ProgressSpec => SentIsFinal
BY SentStays, MailIsNotificationDelivery, PTL DEF SentIsFinal
=============================================================================
