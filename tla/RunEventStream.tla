--------------------------- MODULE RunEventStream ---------------------------
(***************************************************************************)
(* The event stream of a durable run (ask/orchestration/streaming.py over  *)
(* load_event_page of durability.py): clients follow the journal over SSE  *)
(* while any client of the repository writes it.  A client that loses its  *)
(* connection comes back with the identifier of the last frame it received *)
(* (Last-Event-ID).                                                        *)
(*                                                                         *)
(* A generator's pc: off; ready (a batch is in hand, at the top of the     *)
(* loop of frames); emit (yielding the batch); poll (before read_batch);   *)
(* error (a stream_error frame was the last one).                          *)
(***************************************************************************)
EXTENDS DurableRun

CONSTANTS
    Reader,      \* clients of the stream
    PageSize,    \* limit of read_batch
    MaxEvents,   \* bound: events in the journal
    MaxDrops     \* bound: lost connections and storage failures

ASSUME RunEventStreamAssumption ==
    /\ PageSize \in Nat \ {0}
    /\ MaxEvents \in Nat
    /\ MaxDrops \in Nat

VARIABLES
    gen,     \* gen[r]: the generator `frames' that serves client r
    got,     \* got[r]: the cursors of the event frames client r received
    done,    \* done[r]: the status in the complete frame, or "open"
    drops

readerVars == <<gen, got, done, drops>>
vars == <<run, events, readerVars>>

-----------------------------------------------------------------------------
(* DurableRunEventCursor.  validate_position ties sequence to version.     *)

CursorOf(e) == [id |-> e.id, version |-> e.version]
NoCursor == [id |-> NoId, version |-> 0]
Cursor == [id : Nat, version : Nat]

NoPage == [items |-> <<>>, more |-> FALSE, status |-> "pending"]
Page == [items : Seq(Event), more : BOOLEAN, status : RunStatus]

Generator ==
    [pc       : {"off", "ready", "emit", "poll", "error"},
     cursor   : Cursor,
     expected : Nat,         \* expected_sequence
     page     : Page,        \* batch; its items not yet yielded
     seen     : SUBSET Id]   \* seen_event_ids

Off == [pc |-> "off", cursor |-> NoCursor, expected |-> 0, page |-> NoPage,
        seen |-> {}]

TypeOK ==
    /\ RepoTypeOK
    /\ gen \in [Reader -> Generator]
    /\ \A r \in Reader : Len(gen[r].page.items) <= PageSize
    /\ got \in [Reader -> Seq(Cursor)]
    /\ done \in [Reader -> {"open"} \cup TerminalStatus]
    /\ drops \in 0..MaxDrops

Init ==
    /\ RepoInit
    /\ gen = [r \in Reader |-> Off]
    /\ got = [r \in Reader |-> <<>>]
    /\ done = [r \in Reader |-> "open"]
    /\ drops = 0

-----------------------------------------------------------------------------
(* load_event_page and the status of the run, in one REPEATABLE READ       *)
(* transaction.                                                            *)

Smaller(m, n) == IF m <= n THEN m ELSE n

\* The anchor row of a cursor is in the journal, unchanged.
AnchorMatches(cursor) ==
    \/ cursor = NoCursor
    \/ \E i \in 1..Len(events) : CursorOf(events[i]) = cursor

\* The rows after the cursor, up to `limit' of them.
RowsAfter(cursor, limit) ==
    SubSeq(events, cursor.version + 1, Smaller(cursor.version + limit, run.next))

\* load_event_page does not raise
PageReadable(cursor) ==
    /\ AnchorMatches(cursor)
    /\ cursor.version <= run.next
    /\ run.next = run.version
    /\ LET rows == RowsAfter(cursor, PageSize + 1) IN
       /\ Len(rows) = Smaller(run.next - cursor.version, PageSize + 1)
       /\ ContiguousBatch(rows, cursor.version)

\* read_batch
Batch(cursor) ==
    LET items == RowsAfter(cursor, PageSize) IN
    [items |-> items,
     more |-> run.next - cursor.version > Len(items),
     status |-> run.status]

\* Variant: a client that comes back is served from the start.
FromStart(r) == NoCursor

\* Last-Event-ID of a client
LastCursor(r) == IF got[r] = <<>> THEN NoCursor ELSE got[r][Len(got[r])]

Serve(r, generator) == gen' = [gen EXCEPT ![r] = generator]

\* prepare, and the start of frames.  A page that cannot be read is an HTTP
\* error: there is no stream.
Prepare(r) ==
    /\ gen[r].pc \in {"off", "error"}
    /\ done[r] = "open"
    /\ LET cursor == LastCursor(r) IN
       /\ PageReadable(cursor)
       /\ Serve(r, [pc |-> "ready", cursor |-> cursor, expected |-> cursor.version,
                    page |-> Batch(cursor), seen |-> {}])
    /\ UNCHANGED <<repoVars, got, done, drops>>

\* _validate_stream_items
ValidItems(g) ==
    /\ \A i \in 1..Len(g.page.items) :
          /\ g.page.items[i].sequence = g.expected + i - 1
          /\ g.page.items[i].version = g.page.items[i].sequence + 1
          /\ g.page.items[i].id \notin g.seen
    /\ \A i, j \in 1..Len(g.page.items) :
          g.page.items[i].id = g.page.items[j].id => i = j

Validate(r) ==
    /\ gen[r].pc = "ready"
    /\ LET g == gen[r]
           items == g.page.items
       IN IF ValidItems(g)
          THEN Serve(r, [g EXCEPT !.pc = "emit",
                  !.seen = @ \cup {items[i].id : i \in 1..Len(items)},
                  !.expected = @ + Len(items)])
          ELSE Serve(r, [Off EXCEPT !.pc = "error"])
    /\ UNCHANGED <<repoVars, got, done, drops>>

\* One event frame reaches the client.
Emit(r) ==
    /\ gen[r].pc = "emit"
    /\ gen[r].page.items # <<>>
    /\ LET cursor == CursorOf(Head(gen[r].page.items)) IN
       /\ got' = [got EXCEPT ![r] = Append(got[r], cursor)]
       /\ Serve(r, [gen[r] EXCEPT !.cursor = cursor,
                                  !.page.items = Tail(gen[r].page.items)])
    /\ UNCHANGED <<repoVars, done, drops>>

\* Variant: only a connection that yielded an event is completed.
EndBatchAfterEvents(r) ==
    /\ gen[r].pc = "emit"
    /\ gen[r].page.items = <<>>
    /\ IF /\ IsTerminal(gen[r].page.status) /\ ~gen[r].page.more
          /\ gen[r].seen # {}
       THEN /\ done' = [done EXCEPT ![r] = gen[r].page.status]
            /\ Serve(r, Off)
       ELSE /\ Serve(r, [gen[r] EXCEPT !.pc = "poll", !.page = NoPage])
            /\ UNCHANGED done
    /\ UNCHANGED <<repoVars, got, drops>>

\* The batch is yielded: the complete frame, or another read.
EndBatch(r) ==
    /\ gen[r].pc = "emit"
    /\ gen[r].page.items = <<>>
    /\ IF IsTerminal(gen[r].page.status) /\ ~gen[r].page.more
       THEN /\ done' = [done EXCEPT ![r] = gen[r].page.status]
            /\ Serve(r, Off)
       ELSE /\ Serve(r, [gen[r] EXCEPT !.pc = "poll", !.page = NoPage])
            /\ UNCHANGED done
    /\ UNCHANGED <<repoVars, got, drops>>

Poll(r) ==
    /\ gen[r].pc = "poll"
    /\ IF PageReadable(gen[r].cursor)
       THEN Serve(r, [gen[r] EXCEPT !.pc = "ready", !.page = Batch(gen[r].cursor)])
       ELSE Serve(r, [Off EXCEPT !.pc = "error"])
    /\ UNCHANGED <<repoVars, got, done, drops>>

\* The connection is lost, with every frame the client has not received; or
\* storage fails and a stream_error frame ends the stream.
Drop(r) ==
    /\ gen[r].pc \in {"ready", "emit", "poll"}
    /\ drops < MaxDrops
    /\ drops' = drops + 1
    /\ Serve(r, Off)
    /\ UNCHANGED <<repoVars, got, done>>

-----------------------------------------------------------------------------
(* A client of the repository.  It uses a new identifier for every call,   *)
(* since a used one writes nothing, and the current version, since another *)
(* is refused; it cancels the state it read at that version.               *)

FreshId == run.version + 1

Write ==
    \/ AcquireLease(FreshId, FreshId, 0)
    \/ RequestCancellation(FreshId)
    \/ /\ run.lease # NoId
       /\ \/ RenewLease(run.lease, FreshId, run.version, 0)
          \/ ReleaseLease(run.lease, FreshId, run.version)
          \/ \E s \in State :
                AppendStateTransition(run.lease, FreshId, run.version, 0, s)
    \/ /\ run.lease # NoId /\ run.cancel # NoId
       /\ ApplyCancellation(run.lease, run.cancel, FreshId, run.version, 0,
                            run.state)

Writer ==
    /\ Write /\ Len(events) < MaxEvents
    /\ UNCHANGED readerVars

Expire == Tick /\ UNCHANGED readerVars

Stream(r) == Prepare(r) \/ Validate(r) \/ Emit(r) \/ EndBatch(r) \/ Poll(r)

Next ==
    \/ Writer
    \/ Expire
    \/ \E r \in Reader : Stream(r) \/ Drop(r)

Spec == Init /\ [][Next]_vars

\* A generator with a connection keeps running, and EventSource reconnects.
FairSpec == Spec /\ \A r \in Reader : WF_vars(Stream(r))

-----------------------------------------------------------------------------
\* Over any number of connections, a client receives exactly a prefix of the
\* journal: no event twice, none skipped, none out of order.
DeliveredIsPrefix ==
    \A r \in Reader :
        /\ Len(got[r]) <= Len(events)
        /\ \A i \in 1..Len(got[r]) : got[r][i] = CursorOf(events[i])

\* A complete frame is the truth for good: the client holds the whole journal,
\* its status is the run's, and no event will ever follow it.
CompleteMeansAll ==
    \A r \in Reader :
        done[r] # "open" => done[r] = run.status /\ Len(got[r]) = Len(events)

\* While storage answers, no stream ends with stream_error: every page that is
\* read passes the checks of load_event_page and of _validate_stream_items,
\* however the journal grew between two reads.
NoSpuriousError ==
    \A r \in Reader : gen[r].pc # "error"

\* What the stream promises at any time.
StreamIsFaithful == TypeOK /\ DeliveredIsPrefix /\ CompleteMeansAll /\ NoSpuriousError

\* Once the run is over, every client gets its complete frame, also one whose
\* connection broke after the last event and before that frame.
EveryReaderCompletes ==
    \A r \in Reader : IsTerminal(run.status) ~> done[r] # "open"
=============================================================================
