---------------------------- MODULE ResearchTurns ----------------------------
(***************************************************************************)
(* The turns of a research session as a browser shows them                 *)
(* (web/lib/ask-ai-reconciliation.ts, web/lib/ask-ai-data.tsx).  A         *)
(* question is shown at once from a record under its idempotency key,      *)
(* saved by the server, and handed over to the pages that the browser has  *)
(* cached, one infinite query for each page size.  Reads of pages, answers *)
(* of the server, failures and actions on the session arrive in any order. *)
(* The query library, the server and the caller of the reconciler are      *)
(* external: a fetch keeps its own result until it settles and then        *)
(* replaces what is cached, and an invalidation reads again every query    *)
(* below its key that is on the screen.  Turns are named by their keys.    *)
(***************************************************************************)
EXTENDS Naturals, Sequences, FiniteSets, SequencesExt

CONSTANTS
    Turn,       \* questions of this browser, by idempotency key
    Foreign,    \* questions of another one in the same session
    Limit,      \* page sizes in which turns are read
    MaxExtras   \* bound: questions sent again, reads after the first of a
                \* query and actions on the session

VARIABLES
    server,   \* the saved turns, in the order in which the server lists them
    call,     \* the request of each question: none, sent, answered
    after,    \* the turns that were saved when that request was sent
    records,  \* the reconciliation records, or none
    relist,   \* whether the query of the records is read
    invalid,  \* whether it was invalidated off the screen
    cache,    \* the pages of each page size
    fetch,    \* the read of each page size that is under way
    mounted,  \* the page sizes on the screen
    asked,    \* history: the questions asked while their records were there
    extras    \* how many of the bounded steps were taken

vars == <<server, call, after, records, relist, invalid, cache, fetch, mounted, asked,
          extras>>

NoRecords == [none |-> TRUE]
NoData == [pages |-> <<>>, more |-> TRUE]
NoFetch == [want |-> 0, pages |-> <<>>, more |-> TRUE, asof |-> {}]

Saving == [state |-> "saving", resolved |-> FALSE]
Unsynced == [state |-> "unsynced", resolved |-> FALSE]
Synced(resolved) == [state |-> "synced", resolved |-> resolved]

Init ==
    /\ server = <<>>
    /\ call = [k \in Turn |-> "none"] /\ after = [k \in Turn |-> {}]
    /\ records = NoRecords /\ relist = FALSE /\ invalid = FALSE
    /\ cache = [l \in Limit |-> NoData] /\ fetch = [l \in Limit |-> NoFetch]
    /\ mounted = {} /\ asked = {}
    /\ extras = 0

-----------------------------------------------------------------------------
(* Records.  Every operation reads and writes the cache in one go.         *)

Recorded == IF records = NoRecords THEN {} ELSE DOMAIN records
With(k, record) ==
    [x \in Recorded \cup {k} |-> IF x = k THEN record ELSE records[x]]

Items(data) == UNION {ToSet(data.pages[n]) : n \in DOMAIN data.pages}
Holds(data, k) == k \in Items(data)
Complete(data) == data.pages # <<>> /\ ~data.more
HasQuery(l) == cache[l] # NoData \/ fetch[l] # NoFetch

\* The question is sent, or once more beside the call that is under way.
Send(k) ==
    /\ call' = [call EXCEPT ![k] = "sent"]
    /\ after' = [after EXCEPT ![k] = IF call[k] = "sent" THEN @ ELSE ToSet(server)]

\* begin: a turn that a page already holds is not pending.  The question is
\* sent while its record is saving.
Begin(k) ==
    /\ k \notin Recorded
    /\ LET record == IF \E l \in Limit : Holds(cache[l], k) THEN Synced(FALSE) ELSE Saving IN
       /\ records' = With(k, record)
       /\ IF record = Saving THEN Send(k) ELSE UNCHANGED <<call, after>>
    /\ asked' = IF relist THEN asked ELSE asked \cup {k}
    /\ UNCHANGED <<server, relist, invalid, cache, fetch, mounted, extras>>

\* retry: a synced record stays as it is
Retry(k) ==
    /\ k \in Recorded /\ records[k].state # "synced"
    /\ extras < MaxExtras
    /\ records' = With(k, Saving)
    /\ Send(k)
    /\ extras' = extras + 1
    /\ UNCHANGED <<server, relist, invalid, cache, fetch, mounted, asked>>

\* markUnsynced, when the call failed or took too long; it may still be saved.
\* It refuses a record that is synced or gone.
MarkUnsynced(k) ==
    /\ k \in Recorded /\ records[k] = Saving
    /\ records' = With(k, Unsynced)
    /\ UNCHANGED <<server, call, after, relist, invalid, cache, fetch, mounted, asked,
                   extras>>

\* upsertPersistedTurn: replaced where it is, appended where the pages are all
\* there.  A query without data gets the turn as its only page.
Retained(l, k) == cache[l].pages = <<>> \/ Holds(cache[l], k) \/ Complete(cache[l])
Upserted(l, k) ==
    LET data == cache[l]  n == Len(data.pages) IN
    IF data.pages = <<>> THEN [pages |-> <<<<k>>>>, more |-> FALSE]
    ELSE IF Holds(data, k) \/ ~Complete(data) THEN data
    ELSE [data EXCEPT !.pages[n] = Append(@, k)]

\* updatePersistedTurnCaches: all cached page sizes, or else the default one
Targets ==
    LET cached == {l \in Limit : HasQuery(l)} IN
    IF cached # {} THEN cached ELSE {CHOOSE l \in Limit : \A m \in Limit : m <= l}

\* Variant: a turn is never kept beside the pages.
ResolvedNever(k) == FALSE

\* A turn that some of them cannot hold yet stays an overlay.
Resolved(k) == \E l \in Targets : ~Retained(l, k)

\* reconcile, with the saved turn: its record, in whatever state, is synced.
\* The same result may be delivered again.
Reconcile(k) ==
    /\ call[k] = "answered"
    /\ \E next \in {"answered", "none"} : call' = [call EXCEPT ![k] = next]
    /\ IF k \in Recorded
       THEN /\ cache' = [l \in Limit |-> IF l \in Targets THEN Upserted(l, k) ELSE cache[l]]
            /\ records' = With(k, Synced(Resolved(k)))
       ELSE UNCHANGED <<cache, records>>
    /\ UNCHANGED <<server, after, relist, invalid, fetch, mounted, asked, extras>>

-----------------------------------------------------------------------------
(* The server.                                                             *)

\* list_owned lists turns by created_at, the time at which the transaction of a
\* turn began (persist_turn_placeholder may wait in it for the lock of the session),
\* and then by id.  So a turn is placed anywhere behind those that were saved
\* before it was sent, also before turns that a browser has read already.
Places(k, before) ==
    {InsertAt(server, i, k) : i \in
        {i \in 1..(Len(server) + 1) : \A j \in DOMAIN server : server[j] \in before => j < i}}

\* A question is saved once, however often it is sent; or its call is lost.
Save(k) ==
    /\ call[k] = "sent"
    /\ \/ /\ server' \in IF k \in ToSet(server) THEN {server} ELSE Places(k, after[k])
          /\ call' = [call EXCEPT ![k] = "answered"]
       \/ call' = [call EXCEPT ![k] = "none"] /\ UNCHANGED server
    /\ after' = [after EXCEPT ![k] = {}]
    /\ UNCHANGED <<records, relist, invalid, cache, fetch, mounted, asked, extras>>

LoseAnswer(k) ==
    /\ call[k] = "answered"
    /\ call' = [call EXCEPT ![k] = "none"]
    /\ UNCHANGED <<server, after, records, relist, invalid, cache, fetch, mounted, asked,
                   extras>>

SaveForeign(k) ==
    /\ k \notin ToSet(server)
    /\ server' \in Places(k, {})
    /\ UNCHANGED <<call, after, records, relist, invalid, cache, fetch, mounted, asked,
                   extras>>

-----------------------------------------------------------------------------
(* Reads of pages.                                                         *)

\* A read of n pages after those given.  It is as of the answer to its first page.
Reading(pages, n) ==
    [want |-> Len(pages) + n, pages |-> pages, more |-> TRUE,
     asof |-> Items([pages |-> pages])]
FromStart(l) == Reading(<<>>, IF cache[l].pages = <<>> THEN 1 ELSE Len(cache[l].pages))

\* A list is shown: without data it is read, and when its data are stale; the
\* records are read when there are none or they were invalidated meanwhile.
Mount(l) ==
    /\ l \notin mounted
    /\ mounted' = mounted \cup {l}
    /\ \E stale \in {FALSE, extras < MaxExtras} :
          /\ fetch' = [fetch EXCEPT ![l] =
                IF @ = NoFetch /\ (stale \/ cache[l] = NoData) THEN FromStart(l) ELSE @]
          /\ extras' = IF stale THEN extras + 1 ELSE extras
    /\ relist' = (relist \/ records = NoRecords \/ invalid)
    /\ invalid' = FALSE
    /\ UNCHANGED <<server, call, after, records, cache, asked>>

Unmount(l) ==
    /\ l \in mounted
    /\ mounted' = mounted \ {l}
    /\ UNCHANGED <<server, call, after, records, relist, invalid, cache, fetch, asked,
                   extras>>

\* The next page, after the pages that are cached as it begins.
FetchNext(l) ==
    /\ l \in mounted /\ fetch[l] = NoFetch /\ extras < MaxExtras
    /\ cache[l].pages # <<>> /\ cache[l].more
    /\ fetch' = [fetch EXCEPT ![l] = Reading(cache[l].pages, 1)]
    /\ extras' = extras + 1
    /\ UNCHANGED <<server, call, after, records, relist, invalid, cache, mounted, asked>>

\* The server answers with the page behind the last turn of the one before.
ReadPage(l) ==
    LET f == fetch[l]
        from == IF f.pages = <<>> THEN 0
                ELSE CHOOSE i \in DOMAIN server : server[i] = Last(Last(f.pages))
        rest == SubSeq(server, from + 1, Len(server))
        size == IF Len(rest) > l THEN l ELSE Len(rest)
    IN
    /\ Len(f.pages) < f.want /\ f.more
    /\ fetch' = [fetch EXCEPT ![l] =
          [f EXCEPT !.pages = Append(@, SubSeq(rest, 1, size)), !.more = Len(rest) > l,
                    !.asof = IF f.pages = <<>> THEN ToSet(server) ELSE @]]
    /\ UNCHANGED <<server, call, after, records, relist, invalid, cache, mounted, asked,
                   extras>>

\* The read is over: what it found replaces what is cached.
Settle(l) ==
    /\ fetch[l] # NoFetch
    /\ Len(fetch[l].pages) = fetch[l].want \/ ~fetch[l].more
    /\ cache' = [cache EXCEPT ![l] = [pages |-> fetch[l].pages, more |-> fetch[l].more]]
    /\ fetch' = [fetch EXCEPT ![l] = NoFetch]
    /\ UNCHANGED <<server, call, after, records, relist, invalid, mounted, asked, extras>>

\* The query of the records reads an empty list.
Relist ==
    /\ relist
    /\ relist' = FALSE
    /\ records' = <<>>
    /\ UNCHANGED <<server, call, after, invalid, cache, fetch, mounted, asked, extras>>

\* A rename, pin, archive, restore or duplicate succeeded: every query below
\* the sessions of the owner is invalid, and a read with data begins anew.
SessionAction ==
    /\ extras < MaxExtras
    /\ extras' = extras + 1
    /\ fetch' = [l \in Limit |->
          IF l \notin mounted THEN fetch[l]
          ELSE IF cache[l] # NoData \/ fetch[l] = NoFetch THEN FromStart(l) ELSE fetch[l]]
    /\ relist' = (relist \/ mounted # {})
    /\ invalid' = (invalid \/ (mounted = {} /\ records # NoRecords))
    /\ UNCHANGED <<server, call, after, records, cache, mounted, asked>>

Next ==
    \/ Relist \/ SessionAction
    \/ \E k \in Turn : \/ Begin(k) \/ Retry(k) \/ MarkUnsynced(k) \/ Reconcile(k)
                       \/ Save(k) \/ LoseAnswer(k)
    \/ \E k \in Foreign : SaveForeign(k)
    \/ \E l \in Limit : \/ Mount(l) \/ Unmount(l) \/ FetchNext(l)
                        \/ ReadPage(l) \/ Settle(l)

Spec == Init /\ [][Next]_vars
-----------------------------------------------------------------------------
\* mergeResearchTurns: what a list shows, each turn once
Shown(l) ==
    Items(cache[l]) \cup
    {k \in Recorded : records[k].state # "synced" \/ records[k].resolved}

\* Saved before the first page of a read was answered, which came to the end.
ReadShows(l, k) == ~fetch[l].more /\ k \in fetch[l].asof

\* While a list is on the screen a question it shows goes out of sight only
\* when its record is erased, or when a read arrives whose first page was
\* answered before the question was saved or that does not reach it: handing it
\* over from record to page, in whatever order answers, failures, retries and
\* reads arrive, never drops it.  A record that is synced stays so.
HandoverKeepsTurns ==
    [][/\ \A l \in mounted \cap mounted' : \A k \in Shown(l) \ Shown(l)' :
             \/ k \in Recorded /\ k \notin Recorded'
             \/ fetch'[l] = NoFetch /\ fetch[l] # NoFetch /\ ~ReadShows(l, k)
       /\ \A k \in Recorded \cap Recorded' :
             records[k].state = "synced" => records'[k].state = "synced"]_vars

\* ``messages do not disappear'': what the user asked, once the query of the
\* records had been read, is in the list.
MessagesDoNotDisappear == \A l \in mounted : asked \subseteq Shown(l)
==============================================================================
