----------------------------- MODULE EventQueue -----------------------------
(***************************************************************************)
(* Client feedback events of the browser SDK and their retry queue.        *)
(*                                                                         *)
(* An event is posted once.  When the post fails for any reason it is put  *)
(* into a list in local storage, which every page (tab) of the origin      *)
(* shares.  The next initialisation of the SDK in any page reads the list, *)
(* posts its items one after the other and writes back those that failed.  *)
(* The list is read and written without a lock around the posts, so pages  *)
(* overwrite each other.  The server stores an event under its event_id    *)
(* with INSERT OR IGNORE.                                                  *)
(***************************************************************************)
EXTENDS Naturals, Sequences, FiniteSets, SequencesExt

CONSTANTS
    Events,         \* feedback events, one event_id each
    Pages,          \* pages that run the SDK and share local storage
    MaxItems        \* eventRetryMaxItems

ASSUME QueueAssumption == MaxItems \in Nat \ {0}

VARIABLES
    endpoint,       \* what POST /v1/client/* does now
    storageOk,      \* local storage can be written; the browser decides once
    rows,           \* event -> rows of client_events with its event_id
    event,          \* event -> the state of its sending
    sending,        \* page -> the events it is posting
    retry,          \* the list under dee_event_retry_queue
    page,           \* page -> open, and the flush it is running
    losses          \* event -> why the queue gave it up

queueVars == <<endpoint, storageOk, rows, event, sending, retry, page, losses>>

Endpoint == {"up", "refusing", "down"}      \* 2xx; 4xx such as 401 and 429; 5xx or no answer
Losses == {"capacity", "refused", "overwritten"}
Closed == [open |-> FALSE, flushing |-> FALSE, read |-> {}, todo |-> <<>>, remaining |-> <<>>]
Idle == [Closed EXCEPT !.open = TRUE]

QueueInit ==
    /\ endpoint \in Endpoint
    /\ storageOk \in BOOLEAN
    /\ rows = [e \in Events |-> 0]
    /\ event = [e \in Events |-> "new"]
    /\ sending = [p \in Pages |-> {}]
    /\ retry = <<>>
    /\ page = [p \in Pages |-> Closed]
    /\ losses = [e \in Events |-> {}]

\* INSERT OR IGNORE INTO client_events: the first of several requests with
\* one event_id makes a row, the others are answered as duplicates.
addClientEvent(e) == rows' = [rows EXCEPT ![e] = IF @ = 0 THEN 1 ELSE @]

\* Mut... are faulty variants of the definition that follows them.
MutNoLimit(items) == items

\* slice(-max): the newest items stay.
Newest(items) == SubSeq(items, Len(items) - MaxItems + 1, Len(items))
Kept(items) == IF Len(items) > MaxItems THEN Newest(items) ELSE items

Lose(es, why) == losses' = [e \in Events |-> IF e \in es THEN losses[e] \cup {why} ELSE losses[e]]

(***************************************************************************)
(* Posting an event.                                                       *)
(***************************************************************************)
sendClientEvent(p, e) ==
    /\ page[p].open
    /\ event[e] = "new"
    /\ event' = [event EXCEPT ![e] = "posting"]
    /\ sending' = [sending EXCEPT ![p] = @ \cup {e}]
    /\ UNCHANGED <<endpoint, storageOk, rows, retry, page, losses>>

PostSucceeds(p, e) ==
    /\ e \in sending[p]
    /\ endpoint = "up"
    /\ addClientEvent(e)
    /\ event' = [event EXCEPT ![e] = "accepted"]
    /\ sending' = [sending EXCEPT ![p] = @ \ {e}]
    /\ UNCHANGED <<endpoint, storageOk, retry, page, losses>>

\* Without storage the error goes to the caller.
enqueueEvent(e) ==
    IF storageOk
    THEN /\ retry' = Kept(Append(retry, e))
         /\ Lose(ToSet(Append(retry, e)) \ ToSet(retry'), "capacity")
         /\ event' = [event EXCEPT ![e] = "queued"]
    ELSE /\ event' = [event EXCEPT ![e] = "rejected"]
         /\ UNCHANGED <<retry, losses>>

\* Every error queues the event: no answer, a 5xx and a 4xx alike.  With a
\* timeout or a lost answer the server may have stored it.
PostFails(p, e) ==
    /\ e \in sending[p]
    /\ \/ endpoint # "up" /\ UNCHANGED rows
       \/ endpoint = "up" /\ addClientEvent(e)
    /\ enqueueEvent(e)
    /\ sending' = [sending EXCEPT ![p] = @ \ {e}]
    /\ UNCHANGED <<endpoint, storageOk, page>>

(***************************************************************************)
(* Flushing the queue, on every initialisation of the SDK.                 *)
(***************************************************************************)
\* A plausible bug: the queue is flushed by the first initialisation only.
MutFlushOnLoad(p) ==
    /\ ~ page[p].open
    /\ page' = [page EXCEPT ![p] =
           IF storageOk /\ retry # <<>>
           THEN [Idle EXCEPT !.flushing = TRUE, !.read = ToSet(retry), !.todo = retry]
           ELSE Idle]
    /\ UNCHANGED <<endpoint, storageOk, rows, event, sending, retry, losses>>

\* A page is loaded, or initialises the SDK again while it is open.  The
\* bound: a page starts a flush when its previous one has ended.
InitFlush(p) ==
    /\ ~ page[p].flushing
    /\ page' = [page EXCEPT ![p] =
           IF storageOk /\ retry # <<>>
           THEN [Idle EXCEPT !.flushing = TRUE, !.read = ToSet(retry), !.todo = retry]
           ELSE Idle]
    /\ UNCHANGED <<endpoint, storageOk, rows, event, sending, retry, losses>>

\* A plausible bug: an item counts as sent without a look at the answer.
MutAnyAnswer(p) ==
    /\ page[p].flushing
    /\ page[p].todo # <<>>
    /\ page' = [page EXCEPT ![p].todo = Tail(@)]
    /\ IF endpoint = "up" THEN addClientEvent(Head(page[p].todo)) ELSE UNCHANGED rows
    /\ UNCHANGED <<endpoint, storageOk, event, sending, retry, losses>>

\* Any answer below 500 counts as flushed, a refusal too.
FlushItem(p) ==
    /\ page[p].flushing
    /\ page[p].todo # <<>>
    /\ LET e == Head(page[p].todo)
           flushed == [page[p] EXCEPT !.todo = Tail(@)]
           kept == [flushed EXCEPT !.remaining = Append(@, e)]
       IN  \/ /\ endpoint = "up"
              /\ addClientEvent(e)
              /\ \E outcome \in {flushed, kept} : page' = [page EXCEPT ![p] = outcome]
              /\ UNCHANGED losses
           \/ /\ endpoint = "refusing"
              /\ page' = [page EXCEPT ![p] = flushed]
              /\ Lose({e}, "refused")
              /\ UNCHANGED rows
           \/ /\ endpoint = "down"
              /\ page' = [page EXCEPT ![p] = kept]
              /\ UNCHANGED <<rows, losses>>
    /\ UNCHANGED <<endpoint, storageOk, event, sending, retry>>

\* The list is replaced by what this flush has left of the list it read.
FlushEnd(p) ==
    /\ page[p].flushing
    /\ page[p].todo = <<>>
    /\ retry' = Kept(page[p].remaining)
    /\ Lose(ToSet(retry) \ page[p].read, "overwritten")
    /\ page' = [page EXCEPT ![p] = Idle]
    /\ UNCHANGED <<endpoint, storageOk, rows, event, sending>>

(***************************************************************************)
(* The environment.                                                        *)
(***************************************************************************)
\* A closed page runs no handler any more: its flush writes nothing, and an
\* event it was sending (keepalive) arrives or not, but is not queued.
ClosePage(p) ==
    /\ page[p].open
    /\ page' = [page EXCEPT ![p] = Closed]
    /\ sending' = [sending EXCEPT ![p] = {}]
    /\ event' = [e \in Events |-> IF e \in sending[p] THEN "abandoned" ELSE event[e]]
    /\ \E arrived \in SUBSET sending[p] :
           /\ arrived # {} => endpoint = "up"
           /\ rows' = [e \in Events |-> IF e \in arrived /\ rows[e] = 0 THEN 1 ELSE rows[e]]
    /\ UNCHANGED <<endpoint, storageOk, retry, losses>>

EndpointChanges ==
    /\ \E to \in Endpoint \ {endpoint} : endpoint' = to
    /\ UNCHANGED <<storageOk, rows, event, sending, retry, page, losses>>

QueueNext ==
    \/ \E p \in Pages, e \in Events : sendClientEvent(p, e) \/ PostSucceeds(p, e) \/ PostFails(p, e)
    \/ \E p \in Pages : InitFlush(p) \/ FlushItem(p) \/ FlushEnd(p) \/ ClosePage(p)
    \/ EndpointChanges

QueueSpec == QueueInit /\ [][QueueNext]_queueVars

\* A request is answered or times out, a flush goes on while its page is
\* open, and visitors keep initialising the SDK: the design relies on that.
QueueFairness ==
    /\ \A p \in Pages, e \in Events : WF_queueVars(PostSucceeds(p, e) \/ PostFails(p, e))
    /\ \A p \in Pages : WF_queueVars(InitFlush(p)) /\ WF_queueVars(FlushItem(p) \/ FlushEnd(p))

-----------------------------------------------------------------------------

FlushType == [open : BOOLEAN, flushing : BOOLEAN, read : SUBSET Events,
              todo : Seq(Events), remaining : Seq(Events)]

\* Every variable keeps its type, and the stored list never exceeds
\* eventRetryMaxItems, whichever page writes it.
QueueTypeOK ==
    /\ endpoint \in Endpoint
    /\ storageOk \in BOOLEAN
    /\ rows \in [Events -> Nat]
    /\ event \in [Events -> {"new", "posting", "accepted", "queued", "rejected", "abandoned"}]
    /\ sending \in [Pages -> SUBSET Events]
    /\ retry \in Seq(Events) /\ Len(retry) <= MaxItems
    /\ page \in [Pages -> FlushType]
    /\ losses \in [Events -> SUBSET Losses]

\* The store holds an event at most once, however often pages retry it, also
\* one whose answer was lost or that two pages flush at once.  And an event
\* the SDK reported as queued or accepted is stored, or is still in the
\* queue, or was given up for one of three reasons: the queue was full, the
\* server refused it, or a flush that had not read it wrote its list over it.
\* Lost answers, closed pages and flushes of two pages over one list lose
\* nothing else.
QueuedNotLost ==
    \A e \in Events :
        /\ rows[e] <= 1
        /\ event[e] \in {"queued", "accepted"} =>
               rows[e] > 0 \/ e \in ToSet(retry) \/ losses[e] # {}

\* Once the endpoint is up for good and pages stay open, every queued event is
\* stored or was given up for one of the three reasons: no flush keeps
\* another from making progress for ever.
QueueDrains ==
    (<>[](endpoint = "up") /\ <>[][~ \E p \in Pages : ClosePage(p)]_queueVars) =>
        \A e \in Events : event[e] = "queued" ~> (rows[e] > 0 \/ losses[e] # {})
=============================================================================
