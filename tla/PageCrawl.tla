------------------------------ MODULE PageCrawl ------------------------------
(***************************************************************************)
(* client/paging.rs: a PageStream that follows `Link: rel="next"' over a   *)
(* list whose contents change while it crawls, served page by page by      *)
(* testkit/stores.rs, fetched through the retry loop of client/http.rs.    *)
(*                                                                         *)
(* An object is known by the version the list holds, and versions are      *)
(* numbered in the order of their last_updated, which is the order the     *)
(* list is served in: updating an object retires its version and, when the *)
(* query's window is open-ended, appends a newer one.                      *)
(*                                                                         *)
(* The answer to a GET is computed by the server and taken in by the       *)
(* client in one step: a page already computed reads nothing of the list   *)
(* again, so a change in between is the same as a change after.            *)
(***************************************************************************)
EXTENDS Integers, FiniteSets

CONSTANTS
    InitialCount,  \* objects matching the query when the crawl starts
    MaxVersion,    \* bound: versions that ever exist, InitialCount included
    Limit,         \* page size: the query's limit, capped by the server's own
    MaxPages,      \* PageStream::max_pages
    MaxAttempts,   \* RetryPolicy::max_attempts
    Loops          \* does the peer also answer with a Link to the same page?

ASSUME CrawlAssumption ==
    /\ InitialCount \in Nat
    /\ MaxVersion \in Nat
    /\ Limit \in Nat \ {0}
    /\ MaxPages \in Nat
    /\ MaxAttempts \in Nat \ {0}
    /\ Loops \in BOOLEAN

None == -1    \* Option::None, for an offset, a total

VARIABLES
    window,       \* server: the versions that match the query
    clock,        \* server: the next version to be written
    next,         \* PageStream.next: offset of the next page's URL, or None
    request,      \* offset of the GET in flight, or None
    attempt,      \* which attempt of that GET is running
    buffer,       \* PageStream.buffer: fetched, not yet handed out
    last_total,   \* PageStream.last_total
    pages,        \* PageStream.pages
    seen,         \* PageStream.seen
    corrections,  \* PageStream.corrections
    outcome,      \* what the last call of next() returned
    delivered,    \* history: the versions handed out
    interrupted,  \* history: a next() returned Err or was dropped midway
    departed,     \* history: versions gone since the last page was served
    arrived,      \* history: versions added since then
    smooth,       \* history: between any two pages the total told the shift
    horizon,      \* history: the clock when the last page was served
    looped        \* history: objects on pages that a Link led back to

server  == <<window, clock>>
stream  == <<next, buffer, last_total, pages, corrections>>
history == <<departed, arrived, smooth, horizon, looped>>
vars    == <<server, stream, request, attempt, seen, outcome, delivered,
             interrupted, history>>

Rank(W, o) == Cardinality({w \in W : w < o})
Total == Cardinality(window)

(* stores.rs page(): the slice [start, end) of the sorted matching list *)
PageEnd(offset) == IF offset + Limit < Total THEN offset + Limit ELSE Total
PageItems(offset) ==
    {o \in window : offset <= Rank(window, o) /\ Rank(window, o) < offset + Limit}

(* mutant: the next page starts one object too far *)
PageLinks_OffByOne(offset) ==
    {IF PageEnd(offset) < Total THEN PageEnd(offset) + 1 ELSE None}
        \cup (IF Loops THEN {offset} ELSE {})

(* the `next' link of a page: absent on the last one; a peer that loops may *)
(* name the page itself instead                                            *)
PageLinks(offset) ==
    {IF PageEnd(offset) < Total THEN PageEnd(offset) ELSE None}
        \cup (IF Loops THEN {offset} ELSE {})

(* mutant: a total lower by one is taken for noise *)
Shrunk_IgnoresOne(before, now, offset) ==
    before # None /\ now # None /\ now + 1 < before /\ offset > 0

(* pagination.rs crawl_adjustment(): did the total drop on a later page? *)
Shrunk(before, now, offset) ==
    before # None /\ now # None /\ now < before /\ offset > 0

(* A gap between two pages the totals are enough to follow. *)
Followable(offset) ==
    departed = 0 \/ (departed = 1 /\ arrived = 0) \/ offset = 0

-----------------------------------------------------------------------------

Init ==
    /\ window = 1..InitialCount
    /\ clock = InitialCount + 1
    /\ next = 0
    /\ request = None
    /\ attempt = 0
    /\ buffer = {}
    /\ last_total = None
    /\ pages = 0
    /\ seen = 0
    /\ corrections = 0
    /\ outcome = "none"
    /\ delivered = {}
    /\ interrupted = FALSE
    /\ departed = 0
    /\ arrived = 0
    /\ smooth = TRUE
    /\ horizon = InitialCount + 1
    /\ looped = 0

(***************************************************************************)
(* The server's list between two requests.                                 *)
(***************************************************************************)

(* An object is deleted, or updated past the query's date_to. *)
Depart(o) ==
    /\ o \in window
    /\ window' = window \ {o}
    /\ departed' = departed + 1
    /\ UNCHANGED <<clock, stream, request, attempt, seen, outcome, delivered,
                   interrupted, arrived, smooth, horizon, looped>>

(* An object is created: the newest, so at the end of the list. *)
Arrive ==
    /\ clock <= MaxVersion
    /\ window' = window \cup {clock}
    /\ clock' = clock + 1
    /\ arrived' = arrived + 1
    /\ UNCHANGED <<stream, request, attempt, seen, outcome, delivered,
                   interrupted, departed, smooth, horizon, looped>>

(* An object is updated in a window without date_to: it moves to the end. *)
Update(o) ==
    /\ o \in window
    /\ clock <= MaxVersion
    /\ window' = (window \ {o}) \cup {clock}
    /\ clock' = clock + 1
    /\ departed' = departed + 1
    /\ arrived' = arrived + 1
    /\ UNCHANGED <<stream, request, attempt, seen, outcome, delivered,
                   interrupted, smooth, horizon, looped>>

(***************************************************************************)
(* PageStream::next().                                                     *)
(***************************************************************************)

Idle == request = None /\ outcome # "end"

(* The buffer yields its front: pages arrive sorted, oldest first. *)
NextItem ==
    /\ Idle
    /\ \E o \in buffer :
        /\ \A p \in buffer : o <= p
        /\ buffer' = buffer \ {o}
        /\ delivered' = delivered \cup {o}
    /\ seen' = seen + 1
    /\ outcome' = "item"
    /\ UNCHANGED <<server, next, last_total, pages, corrections, request,
                   attempt, interrupted, history>>

(* No buffer and no link: Ok(None). *)
NextEnd ==
    /\ Idle
    /\ buffer = {}
    /\ next = None
    /\ outcome' = "end"
    /\ UNCHANGED <<server, stream, request, attempt, seen, delivered,
                   interrupted, history>>

(* The link is taken, and the page budget is already spent. *)
NextTooMany ==
    /\ Idle
    /\ buffer = {}
    /\ next # None
    /\ pages >= MaxPages
    /\ next' = None
    /\ outcome' = "error"
    /\ interrupted' = TRUE
    /\ UNCHANGED <<server, buffer, last_total, pages, corrections, request,
                   attempt, seen, delivered, history>>

(* mutant: the budget is compared with > *)
NextFetch_OnePageMore ==
    /\ Idle
    /\ buffer = {}
    /\ next # None
    /\ pages <= MaxPages
    /\ next' = None
    /\ request' = next
    /\ attempt' = 1
    /\ UNCHANGED <<server, buffer, last_total, pages, corrections, seen,
                   outcome, delivered, interrupted, history>>

(* mutant: the link is cloned instead of taken *)
NextFetch_KeepsLink ==
    /\ Idle
    /\ buffer = {}
    /\ next # None
    /\ pages < MaxPages
    /\ request' = next
    /\ attempt' = 1
    /\ UNCHANGED <<server, stream, seen, outcome, delivered, interrupted,
                   history>>

(* The link is taken and its GET sent. *)
NextFetch ==
    /\ Idle
    /\ buffer = {}
    /\ next # None
    /\ pages < MaxPages
    /\ next' = None
    /\ request' = next
    /\ attempt' = 1
    /\ UNCHANGED <<server, buffer, last_total, pages, corrections, seen,
                   outcome, delivered, interrupted, history>>

(* http.rs: a transient failure of a GET is retried while attempts remain. *)
Retry ==
    /\ request # None
    /\ attempt < MaxAttempts
    /\ attempt' = attempt + 1
    /\ UNCHANGED <<server, stream, request, seen, outcome, delivered,
                   interrupted, history>>

(* The last attempt failed, or the failure is not transient: Err, and the   *)
(* link that was taken is gone.                                            *)
FetchFails ==
    /\ request # None
    /\ request' = None
    /\ attempt' = 0
    /\ outcome' = "error"
    /\ interrupted' = TRUE
    /\ UNCHANGED <<server, stream, seen, delivered, history>>

(* The caller drops the future of next() while the GET is in flight (a      *)
(* select! or a timeout of its own): the taken link is gone here too.      *)
Dropped ==
    /\ request # None
    /\ request' = None
    /\ attempt' = 0
    /\ interrupted' = TRUE
    /\ UNCHANGED <<server, stream, seen, outcome, delivered, history>>

(* mutant: a page that is thrown away leaves the old total behind *)
PageArrives_StaleTotal ==
    /\ request # None
    /\ request' = None
    /\ attempt' = 0
    /\ pages' = pages + 1
    /\ last_total' = IF Shrunk(last_total, Total, request) THEN last_total ELSE Total
    /\ smooth' = (smooth /\ Followable(request))
    /\ departed' = 0
    /\ arrived' = 0
    /\ horizon' = clock
    /\ UNCHANGED <<server, seen, outcome, delivered, interrupted>>

(* What every page that arrives does, before it is looked at. *)
PageArrives ==
    /\ request # None
    /\ request' = None
    /\ attempt' = 0
    /\ pages' = pages + 1
    /\ last_total' = Total
    /\ smooth' = (smooth /\ Followable(request))
    /\ departed' = 0
    /\ arrived' = 0
    /\ horizon' = clock
    /\ UNCHANGED <<server, seen, outcome, delivered, interrupted>>

(* mutant: the rewind is measured against the page before *)
FetchRewinds_WholePage ==
    /\ PageArrives
    /\ Shrunk(last_total, Total, request)
    /\ next' = IF request > Limit THEN request - 1 - Limit ELSE 0
    /\ corrections' = corrections + 1
    /\ UNCHANGED <<buffer, looped>>

(* The total dropped: the page is thrown away and asked for again, one      *)
(* object earlier.                                                         *)
FetchRewinds ==
    /\ PageArrives
    /\ Shrunk(last_total, Total, request)
    /\ next' = request - 1
    /\ corrections' = corrections + 1
    /\ UNCHANGED <<buffer, looped>>

FetchContinues ==
    /\ PageArrives
    /\ ~Shrunk(last_total, Total, request)
    /\ buffer' = buffer \cup PageItems(request)
    /\ next' \in PageLinks(request)
    /\ looped' = IF next' = request THEN looped + Limit ELSE looped
    /\ UNCHANGED corrections

Churn == Arrive \/ \E o \in window : Depart(o) \/ Update(o)

(* The caller's loop over next(), and the request it waits for. *)
Caller == NextItem \/ NextEnd \/ NextTooMany \/ NextFetch
Answer == FetchRewinds \/ FetchContinues \/ Retry \/ FetchFails

Next == Churn \/ Caller \/ Answer \/ Dropped

Spec == Init /\ [][Next]_vars

(* A caller that loops keeps calling, and ClientConfig.timeout ends every  *)
(* attempt: both are weakly fair. The server owes nothing.                 *)
FairSpec == Spec /\ WF_vars(Caller) /\ WF_vars(Answer)

-----------------------------------------------------------------------------

(* Every variable keeps the type its Rust field or history role has. *)
TypeOK ==
    /\ window \subseteq 1..(clock - 1)
    /\ clock \in Nat
    /\ next \in Nat \cup {None}
    /\ request \in Nat \cup {None}
    /\ attempt \in 0..MaxAttempts
    /\ buffer \subseteq 1..(clock - 1)
    /\ last_total \in Nat \cup {None}
    /\ pages \in 0..MaxPages
    /\ seen \in Nat
    /\ corrections \in Nat
    /\ looped \in Nat
    /\ outcome \in {"none", "item", "end", "error"}
    /\ delivered \subseteq 1..(clock - 1)
    /\ interrupted \in BOOLEAN
    /\ departed \in Nat
    /\ arrived \in Nat
    /\ smooth \in BOOLEAN
    /\ horizon \in 1..clock

(* A crawl that says Ok(None), and was never interrupted, has handed out    *)
(* every version the list had when its last page was served and still has: *)
(* the correction of paging.rs fetch() skips nothing as long as the totals *)
(* tell the shift.                                                         *)
CrawlComplete ==
    (outcome = "end" /\ ~interrupted /\ smooth) =>
        \A o \in window : o < horizon => o \in delivered

(* A correction re-yields at most one object (the comment in fetch():       *)
(* rewinding further would re-yield a whole page): what was yielded twice   *)
(* is at most what was corrected, or stood on pages the peer had repeated.  *)
RewindRepeatsOne == seen <= Cardinality(delivered) + corrections + looped

(* Whatever the peer answers and however the list moves, the crawl stops:   *)
(* with the end, an error, or because its caller dropped it.               *)
Terminates == <>(outcome \in {"end", "error"} /\ request = None)

(***************************************************************************)
(* Why the correction is enough: the strengthening CrawlComplete needs.    *)
(***************************************************************************)

Held == delivered \cup buffer

(* The URL at offset u still covers everything not yet held: whatever lies  *)
(* before u minus the departures of this gap has been fetched.             *)
Covers(u) ==
    /\ u <= Total + departed
    /\ \A o \in window : o \notin Held => u <= Rank(window, o) + departed

(* A request is only out when its link was taken and the buffer is dry. *)
OneCursor ==
    request # None => next = None /\ buffer = {} /\ pages < MaxPages /\ ~interrupted

(* An interrupted stream has neither link nor buffer left. *)
Over == interrupted => next = None /\ buffer = {}

(* The remembered total is off by exactly this gap's changes. *)
Remembers ==
    /\ last_total # None => last_total = Total + departed - arrived
    /\ last_total = None => next \in {0, None} /\ request \in {0, None}

CursorCovers ==
    smooth => /\ next # None => Covers(next)
              /\ request # None => Covers(request)

NothingLeft ==
    (smooth /\ ~interrupted /\ next = None /\ request = None) =>
        \A o \in window : o < horizon => o \in Held

EndIsEnd == outcome = "end" => next = None /\ request = None /\ buffer = {}

CrawlInv ==
    /\ TypeOK /\ clock > InitialCount /\ horizon > InitialCount
    /\ OneCursor /\ Over /\ Remembers /\ CursorCovers /\ NothingLeft /\ EndIsEnd

(* The promise of CrawlSpec.tla, with the history of this module. *)
Promise == INSTANCE CrawlSpec WITH
    published <- clock - 1,
    status <- IF interrupted THEN "failed"
              ELSE IF outcome = "end" THEN "ended" ELSE "crawling"

KeepsPromise == Promise!CSpec
=============================================================================
