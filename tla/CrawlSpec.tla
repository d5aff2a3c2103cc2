------------------------------ MODULE CrawlSpec ------------------------------
(***************************************************************************)
(* What a crawl over a paginated list promises its caller, whatever the    *)
(* pages look like: it hands out objects the server really had, it may     *)
(* give up, and when it says it reached the end it has handed out every    *)
(* object of the first page's query that the server still has -- provided  *)
(* the list moved slowly enough to be followed (`smooth').                 *)
(*                                                                         *)
(* Nothing here is about offsets, totals, links or retries: PageCrawl.tla  *)
(* has those, and implements this module.                                  *)
(***************************************************************************)
EXTENDS Integers

CONSTANT InitialCount     \* how many objects match when the crawl starts

VARIABLES
    window,     \* the versions of objects that match the query now
    published,  \* versions 1..published have been in the list at some time
    delivered,  \* the versions handed to the caller
    status,     \* "crawling", "ended" or "failed"
    smooth      \* no two changes hid each other from the crawl so far

cvars == <<window, published, delivered, status, smooth>>

Stable == (1..InitialCount) \cap window

CInit ==
    /\ window = 1..InitialCount
    /\ published = InitialCount
    /\ delivered = {}
    /\ status = "crawling"
    /\ smooth = TRUE

(* The server's list changes: old versions go, newer ones come. *)
CChurn ==
    /\ published' \in {published, published + 1}
    /\ window' \subseteq window \cup ((published + 1)..published')
    /\ UNCHANGED <<delivered, status, smooth>>

(* The list moved in a way no counting client can follow. *)
CRough ==
    /\ smooth' = FALSE
    /\ UNCHANGED <<window, published, delivered, status>>

(* One more object is handed out, while the crawl is alive. *)
CDeliver ==
    /\ status = "crawling"
    /\ \E o \in 1..published : delivered' = delivered \cup {o}
    /\ UNCHANGED <<window, published, status, smooth>>

(* The end is only announced when nothing stable is missing. *)
CEnd ==
    /\ status = "crawling"
    /\ smooth => Stable \subseteq delivered
    /\ status' = "ended"
    /\ UNCHANGED <<window, published, delivered, smooth>>

CFail ==
    /\ status = "crawling"
    /\ status' = "failed"
    /\ UNCHANGED <<window, published, delivered, smooth>>

CNext == CChurn \/ CRough \/ CDeliver \/ CEnd \/ CFail

CSpec == CInit /\ [][CNext]_cvars
=============================================================================
