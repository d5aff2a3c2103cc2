-------------------------------- MODULE Resync --------------------------------
(***************************************************************************)
(* client/resync.rs: a receiver that catches up by pulling what changed    *)
(* since its last successful pull, while the server keeps writing. Three   *)
(* things may hide a change from a pull: the server's clock is not the     *)
(* client's, an object is stored a moment after its last_updated was read, *)
(* and a pull may fail midway. The overlap is there for the first two.     *)
(*                                                                         *)
(* A pull is a crawl of several pages (PageCrawl.tla), and what it brings  *)
(* is what CrawlSpec.tla promises: when the list moved slowly enough to be *)
(* followed (`smooth'), everything in the window that was there when it    *)
(* began and still is at its end. A rough crawl ends with the same Ok, and *)
(* may have passed over any of it. So a pull is here one step per page,    *)
(* and counts what leaves and enters its window between two of them.       *)
(* (An object stored late enters in the middle of the list, which the      *)
(* crawl answers like one at the end: it re-yields, and skips nothing.)    *)
(***************************************************************************)
EXTENDS Integers

CONSTANTS
    Overlap,      \* Resync::overlap
    Skew,         \* how far the server's clock is off the client's, at most
    Delay,        \* how long after its last_updated an object is stored
    Objects,      \* the objects of the server's list
    LastWrite,    \* bound: when the last write begins
    MaxTime,      \* bound: when the clock stops
    MaxChanges    \* bound: writes in all

ASSUME ResyncAssumption ==
    /\ Overlap \in Nat /\ Skew \in Nat /\ Delay \in Nat
    /\ LastWrite \in Nat /\ MaxTime \in Nat /\ MaxChanges \in Nat

(* What DEFAULT_OVERLAP is chosen for: clocks and delays it is longer than. *)
ASSUME OverlapSuffices == Skew + Delay <= Overlap

NoPull == [from |-> 0, to |-> 0, open |-> FALSE, there |-> {}]

VARIABLES
    now,           \* the client's clock
    count,         \* writes begun
    pending,       \* writes whose last_updated is read, not yet stored
    visible,       \* the stored version of each object that has one
    last_success,  \* when the last pull that succeeded was planned
    running,       \* is a pull running?
    pull,          \* its query, and what was there when it began
    paged,         \* did its first page arrive?
    departed,      \* history: what left its window since the last page
    arrived,       \* history: what entered its window since then
    smooth,        \* history: between any two pages the total told the shift
    fetched,       \* the writes that were pulled
    passed         \* history: the writes a rough crawl that ended Ok had in
                   \* its window, whether it brought them or not

crawl == <<paged, departed, arrived, smooth>>
rvars == <<now, count, pending, visible, last_success, running, pull, crawl,
           fetched, passed>>

-----------------------------------------------------------------------------

Init ==
    /\ now = 0
    /\ count = 0
    /\ pending = {}
    /\ visible = {}
    /\ last_success = 0
    /\ running = FALSE
    /\ pull = NoPull
    /\ paged = FALSE
    /\ departed = 0
    /\ arrived = 0
    /\ smooth = TRUE
    /\ fetched = {}
    /\ passed = {}

(* stores.rs page(): date_from is inclusive, date_to exclusive *)
Matches(c) == pull.from <= c.stamp /\ (pull.open \/ c.stamp < pull.to)

(* Time passes, but never past the moment a pending write is due. *)
Tick ==
    /\ now < MaxTime
    /\ \A c \in pending : now < c.taken + Delay
    /\ now' = now + 1
    /\ UNCHANGED <<count, pending, visible, last_success, running, pull, crawl,
                   fetched, passed>>

(* The server stamps a change of o, by its own clock. *)
WriteBegins(o) ==
    /\ now <= LastWrite
    /\ count < MaxChanges
    /\ \A c \in pending : c.object # o
    /\ \E stamp \in (now - Skew)..(now + Skew) :
        pending' = pending \cup
            {[object |-> o, no |-> count + 1, stamp |-> stamp, taken |-> now]}
    /\ count' = count + 1
    /\ UNCHANGED <<now, visible, last_success, running, pull, crawl, fetched,
                   passed>>

(* ... and stores it, in place of the version there was. *)
WriteStored(c) ==
    /\ c \in pending
    /\ pending' = pending \ {c}
    /\ visible' = {d \in visible : d.object # c.object} \cup {c}
    /\ departed' = IF paged /\ \E d \in visible : d.object = c.object /\ Matches(d)
                   THEN departed + 1 ELSE departed
    /\ arrived' = IF paged /\ Matches(c) THEN arrived + 1 ELSE arrived
    /\ UNCHANGED <<now, count, last_success, running, pull, paged, smooth,
                   fetched, passed>>

(* mutant: the window starts where the last one ended *)
From_NoOverlap == last_success

(* mutant: the window reaches beyond the present *)
To_Ahead == now + Overlap

(* date_from of both queries, date_to of plan() *)
From == last_success - Overlap
To == now

(* plan() closes the window at the present, incremental() leaves it open. *)
PullBegins(open) ==
    /\ ~running
    /\ running' = TRUE
    /\ pull' = [from |-> From, to |-> To, open |-> open, there |-> visible]
    /\ UNCHANGED <<now, count, pending, visible, last_success, crawl, fetched,
                   passed>>

(* A page is served. After the first one the crawl must have been able to   *)
(* follow: PageCrawl.tla's Followable().                                   *)
PageArrives ==
    /\ running
    /\ paged' = TRUE
    /\ departed' = 0
    /\ arrived' = 0
    /\ smooth' = (smooth /\ (~paged \/ departed = 0 \/ (departed = 1 /\ arrived = 0)))
    /\ UNCHANGED <<now, count, pending, visible, last_success, running, pull,
                   fetched, passed>>

Certain == {c \in pull.there \cap visible : Matches(c)}
Possible == {c \in pull.there \cup visible : Matches(c)}

PullEnds ==
    /\ running
    /\ running' = FALSE
    /\ pull' = NoPull
    /\ paged' = FALSE
    /\ departed' = 0
    /\ arrived' = 0
    /\ smooth' = TRUE
    /\ UNCHANGED <<now, count, pending, visible>>

(* collect_all() came to its end, which it reports as Ok however the list   *)
(* moved: the caller notes when it was planned.                            *)
PullSucceeds ==
    /\ PullEnds
    /\ paged
    /\ \E got \in SUBSET Possible :
        /\ smooth => Certain \subseteq got
        /\ fetched' = fetched \cup {c.no : c \in got}
    /\ passed' = IF smooth THEN passed ELSE passed \cup {c.no : c \in Certain}
    /\ last_success' = pull.to

(* mutant: a pull that failed is remembered like one that succeeded *)
PullFails_Forgets ==
    /\ PullEnds
    /\ last_success' = pull.to
    /\ UNCHANGED <<fetched, passed>>

(* A page could not be had: nothing is noted, and nothing is queued. *)
PullFails ==
    /\ PullEnds
    /\ UNCHANGED <<last_success, fetched, passed>>

Stores == \E c \in pending : WriteStored(c)
Polls == \E open \in BOOLEAN : PullBegins(open)

Next ==
    \/ Tick \/ Stores \/ Polls \/ PageArrives \/ PullSucceeds \/ PullFails
    \/ \E o \in Objects : WriteBegins(o)

Spec == Init /\ [][Next]_rvars

(* The client keeps polling, and a connection that is tried forever is not  *)
(* lost forever.                                                           *)
FairSpec ==
    /\ Spec
    /\ WF_rvars(Tick) /\ WF_rvars(Stores) /\ WF_rvars(Polls)
    /\ SF_rvars(PageArrives) /\ SF_rvars(PullSucceeds)

-----------------------------------------------------------------------------

(* A write as the server knows it. *)
Change == [object : Objects, no : Nat, stamp : Int, taken : Nat]

(* The clocks and windows the pulls run by; a window is not of the future. *)
TypeOK ==
    /\ now \in Nat /\ count \in Nat
    /\ pending \subseteq Change
    /\ visible \subseteq Change
    /\ last_success \in 0..now
    /\ fetched \subseteq Nat
    /\ running \in BOOLEAN
    /\ pull \in [from : Int, to : 0..now, open : BOOLEAN, there : SUBSET Change]
    /\ running => pull.from = From
    /\ paged \in BOOLEAN /\ smooth \in BOOLEAN
    /\ departed \in Nat /\ arrived \in Nat
    /\ passed \subseteq Nat

(* What the pulls so far did not bring, the next one asks for: a stored     *)
(* change that was not fetched is not older than the next window -- under   *)
(* any skew, delay, failure or update in the middle of a crawl -- or it     *)
(* stood in the window of a crawl that could not be followed. This is as    *)
(* far as the claim of the comment on DEFAULT_OVERLAP holds, and that of    *)
(* the one on plan() (`catches up everything changed since last_success'):  *)
(* a rough crawl, too, ends with Ok, and last_success moves on.             *)
NothingSlips ==
    \A c \in visible : c.no \notin fetched \cup passed => From <= c.stamp

(* Every change is pulled at last, unless a newer one replaced it or a      *)
(* rough crawl passed by it.                                               *)
Stored(k) == \E c \in visible : c.no = k
EverythingPulled ==
    \A k \in 1..MaxChanges : Stored(k) ~> (k \in fetched \cup passed \/ ~Stored(k))

(* Why NothingSlips holds: a pending write is young, so what is stored      *)
(* while a pull runs is stamped after that pull's own start less the        *)
(* overlap, and the next window has it.                                    *)
PendingYoung ==
    \A c \in pending : c.taken <= now /\ now <= c.taken + Delay /\ c.taken - Skew <= c.stamp

LateIsYoung ==
    running => \A c \in visible \ pull.there : pull.to - Overlap <= c.stamp

ResyncInv == TypeOK /\ PendingYoung /\ LateIsYoung /\ NothingSlips
===============================================================================
