----------------------------- MODULE ResyncProofs -----------------------------
(***************************************************************************)
(* That a resync with an overlap at least as long as the clock skew and    *)
(* the store delay together loses no change but one that a rough crawl     *)
(* passed by, for any of the three, any number of objects, writes, pages   *)
(* and failed pulls.                                                       *)
(***************************************************************************)
EXTENDS Resync, TLAPS

(* No pull is a query of the type every pull has. *)
LEMMA NoPullType ==
    ASSUME NEW t \in Nat
    PROVE  NoPull \in [from : Int, to : 0..t, open : BOOLEAN, there : SUBSET Change]
<1>1. 0 \in Int /\ 0 \in 0..t /\ FALSE \in BOOLEAN /\ {} \in SUBSET Change
  OBVIOUS
<1> QED
  BY <1>1 DEF NoPull

(* An empty server and an empty receiver. *)
LEMMA InitInv == Init => ResyncInv
<1> SUFFICES ASSUME Init PROVE ResyncInv
  OBVIOUS
<1>1. TypeOK
  <2>1. pull \in [from : Int, to : 0..now, open : BOOLEAN, there : SUBSET Change]
    BY NoPullType DEF Init
  <2>2. now \in Nat /\ count \in Nat /\ last_success \in 0..now
    BY DEF Init
  <2>3. pending \subseteq Change /\ visible \subseteq Change /\ fetched \subseteq Nat
    BY DEF Init
  <2>4. /\ running \in BOOLEAN /\ (running => pull.from = From)
        /\ paged \in BOOLEAN /\ smooth \in BOOLEAN
        /\ departed \in Nat /\ arrived \in Nat /\ passed \subseteq Nat
    BY DEF Init
  <2> QED
    BY <2>1, <2>2, <2>3, <2>4 DEF TypeOK
<1>2. PendingYoung /\ LateIsYoung /\ NothingSlips
  BY DEF Init, PendingYoung, LateIsYoung, NothingSlips
<1> QED
  BY <1>1, <1>2 DEF ResyncInv

(* The clock only waits for pending writes. *)
LEMMA InvTick == ResyncInv /\ Tick => ResyncInv'
<1> SUFFICES ASSUME ResyncInv, Tick PROVE ResyncInv'
  OBVIOUS
<1> USE ResyncAssumption
<1>1. TypeOK'
  BY DEF ResyncInv, Tick, TypeOK, NoPull, From, crawl
<1>2. PendingYoung'
  <2> SUFFICES ASSUME NEW c \in pending
               PROVE c.taken <= now + 1 /\ now + 1 <= c.taken + Delay /\ c.taken - Skew <= c.stamp
    BY DEF Tick, PendingYoung
  <2>1. c.taken \in Nat /\ c.stamp \in Int /\ now \in Nat
    BY DEF ResyncInv, TypeOK, Change
  <2>2. c.taken <= now /\ now < c.taken + Delay /\ c.taken - Skew <= c.stamp
    BY DEF ResyncInv, Tick, PendingYoung
  <2> QED
    BY <2>1, <2>2
<1>3. LateIsYoung' /\ NothingSlips'
  BY DEF ResyncInv, Tick, LateIsYoung, NothingSlips, From
<1> QED
  BY <1>1, <1>2, <1>3 DEF ResyncInv

(* A stamp is at most Skew behind the moment it is taken. *)
LEMMA InvWriteBegins ==
    ASSUME NEW o \in Objects, ResyncInv, WriteBegins(o) PROVE ResyncInv'
<1> USE ResyncAssumption
<1>1. PICK stamp \in (now - Skew)..(now + Skew) :
        pending' = pending \cup
            {[object |-> o, no |-> count + 1, stamp |-> stamp, taken |-> now]}
  BY DEF WriteBegins
<1> DEFINE w == [object |-> o, no |-> count + 1, stamp |-> stamp, taken |-> now]
<1>2. now \in Nat /\ count \in Nat
  BY DEF ResyncInv, TypeOK
<1>3. stamp \in Int /\ now - Skew <= stamp
  BY <1>2
<1>4. w \in Change
  BY <1>2, <1>3 DEF Change
<1>5. TypeOK'
  BY <1>1, <1>2, <1>4 DEF ResyncInv, WriteBegins, TypeOK, NoPull, From, crawl
<1>6. PendingYoung'
  <2>1. w.taken <= now /\ now <= w.taken + Delay /\ w.taken - Skew <= w.stamp
    BY <1>2, <1>3
  <2> QED
    BY <1>1, <2>1 DEF ResyncInv, WriteBegins, PendingYoung
<1>7. LateIsYoung' /\ NothingSlips'
  BY DEF ResyncInv, WriteBegins, LateIsYoung, NothingSlips, From
<1> QED
  BY <1>5, <1>6, <1>7 DEF ResyncInv

(* What is stored now was stamped at most Skew + Delay ago, and both the    *)
(* running pull and the last one were planned no later than now.           *)
LEMMA InvWriteStored ==
    ASSUME NEW c \in pending, ResyncInv, WriteStored(c) PROVE ResyncInv'
<1> USE ResyncAssumption, OverlapSuffices
<1>1. c \in Change /\ now \in Nat
  BY DEF ResyncInv, TypeOK
<1>2. c.taken \in Nat /\ c.stamp \in Int
  BY <1>1 DEF Change
<1>3. now <= c.taken + Delay /\ c.taken - Skew <= c.stamp
  BY DEF ResyncInv, PendingYoung
<1>4. now - Overlap <= c.stamp
  BY <1>1, <1>2, <1>3
<1>5. TypeOK'
  <2>1. departed' \in Nat /\ arrived' \in Nat
    BY DEF ResyncInv, WriteStored, TypeOK
  <2> QED
    BY <1>1, <2>1 DEF ResyncInv, WriteStored, TypeOK, NoPull, From
<1>6. PendingYoung'
  BY DEF ResyncInv, WriteStored, PendingYoung
<1>7. LateIsYoung'
  <2>1. running => pull.to \in 0..now
    BY DEF ResyncInv, TypeOK, NoPull
  <2>2. running => pull.to - Overlap <= c.stamp
    BY <1>1, <1>2, <1>4, <2>1
  <2> QED
    BY <2>2 DEF ResyncInv, WriteStored, LateIsYoung
<1>8. NothingSlips'
  <2>1. From <= c.stamp
    BY <1>1, <1>2, <1>4 DEF ResyncInv, TypeOK, From
  <2> QED
    BY <2>1 DEF ResyncInv, WriteStored, NothingSlips, From
<1> QED
  BY <1>5, <1>6, <1>7, <1>8 DEF ResyncInv

(* When a pull begins, nothing is late for it yet. *)
LEMMA InvPullBegins ==
    ASSUME NEW open \in BOOLEAN, ResyncInv, PullBegins(open) PROVE ResyncInv'
<1> USE ResyncAssumption
<1>1. TypeOK'
  BY DEF ResyncInv, PullBegins, TypeOK, NoPull, From, To, crawl
<1>2. PendingYoung' /\ LateIsYoung' /\ NothingSlips'
  BY DEF ResyncInv, PullBegins, PendingYoung, LateIsYoung, NothingSlips, From
<1> QED
  BY <1>1, <1>2 DEF ResyncInv

(* A page moves no clock and no window. *)
LEMMA InvPageArrives == ResyncInv /\ PageArrives => ResyncInv'
<1> SUFFICES ASSUME ResyncInv, PageArrives PROVE ResyncInv'
  OBVIOUS
<1>1. TypeOK'
  <2>1. smooth' \in BOOLEAN /\ departed' \in Nat /\ arrived' \in Nat /\ paged' \in BOOLEAN
    BY DEF ResyncInv, PageArrives, TypeOK
  <2> QED
    BY <2>1 DEF ResyncInv, PageArrives, TypeOK, From
<1>2. PendingYoung' /\ LateIsYoung' /\ NothingSlips'
  BY DEF ResyncInv, PageArrives, PendingYoung, LateIsYoung, NothingSlips, From
<1> QED
  BY <1>1, <1>2 DEF ResyncInv

(* A change the pull did not bring was stored after it began, or stamped    *)
(* after its window, or was brought by an earlier pull, or stood in the     *)
(* window of a rough crawl.                                                *)
LEMMA InvPullSucceeds ==
    ASSUME ResyncInv, PullSucceeds PROVE ResyncInv'
<1> USE ResyncAssumption
<1>1. PICK got \in SUBSET Possible :
        (smooth => Certain \subseteq got) /\ fetched' = fetched \cup {c.no : c \in got}
  BY DEF PullSucceeds
<1>0. passed' = IF smooth THEN passed ELSE passed \cup {c.no : c \in Certain}
  BY DEF PullSucceeds
<1>2. /\ running /\ pull.from = From /\ pull.to \in 0..now /\ now \in Nat
      /\ pull.open \in BOOLEAN /\ pull.there \subseteq Change
      /\ visible \subseteq Change /\ last_success \in 0..now
  BY DEF ResyncInv, TypeOK, NoPull, PullSucceeds, PullEnds
<1>3. last_success' = pull.to /\ pull' = NoPull /\ running' = FALSE
  BY DEF PullSucceeds, PullEnds
<1>4. UNCHANGED <<now, count, pending, visible>>
  BY DEF PullSucceeds, PullEnds
<1>5. TypeOK'
  <2>1. \A c \in got : c.no \in Nat
    BY <1>1, <1>2 DEF Possible, Change
  <2>2. fetched' \subseteq Nat
    BY <1>1, <2>1 DEF ResyncInv, TypeOK
  <2>3. pull' \in [from : Int, to : 0..now', open : BOOLEAN, there : SUBSET Change]
    BY <1>2, <1>3, <1>4, NoPullType
  <2>4. last_success' \in 0..now'
    BY <1>2, <1>3, <1>4
  <2>5. \A c \in Certain : c.no \in Nat
    BY <1>2 DEF Certain, Change
  <2>6. passed' \subseteq Nat
    BY <1>0, <2>5 DEF ResyncInv, TypeOK
  <2>7. paged' \in BOOLEAN /\ smooth' \in BOOLEAN /\ departed' \in Nat /\ arrived' \in Nat
    BY DEF PullSucceeds, PullEnds
  <2> QED
    BY <1>2, <1>3, <1>4, <2>2, <2>3, <2>4, <2>6, <2>7 DEF ResyncInv, TypeOK
<1>6. PendingYoung'
  BY <1>4 DEF ResyncInv, PendingYoung
<1>7. LateIsYoung'
  BY <1>3 DEF LateIsYoung, NoPull
<1>8. NothingSlips'
  <2> SUFFICES ASSUME NEW c \in visible, c.no \notin fetched' \cup passed' PROVE pull.to - Overlap <= c.stamp
    BY <1>3, <1>4 DEF NothingSlips, From
  <2>1. c.stamp \in Int
    BY <1>2 DEF Change
  <2>2. From <= c.stamp
    BY <1>0, <1>1 DEF ResyncInv, NothingSlips
  <2>3. CASE c \notin pull.there
    BY <2>3 DEF ResyncInv, LateIsYoung, PullSucceeds, PullEnds
  <2>4. CASE c \in pull.there
    <3>1. c \notin Certain
      BY <1>0, <1>1
    <3>2. ~pull.open /\ ~(c.stamp < pull.to)
      BY <1>2, <2>2, <2>4, <3>1 DEF Certain, Matches
    <3> QED
      BY <1>2, <2>1, <3>2
  <2> QED
    BY <2>3, <2>4
<1> QED
  BY <1>5, <1>6, <1>7, <1>8 DEF ResyncInv

(* A failed pull leaves no trace. *)
LEMMA InvPullFails == ResyncInv /\ PullFails => ResyncInv'
<1> SUFFICES ASSUME ResyncInv, PullFails PROVE ResyncInv'
  OBVIOUS
<1>1. TypeOK'
  <2>1. pull' \in [from : Int, to : 0..now', open : BOOLEAN, there : SUBSET Change]
    BY NoPullType DEF ResyncInv, TypeOK, PullFails, PullEnds
  <2> QED
    BY <2>1 DEF ResyncInv, TypeOK, PullFails, PullEnds
<1>2. PendingYoung' /\ LateIsYoung' /\ NothingSlips'
  BY DEF ResyncInv, PullFails, PullEnds, PendingYoung, LateIsYoung, NothingSlips, From
<1> QED
  BY <1>1, <1>2 DEF ResyncInv

(* Every step of the pulls and of the server keeps the invariant. *)
LEMMA InvNext == ResyncInv /\ [Next]_rvars => ResyncInv'
<1> SUFFICES ASSUME ResyncInv, [Next]_rvars PROVE ResyncInv'
  OBVIOUS
<1>1. CASE Tick
  BY <1>1, InvTick
<1>2. CASE Stores
  BY <1>2, InvWriteStored DEF Stores
<1>3. CASE Polls
  BY <1>3, InvPullBegins DEF Polls
<1>4. CASE PullSucceeds
  BY <1>4, InvPullSucceeds
<1>5. CASE PullFails
  BY <1>5, InvPullFails
<1>6. CASE \E o \in Objects : WriteBegins(o)
  BY <1>6, InvWriteBegins
<1>7. CASE UNCHANGED rvars
  BY <1>7 DEF rvars, crawl, ResyncInv, TypeOK, PendingYoung, LateIsYoung, NothingSlips, NoPull, From
<1>8. CASE PageArrives
  BY <1>8, InvPageArrives
<1> QED
  BY <1>1, <1>2, <1>3, <1>4, <1>5, <1>6, <1>7, <1>8 DEF Next

(* The inductive invariant of resync.rs holds in every behaviour. *)
THEOREM ResyncInvariance == Spec => []ResyncInv
<1>1. Init => ResyncInv
  BY InitInv
<1>2. ResyncInv /\ [Next]_rvars => ResyncInv'
  BY InvNext
<1> QED
  BY <1>1, <1>2, PTL DEF Spec

(* The clocks, windows and change sets of a resync keep their types. *)
THEOREM ResyncTypes == Spec => []TypeOK
<1>1. ResyncInv => TypeOK
  BY DEF ResyncInv
<1> QED
  BY <1>1, ResyncInvariance, PTL

(* As far as DEFAULT_OVERLAP's claim goes: whatever a pull misses, the next *)
(* one asks for, as long as skew and delay together stay within the         *)
(* overlap -- except what stood in the window of a crawl whose list moved   *)
(* too much between two pages, and which ended Ok all the same.             *)
THEOREM NoChangeIsLost == Spec => []NothingSlips
<1>1. ResyncInv => NothingSlips
  BY DEF ResyncInv
<1> QED
  BY <1>1, ResyncInvariance, PTL
===============================================================================
