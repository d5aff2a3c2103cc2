--------------------------- MODULE PageCrawlProofs ---------------------------
(***************************************************************************)
(* For every list, page size, budget and number of attempts: PageStream is *)
(* type correct, a crawl that ends uninterrupted has skipped nothing as    *)
(* long as the totals told the shifts, and PageCrawl implements CrawlSpec. *)
(***************************************************************************)
EXTENDS PageCrawl, FiniteSetTheorems, TLAPS

USE DEF None

(***************************************************************************)
(* Ranks in a finite set of versions.                                      *)
(***************************************************************************)

(* A rank is a natural number. *)
LEMMA RankNat ==
    ASSUME NEW W, IsFiniteSet(W), NEW o
    PROVE  Rank(W, o) \in Nat
<1>1. {w \in W : w < o} \in SUBSET W
  OBVIOUS
<1>2. IsFiniteSet({w \in W : w < o})
  BY <1>1, FS_Subset
<1> QED
  BY <1>2, FS_CardinalityType DEF Rank

(* A member's rank is below the size of the set. *)
LEMMA RankBelowSize ==
    ASSUME NEW W \in SUBSET Int, IsFiniteSet(W), NEW o \in W
    PROVE  Rank(W, o) < Cardinality(W)
<1> DEFINE B == {w \in W : w < o}
<1>1. B \in SUBSET W /\ B # W
  OBVIOUS
<1>2. /\ IsFiniteSet(B)
      /\ Cardinality(B) <= Cardinality(W)
      /\ Cardinality(B) # Cardinality(W)
  BY <1>1, FS_Subset
<1>3. Cardinality(B) \in Nat /\ Cardinality(W) \in Nat
  BY <1>2, FS_CardinalityType
<1> QED
  BY <1>2, <1>3 DEF Rank

(* Taking one version out lowers a rank by one at the most. *)
LEMMA RankAfterDeparture ==
    ASSUME NEW W, IsFiniteSet(W), NEW x, NEW o
    PROVE  /\ Rank(W \ {x}, o) <= Rank(W, o)
           /\ Rank(W, o) <= Rank(W \ {x}, o) + 1
<1> DEFINE B == {w \in W : w < o}
<1>1. {w \in W \ {x} : w < o} = B \ {x}
  OBVIOUS
<1>2. B \in SUBSET W
  OBVIOUS
<1>3. IsFiniteSet(B)
  BY <1>2, FS_Subset
<1>4. Cardinality(B) \in Nat
  BY <1>3, FS_CardinalityType
<1>5. Cardinality(B \ {x}) = IF x \in B THEN Cardinality(B) - 1 ELSE Cardinality(B)
  BY <1>3, FS_RemoveElement
<1> HIDE DEF B
<1>6. Cardinality(B \ {x}) <= Cardinality(B) /\ Cardinality(B) <= Cardinality(B \ {x}) + 1
  BY <1>4, <1>5
<1> QED
  BY <1>1, <1>6 DEF Rank, B

(* A newer version changes no older one's rank, and comes last. *)
LEMMA RankAfterArrival ==
    ASSUME NEW W \in SUBSET Int, NEW c \in Int, \A w \in W : w < c
    PROVE  /\ \A o \in W : Rank(W \cup {c}, o) = Rank(W, o)
           /\ Rank(W \cup {c}, c) = Cardinality(W)
<1>1. \A o \in W : {w \in W \cup {c} : w < o} = {w \in W : w < o}
  OBVIOUS
<1>2. {w \in W \cup {c} : w < c} = W
  <2>1. \A w \in W \cup {c} : w < c <=> w \in W
    BY SMT
  <2> QED
    BY <2>1, Zenon
<1> QED
  BY <1>1, <1>2 DEF Rank

(* What was a version stays one when the clock moves on. *)
LEMMA ClockGrows ==
    ASSUME NEW m \in Nat, NEW n \in Nat, 1 <= m, m <= n
    PROVE  /\ 1..(m - 1) \subseteq 1..(n - 1)
           /\ m..(n - 1) \subseteq 1..(n - 1)
           /\ 1..m \subseteq 1..n
OBVIOUS

(* The window is a finite set of integers in every state of the right type. *)
LEMMA WindowFinite ==
    ASSUME TypeOK
    PROVE  /\ IsFiniteSet(window) /\ window \in SUBSET Int
           /\ Total \in Nat
           /\ \A o : Rank(window, o) \in Nat
<1>1. window \in SUBSET (1..(clock - 1)) /\ clock \in Nat
  BY DEF TypeOK
<1>2. IsFiniteSet(1..(clock - 1))
  BY <1>1, FS_Interval
<1>3. IsFiniteSet(window)
  BY <1>1, <1>2, FS_Subset
<1> QED
  BY <1>1, <1>3, FS_CardinalityType, RankNat DEF Total

(***************************************************************************)
(* The invariant.                                                          *)
(***************************************************************************)

(* It holds when the stream is built. *)
LEMMA InvInit == Init => CrawlInv
<1> SUFFICES ASSUME Init PROVE CrawlInv
  OBVIOUS
<1> USE CrawlAssumption DEF Init
<1>1. TypeOK
  <2>1. window \subseteq 1..(clock - 1) /\ clock \in Nat /\ horizon \in 1..clock
    BY SMT
  <2>2. /\ next \in Nat \cup {None} /\ request \in Nat \cup {None}
        /\ last_total \in Nat \cup {None}
        /\ attempt \in 0..MaxAttempts /\ pages \in 0..MaxPages
    BY SMT
  <2> QED
    BY <2>1, <2>2 DEF TypeOK
<1>2. Total \in Nat /\ \A o : Rank(window, o) \in Nat
  BY <1>1, WindowFinite
<1>3. Covers(0)
  BY <1>2 DEF Covers
<1> QED
  BY <1>1, <1>3 DEF CrawlInv, OneCursor, Over, Remembers, CursorCovers, NothingLeft, EndIsEnd

(* What churn does to coverage: a departure costs one rank and one total,   *)
(* and is counted; an arrival sorts after everything.                      *)
LEMMA ChurnCovers ==
    ASSUME TypeOK, NEW u \in Nat, Covers(u), Churn
    PROVE  Covers(u)'
<1>1. /\ IsFiniteSet(window) /\ window \in SUBSET Int /\ Total \in Nat
      /\ \A o : Rank(window, o) \in Nat
  BY WindowFinite
<1>t. /\ clock \in Int /\ departed \in Nat
      /\ \A w \in window : w < clock
  BY DEF TypeOK
<1>2. CASE Arrive
  <2>1. window' = window \cup {clock} /\ departed' = departed /\ Held' = Held
    BY <1>2 DEF Arrive, Held, stream
  <2>2. Total' = Total + 1
    BY <1>1, <1>t, <2>1, FS_AddElement DEF Total
  <2>3. /\ \A o \in window : Rank(window', o) = Rank(window, o)
        /\ Rank(window', clock) = Total
    BY <1>1, <1>t, <2>1, RankAfterArrival DEF Total
  <2> QED
    BY <1>1, <1>t, <2>1, <2>2, <2>3 DEF Covers
<1>3. ASSUME NEW x \in window, Depart(x) PROVE Covers(u)'
  <2>1. window' = window \ {x} /\ departed' = departed + 1 /\ Held' = Held
    BY <1>3 DEF Depart, Held, stream
  <2>2. Total' = Total - 1
    BY <1>1, <2>1, FS_RemoveElement DEF Total
  <2>3. /\ IsFiniteSet(window')
        /\ \A o : Rank(window, o) <= Rank(window', o) + 1
    BY <1>1, <2>1, RankAfterDeparture, FS_RemoveElement
  <2>4. \A o : Rank(window', o) \in Nat
    BY <2>3, RankNat
  <2>5. u <= Total' + departed'
    BY <1>1, <1>t, <2>1, <2>2 DEF Covers
  <2>6. ASSUME NEW o \in window', o \notin Held'
        PROVE  u <= Rank(window', o) + departed'
    <3>1. o \in window /\ o \notin Held
      BY <2>1, <2>6
    <3>2. u <= Rank(window, o) + departed
      BY <3>1 DEF Covers
    <3> QED
      BY <1>1, <1>t, <2>1, <2>3, <2>4, <3>2
  <2> QED
    BY <2>5, <2>6 DEF Covers
<1>4. ASSUME NEW x \in window, Update(x) PROVE Covers(u)'
  <2> DEFINE V == window \ {x}
  <2>1. /\ window' = V \cup {clock} /\ departed' = departed + 1 /\ Held' = Held
    BY <1>4 DEF Update, Held, stream
  <2>2. /\ IsFiniteSet(V) /\ V \in SUBSET Int /\ \A w \in V : w < clock
        /\ Cardinality(V) = Total - 1
        /\ \A o : Rank(window, o) <= Rank(V, o) + 1
    BY <1>1, <1>t, RankAfterDeparture, FS_RemoveElement DEF Total
  <2>3. \A o : Rank(V, o) \in Nat
    BY <2>2, RankNat
  <2>4. Total' = Total
    <3>1. clock \notin V
      BY <1>t, <2>2
    <3>2. Cardinality(V \cup {clock}) = Cardinality(V) + 1
      BY <2>2, <3>1, FS_AddElement, Zenon
    <3>3. Total' = Cardinality(V \cup {clock})
      BY <2>1 DEF Total
    <3> HIDE DEF V
    <3> QED
      BY <1>1, <2>2, <3>2, <3>3
  <2>5. /\ \A o \in V : Rank(window', o) = Rank(V, o)
        /\ Rank(window', clock) = Total - 1
    BY <1>t, <2>1, <2>2, RankAfterArrival
  <2>6. \A o \in window' : o \in V \/ o = clock
    BY <2>1
  <2>7. V \subseteq window
    OBVIOUS
  <2> HIDE DEF V
  <2> QED
    BY <1>1, <1>t, <2>1, <2>2, <2>3, <2>4, <2>5, <2>6, <2>7 DEF Covers
<1> QED
  BY <1>2, <1>3, <1>4 DEF Churn

(* The invariant survives any change of the server's list. *)
LEMMA InvChurn == CrawlInv /\ Churn => CrawlInv'
<1> SUFFICES ASSUME CrawlInv, Churn PROVE CrawlInv'
  OBVIOUS
<1> USE DEF CrawlInv
<1>1. /\ IsFiniteSet(window) /\ window \in SUBSET Int /\ Total \in Nat
  BY WindowFinite
<1> DEFINE Effect ==
      /\ UNCHANGED <<stream, request, attempt, seen, outcome, delivered, interrupted,
                     smooth, horizon, looped>>
      /\ clock' \in {clock, clock + 1}
      /\ window' \subseteq window \cup (clock..(clock' - 1))
      /\ departed' \in Nat /\ arrived' \in Nat
      /\ Total' + departed' - arrived' = Total + departed - arrived
<1>2. Effect
  <2> USE DEF TypeOK
  <2>1. CASE Arrive
    <3>1. window' = window \cup {clock} /\ clock \notin window
      BY <2>1 DEF Arrive
    <3>2. Total' = Total + 1
      BY <1>1, <3>1, FS_AddElement DEF Total
    <3> QED
      BY <1>1, <2>1, <3>2 DEF Arrive
  <2>2. ASSUME NEW x \in window, Depart(x)
        PROVE  Effect
    <3>1. Total' = Total - 1
      BY <1>1, <2>2, FS_RemoveElement DEF Total, Depart
    <3> QED
      BY <1>1, <2>2, <3>1 DEF Depart
  <2>3. ASSUME NEW x \in window, Update(x)
        PROVE  Effect
    <3> DEFINE V == window \ {x}
    <3>1. IsFiniteSet(V) /\ Cardinality(V) = Total - 1 /\ clock \notin V
      BY <1>1, FS_RemoveElement DEF Total
    <3>2. Cardinality(V \cup {clock}) = Cardinality(V) + 1
      BY <3>1, FS_AddElement, Zenon
    <3>3. Total' = Total
      BY <1>1, <2>3, <3>1, <3>2 DEF Total, Update
    <3> QED
      BY <1>1, <2>3, <3>3 DEF Update
  <2> QED
    BY <2>1, <2>2, <2>3 DEF Churn
<1> HIDE DEF Effect
<1>c. /\ window \subseteq 1..(clock - 1) /\ buffer \subseteq 1..(clock - 1)
      /\ delivered \subseteq 1..(clock - 1) /\ clock \in Nat /\ horizon \in 1..clock
      /\ clock > InitialCount
  BY DEF TypeOK
<1>d. /\ \A o \in window' : o \in window \/ o \in clock..(clock' - 1)
      /\ clock' \in {clock, clock + 1}
  BY <1>2 DEF Effect
<1>e. clock' \in Nat /\ clock <= clock' /\ 1 <= clock
  BY <1>c, <1>d, CrawlAssumption
<1>a. \A o \in window' : o < horizon => o \in window
  BY <1>c, <1>d, <1>e
<1>b. /\ window' \subseteq 1..(clock' - 1) /\ buffer \subseteq 1..(clock' - 1)
      /\ delivered \subseteq 1..(clock' - 1) /\ horizon \in 1..clock'
  <2>1. /\ 1..(clock - 1) \subseteq 1..(clock' - 1)
        /\ clock..(clock' - 1) \subseteq 1..(clock' - 1)
        /\ 1..clock \subseteq 1..clock'
    BY <1>c, <1>e, ClockGrows
  <2> HIDE DEF CrawlInv
  <2> QED
    BY <1>c, <1>d, <2>1, Zenon
<1> USE DEF Effect
<1>3. TypeOK'
  BY <1>2, <1>b, <1>e DEF TypeOK, stream
<1>4. CursorCovers'
  <2>1. ASSUME NEW u \in Nat, Covers(u) PROVE Covers(u)'
    BY <2>1, ChurnCovers
  <2> QED
    BY <1>2, <2>1 DEF CursorCovers, TypeOK, stream
<1>5. NothingLeft'
  <2>1. \A o \in window' : o < horizon => o \in window
    BY <1>a
  <2> QED
    BY <1>2, <2>1 DEF NothingLeft, stream, Held
<1>6. clock' > InitialCount /\ horizon' > InitialCount /\ OneCursor' /\ Over' /\ EndIsEnd'
  BY <1>2, CrawlAssumption DEF TypeOK, stream, OneCursor, Over, EndIsEnd
<1>7. Remembers'
  BY <1>1, <1>2 DEF Remembers, stream, TypeOK
<1> QED
  BY <1>3, <1>4, <1>5, <1>6, <1>7

(***************************************************************************)
(* Steps that leave the list alone.                                        *)
(***************************************************************************)

(* Coverage only depends on the list, the gap and what is held. *)
LEMMA QuietCovers ==
    ASSUME NEW u, Covers(u), UNCHANGED <<server, departed>>, Held' = Held
    PROVE  Covers(u)'
BY DEF Covers, server, Total

(* Handing out the front of the buffer moves it from one side of Held to    *)
(* the other.                                                              *)
LEMMA InvItem == CrawlInv /\ NextItem => CrawlInv'
<1> SUFFICES ASSUME CrawlInv, NextItem PROVE CrawlInv'
  OBVIOUS
<1> USE DEF CrawlInv
<1>1. /\ buffer # {} /\ Held' = Held /\ buffer' \subseteq buffer
      /\ delivered' \subseteq Held
      /\ outcome' = "item" /\ seen' = seen + 1 /\ request = None
      /\ UNCHANGED <<server, next, last_total, pages, corrections, request, attempt,
                     interrupted, history>>
  BY DEF NextItem, Held, Idle
<1>2. TypeOK'
  BY <1>1 DEF TypeOK, server, history, Held
<1>3. CursorCovers'
  <2>1. ASSUME NEW u, Covers(u) PROVE Covers(u)'
    BY <1>1, <2>1, QuietCovers DEF history
  <2> QED
    BY <1>1, <2>1 DEF CursorCovers, history
<1>4. NothingLeft'
  BY <1>1 DEF NothingLeft, server, history
<1>5. OneCursor' /\ Over' /\ EndIsEnd'
  BY <1>1 DEF OneCursor, Over, EndIsEnd
<1>6. Remembers'
  BY <1>1 DEF Remembers, server, history, Total
<1> QED
  BY <1>1, <1>2, <1>3, <1>4, <1>5, <1>6 DEF server, history

(* The calls that find the buffer dry: the end, the spent budget, a GET. *)
LEMMA InvDry == CrawlInv /\ (NextEnd \/ NextTooMany \/ NextFetch) => CrawlInv'
<1> SUFFICES ASSUME CrawlInv, NextEnd \/ NextTooMany \/ NextFetch PROVE CrawlInv'
  OBVIOUS
<1> USE DEF CrawlInv
<1>1. /\ UNCHANGED <<server, buffer, last_total, pages, corrections, seen, delivered, history>>
      /\ Held' = Held /\ request = None /\ buffer = {}
  BY DEF NextEnd, NextTooMany, NextFetch, Held, stream, Idle
<1>2. TypeOK'
  <2> USE DEF TypeOK, server, history
  <2>1. CASE NextEnd
    BY <1>1, <2>1 DEF NextEnd, stream
  <2>2. CASE NextTooMany
    BY <1>1, <2>2 DEF NextTooMany
  <2>3. CASE NextFetch
    <3>1. next \in Nat /\ 1 \in 0..MaxAttempts
      BY <2>3, CrawlAssumption DEF NextFetch
    <3> QED
      BY <1>1, <2>3, <3>1 DEF NextFetch
  <2> QED
    BY <2>1, <2>2, <2>3
<1>3. CursorCovers'
  <2>1. ASSUME NEW u, Covers(u) PROVE Covers(u)'
    BY <1>1, <2>1, QuietCovers DEF history
  <2>3. CASE NextFetch
    BY <1>1, <2>3 DEF CursorCovers, NextFetch, history, Covers, Total, server
  <2>4. CASE NextEnd \/ NextTooMany
    BY <1>1, <2>4 DEF CursorCovers, NextEnd, NextTooMany, history, stream
  <2> QED
    BY <2>3, <2>4
<1>4. NothingLeft'
  BY <1>1 DEF NothingLeft, NextEnd, NextTooMany, NextFetch, server, history, stream
<1>5. OneCursor' /\ Over' /\ EndIsEnd'
  BY <1>1 DEF OneCursor, Over, EndIsEnd, NextEnd, NextTooMany, NextFetch, Idle, stream
<1>6. Remembers'
  BY <1>1 DEF Remembers, NextEnd, NextTooMany, NextFetch, server, history, stream, Total
<1> QED
  BY <1>1, <1>2, <1>3, <1>4, <1>5, <1>6 DEF server, history

(* A GET that is retried, or that ends without a page. *)
LEMMA InvNoPage == CrawlInv /\ (Retry \/ FetchFails \/ Dropped) => CrawlInv'
<1> SUFFICES ASSUME CrawlInv, Retry \/ FetchFails \/ Dropped PROVE CrawlInv'
  OBVIOUS
<1> USE DEF CrawlInv
<1>1. /\ UNCHANGED <<server, stream, seen, delivered, history>>
      /\ Held' = Held /\ request # None
      /\ \/ request' = request /\ UNCHANGED <<outcome, interrupted>>
         \/ request' = None /\ interrupted'
  BY DEF Retry, FetchFails, Dropped, Held, stream
<1>2. TypeOK'
  <2>1. attempt' \in 0..MaxAttempts
    BY CrawlAssumption DEF TypeOK, Retry, FetchFails, Dropped
  <2>2. outcome' \in {outcome, "error"} /\ interrupted' \in BOOLEAN
    BY DEF TypeOK, Retry, FetchFails, Dropped
  <2> QED
    BY <1>1, <2>1, <2>2 DEF TypeOK, server, history, stream
<1>3. CursorCovers'
  <2>1. ASSUME NEW u, Covers(u) PROVE Covers(u)'
    BY <1>1, <2>1, QuietCovers DEF history
  <2> QED
    BY <1>1, <2>1 DEF CursorCovers, history, stream
<1>4. NothingLeft'
  BY <1>1 DEF NothingLeft
<1>5. OneCursor' /\ Over' /\ EndIsEnd'
  BY <1>1 DEF OneCursor, Over, EndIsEnd, Retry, FetchFails, Dropped, stream
<1>6. Remembers'
  BY <1>1 DEF Remembers, server, history, stream, Total
<1> QED
  BY <1>1, <1>2, <1>3, <1>4, <1>5, <1>6 DEF server, history

(***************************************************************************)
(* Steps that take in a page.                                              *)
(***************************************************************************)

(* What any page tells: the GET was covered, and a gap the totals can be    *)
(* followed over shifted nothing, unless the crawl is about to rewind.     *)
LEMMA PageCovers ==
    ASSUME CrawlInv, PageArrives, smooth'
    PROVE  /\ request <= Total + departed
           /\ \A o \in window : o \notin Held => request <= Rank(window, o) + departed
           /\ \/ departed = 0
              \/ request = 0
              \/ departed = 1 /\ Shrunk(last_total, Total, request)
<1> USE DEF CrawlInv
<1>1. smooth /\ request # None /\ Followable(request)
  BY DEF PageArrives, TypeOK
<1>2. Covers(request)
  BY <1>1 DEF CursorCovers
<1>3. Total \in Nat /\ request \in Nat /\ departed \in Nat /\ arrived \in Nat
  BY <1>1, WindowFinite DEF TypeOK
<1>4. ASSUME departed = 1, arrived = 0, request # 0
      PROVE  Shrunk(last_total, Total, request)
  BY <1>1, <1>3, <1>4 DEF Remembers, Shrunk
<1> QED
  BY <1>1, <1>2, <1>3, <1>4 DEF Covers, Followable

(* The frame every page shares. *)
LEMMA PageTypes ==
    ASSUME CrawlInv, PageArrives
    PROVE  /\ Total' = Total /\ window' = window /\ Total \in Nat /\ request \in Nat
           /\ \A o : Rank(window, o) \in Nat
           /\ request' = None /\ attempt' \in 0..MaxAttempts
           /\ pages' \in 0..MaxPages /\ last_total' \in Nat
           /\ smooth' \in BOOLEAN /\ departed' = 0 /\ arrived' = 0
           /\ horizon' = clock /\ clock \in 1..clock /\ ~interrupted'
           /\ last_total' = Total' + departed' - arrived'
           /\ outcome' # "end"
<1> USE DEF CrawlInv
<1>1. Total \in Nat /\ \A o : Rank(window, o) \in Nat
  BY WindowFinite
<1>2. window' = window /\ Total' = Total
  BY DEF PageArrives, server, Total
<1>3. attempt' \in 0..MaxAttempts /\ pages' \in 0..MaxPages
  BY CrawlAssumption DEF PageArrives, TypeOK, OneCursor
<1>4. request \in Nat /\ clock \in 1..clock
  BY CrawlAssumption DEF PageArrives, TypeOK
<1> QED
  BY <1>1, <1>2, <1>3, <1>4 DEF PageArrives, TypeOK, OneCursor, EndIsEnd

(* A rewind by one object makes up for the one departure it detected. *)
LEMMA InvRewinds == CrawlInv /\ FetchRewinds => CrawlInv'
<1> SUFFICES ASSUME CrawlInv, FetchRewinds PROVE CrawlInv'
  OBVIOUS
<1>1. PageArrives
  BY DEF FetchRewinds
<1>2. /\ Total' = Total /\ window' = window /\ Total \in Nat /\ request \in Nat
      /\ \A o : Rank(window, o) \in Nat
      /\ request' = None /\ attempt' \in 0..MaxAttempts
      /\ pages' \in 0..MaxPages /\ last_total' \in Nat
      /\ smooth' \in BOOLEAN /\ departed' = 0 /\ arrived' = 0
      /\ horizon' = clock /\ clock \in 1..clock /\ ~interrupted'
      /\ last_total' = Total' + departed' - arrived'
      /\ outcome' # "end"
  BY <1>1, PageTypes
<1>3. /\ UNCHANGED <<window, clock, buffer, seen, outcome, delivered, interrupted, looped>>
      /\ next' = request - 1 /\ next' \in Nat /\ corrections' = corrections + 1
      /\ Held' = Held
  BY <1>1, <1>2 DEF FetchRewinds, PageArrives, server, Shrunk, Held
<1>4. TypeOK'
  BY <1>2, <1>3 DEF CrawlInv, TypeOK
<1>5. CursorCovers'
  <2>1. SUFFICES ASSUME smooth' PROVE Covers(next)'
    BY <1>2 DEF CursorCovers
  <2>2. departed \in Nat
    BY DEF CrawlInv, TypeOK
  <2>3. /\ request <= Total + departed
        /\ \A o \in window : o \notin Held => request <= Rank(window, o) + departed
        /\ departed <= 1
    BY <1>1, <1>2, <1>3, <2>1, <2>2, PageCovers DEF FetchRewinds, Shrunk
  <2>4. next' <= Total' + departed'
    BY <1>2, <1>3, <2>2, <2>3
  <2>5. ASSUME NEW o \in window, o \notin Held PROVE next' <= Rank(window, o)
    BY <1>2, <1>3, <2>2, <2>3, <2>5
  <2> QED
    BY <1>2, <1>3, <2>4, <2>5 DEF Covers
<1>6. NothingLeft' /\ OneCursor' /\ Over' /\ EndIsEnd' /\ Remembers'
  BY <1>2, <1>3 DEF NothingLeft, OneCursor, Over, EndIsEnd, Remembers
<1> QED
  BY <1>2, <1>3, <1>4, <1>5, <1>6 DEF CrawlInv

(* A page that is kept takes every uncovered object up to its end, and the  *)
(* link continues at or before that end.                                   *)
LEMMA InvContinues == CrawlInv /\ FetchContinues => CrawlInv'
<1> SUFFICES ASSUME CrawlInv, FetchContinues PROVE CrawlInv'
  OBVIOUS
<1>1. PageArrives
  BY DEF FetchContinues
<1>2. /\ Total' = Total /\ window' = window /\ Total \in Nat /\ request \in Nat
      /\ \A o : Rank(window, o) \in Nat
      /\ request' = None /\ attempt' \in 0..MaxAttempts
      /\ pages' \in 0..MaxPages /\ last_total' \in Nat
      /\ smooth' \in BOOLEAN /\ departed' = 0 /\ arrived' = 0
      /\ horizon' = clock /\ clock \in 1..clock /\ ~interrupted'
      /\ last_total' = Total' + departed' - arrived'
      /\ outcome' # "end"
  BY <1>1, PageTypes
<1>3. /\ UNCHANGED <<window, clock, corrections, seen, outcome, delivered, interrupted>>
      /\ buffer' = buffer \cup PageItems(request)
      /\ next' \in PageLinks(request)
      /\ ~Shrunk(last_total, Total, request)
  BY <1>1 DEF FetchContinues, PageArrives, server
<1>4. /\ Limit \in Nat /\ Limit > 0
      /\ PageEnd(request) \in Nat
      /\ next' \in {None, request, PageEnd(request)}
      /\ next' = PageEnd(request) => next' \in {request, request + Limit} /\ (next' = request \/ next' < Total)
      /\ next' = None => Total <= request + Limit
  BY <1>2, <1>3, CrawlAssumption DEF PageLinks, PageEnd
<1>5. TypeOK'
  <2>1. PageItems(request) \subseteq window
    BY DEF PageItems
  <2>2. looped' \in Nat
    BY <1>4 DEF CrawlInv, TypeOK, FetchContinues
  <2> QED
    BY <1>2, <1>3, <1>4, <2>1, <2>2 DEF CrawlInv, TypeOK
<1>6. /\ \A o \in window : o \in PageItems(request) \/ Rank(window, o) < request
                             \/ request + Limit <= Rank(window, o)
      /\ Held' = Held \cup PageItems(request)
  BY <1>2, <1>3, <1>4 DEF PageItems, Held
<1>7. ASSUME smooth'
      PROVE  /\ request <= Total
             /\ \A o \in window : o \notin Held => request <= Rank(window, o)
  <2>1. /\ request <= Total + departed
        /\ \A o \in window : o \notin Held => request <= Rank(window, o) + departed
        /\ departed = 0 \/ request = 0
    BY <1>1, <1>3, <1>7, PageCovers
  <2> QED
    BY <1>2, <2>1
<1>8. ASSUME smooth', NEW o \in window, o \notin Held'
      PROVE  request + Limit <= Rank(window, o)
  <2>1. o \notin Held /\ o \notin PageItems(request)
    BY <1>6, <1>8
  <2>2. request <= Rank(window, o)
    BY <1>7, <1>8, <2>1
  <2> QED
    BY <1>2, <1>6, <2>1, <2>2
<1>9. CursorCovers'
  <2>1. SUFFICES ASSUME smooth', next' # None PROVE Covers(next)'
    BY <1>2 DEF CursorCovers
  <2>2. next' <= Total
    BY <1>2, <1>4, <1>7, <2>1
  <2>3. ASSUME NEW o \in window, o \notin Held' PROVE next' <= Rank(window, o)
    BY <1>2, <1>4, <1>8, <2>1, <2>3
  <2> QED
    BY <1>2, <2>2, <2>3 DEF Covers
<1>10. NothingLeft'
  <2>1. SUFFICES ASSUME smooth', next' = None, NEW o \in window PROVE o \in Held'
    BY <1>2 DEF NothingLeft
  <2>2. Rank(window, o) < Total
    BY WindowFinite, RankBelowSize DEF CrawlInv, Total
  <2> QED
    BY <1>2, <1>4, <1>8, <2>1, <2>2
<1>11. OneCursor' /\ Over' /\ EndIsEnd' /\ Remembers'
  BY <1>2 DEF OneCursor, Over, EndIsEnd, Remembers
<1> QED
  BY <1>2, <1>3, <1>5, <1>9, <1>10, <1>11 DEF CrawlInv

(***************************************************************************)
(* The theorems.                                                           *)
(***************************************************************************)

(* Every step of the specification keeps the invariant. *)
LEMMA InvNext == CrawlInv /\ [Next]_vars => CrawlInv'
<1>1. CrawlInv /\ Next => CrawlInv'
  BY InvChurn, InvItem, InvDry, InvNoPage, InvRewinds, InvContinues
     DEF Next, Caller, Answer
<1>2. CrawlInv /\ UNCHANGED vars => CrawlInv'
  BY DEF vars, server, stream, history, CrawlInv, TypeOK, OneCursor, Over, Remembers,
         CursorCovers, Covers, NothingLeft, EndIsEnd, Held, Total
<1> QED
  BY <1>1, <1>2

(* The invariant, and with it type correctness, of paging.rs. *)
THEOREM CrawlInvariance == Spec => []CrawlInv
BY InvInit, InvNext, PTL DEF Spec

(* Every field of the stream keeps its type, whatever the page budget and    *)
(* the sizes of the lists.                                                  *)
THEOREM TypeCorrectness == Spec => []TypeOK
<1>1. CrawlInv => TypeOK
  BY DEF CrawlInv
<1> QED
  BY <1>1, CrawlInvariance, PTL

(* A crawl that reached its end uninterrupted, over a list whose shifts the *)
(* totals told, skipped nothing: for any list, page size and churn.        *)
THEOREM Completeness == Spec => []CrawlComplete
<1>1. CrawlInv => CrawlComplete
  BY DEF CrawlInv, CrawlComplete, EndIsEnd, NothingLeft, Held
<1> QED
  BY <1>1, CrawlInvariance, PTL

(***************************************************************************)
(* What is yielded twice.                                                  *)
(***************************************************************************)

(* Two versions of a window have different ranks, the newer the higher.     *)
LEMMA RanksDiffer ==
    ASSUME NEW W \in SUBSET Int, IsFiniteSet(W), NEW a \in W, NEW b \in W, a < b
    PROVE  Rank(W, a) < Rank(W, b)
<1> DEFINE A == {w \in W : w < a}
           B == {w \in W : w < b}
<1>1. A \in SUBSET B /\ a \in B /\ a \notin A
  <2>1. \A w \in W : w < a => w < b
    OBVIOUS
  <2>2. ~(a < a)
    OBVIOUS
  <2> QED
    BY <2>1, <2>2
<1>2. IsFiniteSet(B)
  BY FS_Subset
<1>3. IsFiniteSet(A) /\ Cardinality(A) <= Cardinality(B) /\ Cardinality(A) # Cardinality(B)
  <2> HIDE DEF A, B
  <2> QED
    BY <1>1, <1>2, FS_Subset
<1>4. Cardinality(A) \in Nat /\ Cardinality(B) \in Nat
  BY <1>2, <1>3, FS_CardinalityType
<1> QED
  BY <1>3, <1>4 DEF Rank

(* No more objects have ranks from m on, but below m + n, than n.           *)
LEMMA FewOfRanks ==
    ASSUME NEW W \in SUBSET Int, IsFiniteSet(W), NEW m \in Int, NEW n \in Nat
    PROVE  LET S == {o \in W : m <= Rank(W, o) /\ Rank(W, o) < m + n}
           IN  IsFiniteSet(S) /\ Cardinality(S) <= n
<1> DEFINE S == {o \in W : m <= Rank(W, o) /\ Rank(W, o) < m + n}
           T == m..(m + n - 1)
           f == [o \in S |-> Rank(W, o)]
<1>1. IsFiniteSet(S)
  BY FS_Subset
<1>2. IsFiniteSet(T) /\ Cardinality(T) = n
  BY FS_Interval
<1>3. f \in [S -> T]
  BY RankNat
<1>4. \A x, y \in S : x # y => f[x] # f[y]
  <2> SUFFICES ASSUME NEW x \in S, NEW y \in S, x < y PROVE Rank(W, x) # Rank(W, y)
    OBVIOUS
  <2> QED
    BY RanksDiffer, RankNat
<1>5. Cardinality(S) \in Nat
  BY <1>1, FS_CardinalityType
<1> HIDE DEF S, T, f
<1>6. ~(Cardinality(T) < Cardinality(S))
  BY <1>1, <1>2, <1>3, <1>4, FS_PigeonHole
<1> QED
  BY <1>1, <1>2, <1>5, <1>6 DEF S

(* Where the stream goes on: OneCursor has only one of the two be there.    *)
Cursor == IF next # None THEN next ELSE request

(* What it holds already and will be served again, and what of its buffer   *)
(* it has handed out before.                                               *)
Ahead == {o \in window \cap Held : Cursor # None /\ Cursor <= Rank(window, o)}
Again == buffer \cap delivered

(* Everything yielded twice, or still to be, has been paid for.             *)
RepeatInv ==
    seen + Cardinality(Again) + Cardinality(Ahead)
        <= Cardinality(delivered) + corrections + looped

(* What is counted is finite. *)
LEMMA CountsAre ==
    ASSUME TypeOK
    PROVE  /\ IsFiniteSet(Again) /\ IsFiniteSet(Ahead) /\ IsFiniteSet(delivered)
           /\ IsFiniteSet(buffer)
           /\ Cardinality(Again) \in Nat /\ Cardinality(Ahead) \in Nat
           /\ Cardinality(delivered) \in Nat
           /\ seen \in Nat /\ corrections \in Nat /\ looped \in Nat
<1>1. IsFiniteSet(1..(clock - 1)) /\ IsFiniteSet(window)
  BY WindowFinite, FS_Interval DEF TypeOK
<1>2. IsFiniteSet(delivered) /\ IsFiniteSet(buffer)
  BY <1>1, FS_Subset DEF TypeOK
<1>3. IsFiniteSet(Again) /\ IsFiniteSet(Ahead)
  BY <1>1, <1>2, FS_Subset DEF Again, Ahead
<1> QED
  BY <1>2, <1>3, FS_CardinalityType DEF TypeOK

(* Steps after which nothing more is to be served again. *)
LEMMA RepeatsFewer ==
    ASSUME TypeOK, RepeatInv, Ahead' \in SUBSET Ahead,
           UNCHANGED <<seen, buffer, delivered, corrections, looped>>
    PROVE  RepeatInv'
<1>1. IsFiniteSet(Ahead') /\ Cardinality(Ahead') <= Cardinality(Ahead)
  BY CountsAre, FS_Subset
<1>2. Cardinality(Ahead') \in Nat
  BY <1>1, FS_CardinalityType
<1>3. Cardinality(Again') = Cardinality(Again) /\ Cardinality(delivered') = Cardinality(delivered)
  BY DEF Again
<1> QED
  BY <1>1, <1>2, <1>3, CountsAre DEF RepeatInv

LEMMA RepeatsInit == Init => RepeatInv
<1> SUFFICES ASSUME Init PROVE RepeatInv
  OBVIOUS
<1>1. Again = {} /\ Ahead = {} /\ delivered = {} /\ seen = 0 /\ corrections = 0 /\ looped = 0
  BY DEF Init, Again, Ahead, Held
<1> QED
  BY <1>1, FS_EmptySet DEF RepeatInv

(* Churn only moves objects to lower ranks, and what it adds is not held.   *)
LEMMA RepeatsChurn ==
    ASSUME CrawlInv, RepeatInv, Churn
    PROVE  RepeatInv'
<1> USE DEF CrawlInv
<1>1. /\ IsFiniteSet(window) /\ window \in SUBSET Int
      /\ \A o : Rank(window, o) \in Nat
      /\ clock \in Int /\ \A w \in window : w < clock
      /\ \A o \in Held : o \in 1..(clock - 1)
  BY WindowFinite DEF TypeOK, Held
<1>2. /\ UNCHANGED <<next, request, buffer, delivered, seen, corrections, looped>>
      /\ Cursor' = Cursor /\ Held' = Held
  BY DEF Churn, Arrive, Depart, Update, stream, Cursor, Held
<1>3. Cursor \in Int
  BY DEF Cursor, TypeOK
<1>4. ASSUME NEW o \in window', o \in Held
      PROVE  o \in window /\ Rank(window', o) <= Rank(window, o) /\ Rank(window', o) \in Nat
  <2>1. o # clock
    BY <1>1, <1>4
  <2>2. CASE Arrive
    <3>1. window' = window \cup {clock} /\ o \in window
      BY <1>4, <2>1, <2>2 DEF Arrive
    <3>2. Rank(window \cup {clock}, o) = Rank(window, o)
      BY <1>1, <3>1, RankAfterArrival
    <3>3. Rank(window', o) = Rank(window, o) /\ Rank(window, o) \in Nat
      BY <1>1, <3>1, <3>2
    <3> QED
      BY <3>1, <3>3
  <2>3. ASSUME NEW x \in window, Depart(x)
        PROVE  o \in window /\ Rank(window', o) <= Rank(window, o) /\ Rank(window', o) \in Nat
    <3>1. window' = window \ {x} /\ o \in window
      BY <1>4, <2>3 DEF Depart
    <3>2. IsFiniteSet(window')
      BY <1>1, <3>1, FS_RemoveElement
    <3>3. Rank(window', o) <= Rank(window, o)
      BY <1>1, <3>1, RankAfterDeparture
    <3>4. Rank(window', o) \in Nat
      BY <3>2, RankNat
    <3> QED
      BY <3>1, <3>3, <3>4
  <2>4. ASSUME NEW x \in window, Update(x)
        PROVE  o \in window /\ Rank(window', o) <= Rank(window, o) /\ Rank(window', o) \in Nat
    <3> DEFINE V == window \ {x}
    <3>1. window' = V \cup {clock} /\ o \in V
      BY <1>4, <2>1, <2>4 DEF Update
    <3>2. IsFiniteSet(V) /\ V \in SUBSET Int /\ \A w \in V : w < clock
      BY <1>1, FS_RemoveElement
    <3>3. Rank(V, o) <= Rank(window, o) /\ Rank(V, o) \in Nat
      BY <1>1, <3>2, RankAfterDeparture, RankNat
    <3>4. o \in window
      BY <3>1
    <3> HIDE DEF V
    <3>5. Rank(V \cup {clock}, o) = Rank(V, o)
      BY <1>1, <3>1, <3>2, RankAfterArrival
    <3> QED
      BY <3>1, <3>3, <3>4, <3>5
  <2> QED
    BY <2>2, <2>3, <2>4 DEF Churn
<1>5. Ahead' \in SUBSET Ahead
  BY <1>1, <1>2, <1>3, <1>4 DEF Ahead
<1> QED
  BY <1>2, <1>5, RepeatsFewer

(* An object of the buffer that had been handed out before was counted so.  *)
LEMMA RepeatsItem ==
    ASSUME CrawlInv, RepeatInv, NextItem
    PROVE  RepeatInv'
<1> USE DEF CrawlInv
<1>1. PICK o \in buffer : buffer' = buffer \ {o} /\ delivered' = delivered \cup {o}
  BY DEF NextItem
<1>2. /\ UNCHANGED <<window, next, request, corrections, looped>> /\ seen' = seen + 1
  BY DEF NextItem, server, history
<1>3. Ahead' = Ahead
  BY <1>1, <1>2 DEF Ahead, Cursor, Held
<1>4. /\ Cardinality(Again') = IF o \in delivered THEN Cardinality(Again) - 1 ELSE Cardinality(Again)
      /\ Cardinality(delivered') =
            IF o \in delivered THEN Cardinality(delivered) ELSE Cardinality(delivered) + 1
  <2>1. Again' = Again \ {o} /\ (o \in Again <=> o \in delivered)
    BY <1>1 DEF Again
  <2> QED
    BY <1>1, <2>1, CountsAre, FS_AddElement, FS_RemoveElement
<1> QED
  BY <1>2, <1>3, <1>4, CountsAre DEF RepeatInv

(* A link that is taken becomes the request; what is lost serves nothing.   *)
LEMMA RepeatsQuiet ==
    ASSUME CrawlInv, RepeatInv,
           NextEnd \/ NextTooMany \/ NextFetch \/ Retry \/ FetchFails \/ Dropped
    PROVE  RepeatInv'
<1> USE DEF CrawlInv
<1>1. UNCHANGED <<window, buffer, delivered, seen, corrections, looped>>
  BY DEF NextEnd, NextTooMany, NextFetch, Retry, FetchFails, Dropped, server, stream, history
<1>2. Cursor' \in {Cursor, None}
  BY DEF NextEnd, NextTooMany, NextFetch, Retry, FetchFails, Dropped, stream, Cursor, Idle,
         OneCursor
<1>3. Ahead' \in SUBSET Ahead
  BY <1>1, <1>2 DEF Ahead, Held
<1> QED
  BY <1>1, <1>3, RepeatsFewer

(* A correction pays for the one object that stands before the page.        *)
LEMMA RepeatsRewinds ==
    ASSUME CrawlInv, RepeatInv, FetchRewinds
    PROVE  RepeatInv'
<1> USE DEF CrawlInv
<1>1. /\ PageArrives /\ next = None
  BY DEF FetchRewinds, PageArrives, OneCursor
<1>2. /\ window' = window /\ request \in Nat /\ \A o : Rank(window, o) \in Nat
  BY <1>1, PageTypes
<1>3. /\ UNCHANGED <<buffer, delivered, seen, looped>>
      /\ next' = request - 1 /\ next' \in Nat /\ corrections' = corrections + 1
  BY <1>2 DEF FetchRewinds, PageArrives, Shrunk
<1>4. Cursor = request /\ Cursor' = request - 1 /\ Held' = Held
  <2>1. next' # None
    BY <1>3
  <2> QED
    BY <1>1, <1>3, <2>1 DEF Cursor, Held
<1> DEFINE One == {o \in window : request - 1 <= Rank(window, o) /\ Rank(window, o) < request - 1 + 1}
<1>5. IsFiniteSet(One) /\ Cardinality(One) <= 1
  BY <1>2, FewOfRanks, WindowFinite
<1>6. Ahead' \in SUBSET (Ahead \cup One)
  BY <1>2, <1>3, <1>4 DEF Ahead
<1> HIDE DEF One
<1>7. IsFiniteSet(Ahead') /\ Cardinality(Ahead') <= Cardinality(Ahead) + 1
  <2>1. IsFiniteSet(Ahead \cup One)
        /\ Cardinality(Ahead \cup One) =
              Cardinality(Ahead) + Cardinality(One) - Cardinality(Ahead \cap One)
    BY <1>5, CountsAre, FS_Union
  <2>2. Cardinality(Ahead \cap One) \in Nat /\ Cardinality(One) \in Nat
    BY <1>5, FS_Intersection, FS_CardinalityType
  <2>3. IsFiniteSet(Ahead') /\ Cardinality(Ahead') <= Cardinality(Ahead \cup One)
    BY <1>6, <2>1, FS_Subset
  <2>4. Cardinality(Ahead') \in Nat /\ Cardinality(Ahead \cup One) \in Nat
    BY <2>1, <2>3, FS_CardinalityType
  <2> QED
    BY <1>5, <2>1, <2>2, <2>3, <2>4, CountsAre
<1>8. Cardinality(Ahead') \in Nat
  BY <1>7, FS_CardinalityType
<1>9. Again' = Again
  BY <1>3 DEF Again
<1> QED
  BY <1>3, <1>7, <1>8, <1>9, CountsAre DEF RepeatInv

(* A page that is kept moves what was ahead into the buffer; a Link back to *)
(* the page is paid for by its size.                                       *)
LEMMA RepeatsContinues ==
    ASSUME CrawlInv, RepeatInv, FetchContinues
    PROVE  RepeatInv'
<1> USE DEF CrawlInv
<1> DEFINE P == PageItems(request)
<1>1. PageArrives /\ next = None /\ buffer = {}
  BY DEF FetchContinues, PageArrives, OneCursor
<1>2. /\ window' = window /\ request \in Nat /\ request' = None /\ Total \in Nat
      /\ \A o : Rank(window, o) \in Nat
      /\ IsFiniteSet(window) /\ window \in SUBSET Int
  BY <1>1, PageTypes, WindowFinite
<1>3. /\ UNCHANGED <<delivered, seen, corrections>> /\ buffer' = P
      /\ next' \in PageLinks(request)
      /\ looped' = IF next' = request THEN looped + Limit ELSE looped
  BY <1>1 DEF FetchContinues, PageArrives
<1>4. /\ Limit \in Nat
      /\ next' = None \/ next' = request \/ next' = request + Limit
      /\ next' = request \/ looped' = looped
  BY <1>2, <1>3, CrawlAssumption DEF PageLinks, PageEnd
<1>5. /\ Ahead = {o \in window \cap delivered : request <= Rank(window, o)}
      /\ Cardinality(Again) = 0
  BY <1>1, <1>2, FS_EmptySet DEF Ahead, Again, Cursor, Held
<1>6. /\ Again' = P \cap delivered
      /\ Ahead' = {o \in window \cap (delivered \cup P) : next' # None /\ next' <= Rank(window, o)}
  BY <1>2, <1>3 DEF Ahead, Again, Cursor, Held
<1>7. /\ P \in SUBSET window
      /\ \A o \in P : request <= Rank(window, o) /\ Rank(window, o) < request + Limit
  BY DEF PageItems
<1>8. IsFiniteSet(P) /\ Cardinality(P) <= Limit
  BY <1>2, <1>4, FewOfRanks DEF PageItems
<1> HIDE DEF P
<1>9. /\ IsFiniteSet(Again') /\ IsFiniteSet(Ahead') /\ IsFiniteSet(P)
      /\ Cardinality(Again') \in Nat /\ Cardinality(Ahead') \in Nat /\ Cardinality(P) \in Nat
  <2>1. IsFiniteSet(Again') /\ IsFiniteSet(Ahead')
    BY <1>2, <1>6, <1>7, <1>8, FS_Subset
  <2> QED
    BY <1>8, <2>1, FS_CardinalityType
<1>10. CASE next' # request
  <2>a. ASSUME NEW o \in Ahead'
        PROVE  o \in window /\ request + Limit <= Rank(window, o)
    BY <1>4, <1>6, <1>10, <2>a
  <2>b. ASSUME NEW o \in Ahead' PROVE o \in Ahead /\ o \notin P
    <3>1. o \notin P
      <4>1. request + Limit <= Rank(window, o) /\ Rank(window, o) \in Nat
        BY <1>2, <2>a, <2>b
      <4>2. ~(Rank(window, o) < request + Limit)
        BY <1>2, <1>4, <4>1
      <4> QED
        BY <1>7, <4>2
    <3>2. o \in delivered
      BY <1>6, <2>b, <3>1
    <3> QED
      BY <1>2, <1>4, <1>5, <2>a, <2>b, <3>1, <3>2
  <2>c. ASSUME NEW o \in Again' PROVE o \in Ahead /\ o \in P
    BY <1>5, <1>6, <1>7, <2>c
  <2>1. Again' \cap Ahead' = {} /\ Again' \cup Ahead' \in SUBSET Ahead
    BY <2>b, <2>c
  <2> DEFINE Y == Again'
             Z == Ahead'
  <2> HIDE DEF Y, Z
  <2>d. IsFiniteSet(Y) /\ IsFiniteSet(Z) /\ Y \cap Z = {} /\ Cardinality(Y) \in Nat
        /\ Cardinality(Z) \in Nat
    BY <1>9, <2>1 DEF Y, Z
  <2>2. /\ IsFiniteSet(Again' \cup Ahead')
        /\ Cardinality(Again' \cup Ahead') = Cardinality(Again') + Cardinality(Ahead')
    <3>1. /\ IsFiniteSet(Y \cup Z)
          /\ Cardinality(Y \cup Z) = Cardinality(Y) + Cardinality(Z) - Cardinality(Y \cap Z)
      BY <2>d, FS_Union
    <3>2. Cardinality(Y \cap Z) = 0
      BY <2>d, FS_EmptySet
    <3> QED
      BY <2>d, <3>1, <3>2 DEF Y, Z
  <2>3. Cardinality(Again' \cup Ahead') <= Cardinality(Ahead)
    BY <2>1, CountsAre, FS_Subset
  <2> QED
    BY <1>3, <1>4, <1>5, <1>9, <1>10, <2>2, <2>3, CountsAre DEF RepeatInv
<1>11. CASE next' = request
  <2> DEFINE N == P \ delivered
  <2>1. Ahead' \in SUBSET (Ahead \cup N)
    BY <1>2, <1>5, <1>6, <1>11
  <2>2. /\ IsFiniteSet(N)
        /\ Cardinality(N) = Cardinality(P) - Cardinality(P \cap delivered)
        /\ Cardinality(N) \in Nat
    BY <1>9, FS_Difference, FS_CardinalityType
  <2> HIDE DEF N
  <2>3. /\ IsFiniteSet(Ahead \cup N)
        /\ Cardinality(Ahead \cup N) =
              Cardinality(Ahead) + Cardinality(N) - Cardinality(Ahead \cap N)
    BY <2>2, CountsAre, FS_Union
  <2>4. Cardinality(Ahead \cap N) \in Nat
    BY <2>2, FS_Intersection, FS_CardinalityType
  <2>5. Cardinality(Ahead') <= Cardinality(Ahead \cup N)
    BY <2>1, <2>3, FS_Subset
  <2>6. Cardinality(Again') + Cardinality(Ahead') <= Cardinality(Ahead) + Limit
    <3>1. Cardinality(Again') = Cardinality(P \cap delivered)
      BY <1>6
    <3> QED
      BY <1>4, <1>8, <1>9, <2>2, <2>3, <2>4, <2>5, <3>1, CountsAre
  <2>7. looped' = looped + Limit
    BY <1>3, <1>11
  <2> QED
    BY <1>3, <1>4, <1>5, <1>9, <2>6, <2>7, CountsAre DEF RepeatInv
<1> QED
  BY <1>10, <1>11

LEMMA RepeatsNext == CrawlInv /\ RepeatInv /\ [Next]_vars => RepeatInv'
<1>1. CrawlInv /\ RepeatInv /\ Next => RepeatInv'
  BY RepeatsChurn, RepeatsItem, RepeatsQuiet, RepeatsRewinds, RepeatsContinues
     DEF Next, Caller, Answer
<1>2. RepeatInv /\ UNCHANGED vars => RepeatInv'
  BY DEF vars, server, stream, history, RepeatInv, Again, Ahead, Cursor, Held
<1> QED
  BY <1>1, <1>2

(* A correction of crawl_adjustment() yields one object twice at the most,  *)
(* and nothing else but a Link that leads back does: however the list       *)
(* moves, and whatever the page size and the budget.                       *)
THEOREM RewindsRepeatOne == Spec => []RewindRepeatsOne
<1>1. CrawlInv /\ RepeatInv => RewindRepeatsOne
  BY CountsAre DEF CrawlInv, RepeatInv, RewindRepeatsOne
<1>2. Spec => []RepeatInv
  BY RepeatsInit, RepeatsNext, CrawlInvariance, PTL DEF Spec
<1> QED
  BY <1>1, <1>2, CrawlInvariance, PTL

(***************************************************************************)
(* PageCrawl implements CrawlSpec.                                         *)
(***************************************************************************)

(* A new stream starts as the promise does. *)
LEMMA PromiseInit == Init => Promise!CInit
BY CrawlAssumption DEF Init, Promise!CInit

(* Every step of the crawl is a step of the promise or changes none of it. *)
LEMMA PromiseNext == CrawlInv /\ [Next]_vars => [Promise!CNext]_(Promise!cvars)
<1> SUFFICES ASSUME CrawlInv, Next PROVE [Promise!CNext]_(Promise!cvars)
  BY DEF vars, server, history, Promise!cvars
<1> USE DEF Promise!CNext, Promise!cvars, server, history, stream
<1>1. clock \in Nat
  BY DEF CrawlInv, TypeOK
<1>2. CASE Churn
  <2>1. CASE Arrive
    BY <1>1, <2>1 DEF Arrive, Promise!CChurn
  <2>2. ASSUME NEW x \in window, Depart(x) PROVE Promise!CChurn
    BY <1>1, <2>2 DEF Depart, Promise!CChurn
  <2>3. ASSUME NEW x \in window, Update(x) PROVE Promise!CChurn
    BY <1>1, <2>3 DEF Update, Promise!CChurn
  <2> QED
    BY <1>2, <2>1, <2>2, <2>3 DEF Churn
<1>3. CASE NextItem
  <2>0. UNCHANGED <<window, clock, smooth, interrupted>> /\ outcome # "end" /\ outcome' # "end"
    BY <1>3 DEF NextItem, Idle
  <2>1. PICK o \in buffer : delivered' = delivered \cup {o}
    BY <1>3 DEF NextItem
  <2>2. o \in 1..(clock - 1) /\ ~interrupted
    BY <2>1 DEF CrawlInv, TypeOK, Over
  <2> QED
    BY <2>0, <2>1, <2>2 DEF Promise!CDeliver
<1>4. CASE NextEnd
  <2>1. CASE interrupted
    BY <1>4, <2>1 DEF NextEnd
  <2>2. CASE ~interrupted
    <3>1. smooth => Promise!Stable \subseteq delivered
      BY <1>4, <2>2, CrawlAssumption
         DEF NextEnd, Idle, CrawlInv, TypeOK, NothingLeft, Held, Promise!Stable
    <3> QED
      BY <1>4, <2>2, <3>1 DEF NextEnd, Idle, Promise!CEnd
  <2> QED
    BY <2>1, <2>2
<1>5. CASE NextTooMany \/ FetchFails \/ Dropped
  <2>1. ~interrupted /\ outcome # "end" /\ interrupted'
    BY <1>5 DEF NextTooMany, FetchFails, Dropped, Idle, CrawlInv, OneCursor, Over, EndIsEnd
  <2>2. UNCHANGED <<window, clock, smooth, delivered>>
    BY <1>5 DEF NextTooMany, FetchFails, Dropped
  <2> QED
    BY <2>1, <2>2 DEF Promise!CFail
<1>6. CASE NextFetch \/ Retry
  BY <1>6 DEF NextFetch, Retry
<1>7. CASE FetchRewinds \/ FetchContinues
  <2>1. UNCHANGED <<window, clock, delivered, interrupted, outcome>>
    BY <1>7 DEF FetchRewinds, FetchContinues, PageArrives
  <2>2. smooth' = smooth \/ smooth' = FALSE
    BY <1>7 DEF FetchRewinds, FetchContinues, PageArrives, CrawlInv, TypeOK
  <2> QED
    BY <2>1, <2>2 DEF Promise!CRough
<1> QED
  BY <1>2, <1>3, <1>4, <1>5, <1>6, <1>7 DEF Next, Caller, Answer

(* The refinement: what a caller of PageStream sees is what CrawlSpec       *)
(* promises, for every value of the constants.                             *)
THEOREM Refinement == Spec => KeepsPromise
BY PromiseInit, PromiseNext, CrawlInvariance, PTL DEF Spec, KeepsPromise, Promise!CSpec

=============================================================================
