-------------------------- MODULE PeerStoreProofs ---------------------------
(***************************************************************************)
(* What the mock peer's stores promise, for any number of handlers at work, *)
(* of objects and of messages.                                             *)
(***************************************************************************)
EXTENDS PeerStore, TLAPS

USE DEF stores, counts

Working(h) == handler[h].pc \in {"sent", "read"}

(* Every handler has a message it may have, and an outcome of its own.      *)
HandlersOK ==
    /\ handler = [h \in Handlers |-> handler[h]]
    /\ \A h \in Handlers : Working(h) => handler[h].msg \in Messages
    /\ created \in [Flat -> Nat] /\ removed \in [Flat -> Nat]

(* What is to be put back, patched, is never deleted in between.            *)
MergesLive ==
    \A h \in Handlers :
        Writing(h, {"patch_flat"}) => handler[h].msg.id \in DOMAIN flat

(* Without an overlap, what a handler read is what is there.                *)
ReadIsThere(h) ==
    /\ Writing(h, LocationReads) =>
          /\ Applies(handler[h].msg, locations)
          /\ handler[h].snapshot = locations[handler[h].msg.id]
    /\ Writing(h, {"patch_flat"}) => handler[h].snapshot = flat[handler[h].msg.id]
    /\ Writing(h, {"post_cdr"}) => handler[h].msg.id \notin DOMAIN cdrs

Undisturbed == ~overlapped => \A h \in Handlers : ReadIsThere(h)

StoreInv ==
    /\ HandlersOK
    /\ MergesLive
    /\ renamed \subseteq Mergeable
    /\ CreatedOncePerLife
    /\ Undisturbed
    /\ AtomicUnlessOverlapped

-----------------------------------------------------------------------------
(* Messages, and records of the stores. *)

(* What a message may be about follows from what it asks for.               *)
LEMMA AboutWhat ==
    ASSUME NEW m \in Messages
    PROVE  /\ m.op = "put_flat" => m.id \in Flat
           /\ m.op = "patch_flat" => m.id \in Mergeable /\ m.becomes \in Mergeable
           /\ m.op = "delete_flat" => m.id \in Removable
BY DEF Messages

(* What is deleted is never merged.                                         *)
LEMMA NeverBoth == Mergeable \cap Removable = {}
BY PeerStoreAssumption

Stores(l, f, c) == [locations |-> l, flat |-> f, cdrs |-> c]

LEMMA OneStoreChanges ==
    ASSUME NEW l, NEW f, NEW c, NEW new
    PROVE  /\ [Stores(l, f, c) EXCEPT !.locations = new] = Stores(new, f, c)
           /\ [Stores(l, f, c) EXCEPT !.flat = new] = Stores(l, new, c)
           /\ [Stores(l, f, c) EXCEPT !.cdrs = new] = Stores(l, f, new)
           /\ Stores(l, f, c).locations = l
           /\ Stores(l, f, c).flat = f
           /\ Stores(l, f, c).cdrs = c
BY DEF Stores

(* One handler moves on; the others stay where they are.                    *)
LEMMA MovesOn ==
    ASSUME HandlersOK, NEW h \in Handlers, NEW state, handler' = [handler EXCEPT ![h] = state]
    PROVE  /\ handler' = [k \in Handlers |-> handler'[k]]
           /\ handler'[h] = state
           /\ \A k \in Handlers : k # h => handler'[k] = handler[k]
BY DEF HandlersOK

LEMMA StoreInit == Init => StoreInv
<1> SUFFICES ASSUME Init PROVE StoreInv
  OBVIOUS
<1>1. \A h \in Handlers : handler[h].pc = "idle"
  BY DEF Init, Idle
<1>2. HandlersOK
  BY <1>1 DEF Init, HandlersOK, Working
<1>3. MergesLive /\ Undisturbed
  BY <1>1 DEF MergesLive, Undisturbed, ReadIsThere, Writing
<1>4. CreatedOncePerLife /\ renamed \subseteq Mergeable
  BY DEF Init, CreatedOncePerLife, Nothing
<1>5. AtomicUnlessOverlapped
  BY DEF Init, AtomicUnlessOverlapped
<1> QED
  BY <1>2, <1>3, <1>4, <1>5 DEF StoreInv

-----------------------------------------------------------------------------
(* Steps that store nothing. *)

LEMMA Stays ==
    ASSUME StoreInv, NEW h \in Handlers, NEW state,
           handler' = [handler EXCEPT ![h] = state],
           UNCHANGED <<locations, flat, cdrs, atomic, overlapped, created, removed, renamed>>,
           state.pc \in {"sent", "read"} => state.msg \in Messages,
           Writing(h, {"patch_flat"})' => state.msg.id \in DOMAIN flat,
           ~overlapped => ReadIsThere(h)'
    PROVE  StoreInv'
<1>1. /\ handler' = [k \in Handlers |-> handler'[k]]
      /\ handler'[h] = state
      /\ \A k \in Handlers : k # h => handler'[k] = handler[k]
  BY MovesOn DEF StoreInv
<1>2. HandlersOK'
  BY <1>1 DEF StoreInv, HandlersOK, Working
<1>3. MergesLive'
  BY <1>1 DEF StoreInv, MergesLive, Writing
<1>4. CreatedOncePerLife' /\ AtomicUnlessOverlapped' /\ renamed' \subseteq Mergeable
  BY DEF StoreInv, CreatedOncePerLife, AtomicUnlessOverlapped
<1>5. Undisturbed'
  <2> SUFFICES ASSUME ~overlapped', NEW k \in Handlers PROVE ReadIsThere(k)'
    BY DEF Undisturbed
  <2>1. CASE k = h
    BY <2>1
  <2>2. CASE k # h
    BY <1>1, <2>2 DEF StoreInv, Undisturbed, ReadIsThere, Writing, Applies
  <2> QED
    BY <2>1, <2>2
<1> QED
  BY <1>2, <1>3, <1>4, <1>5 DEF StoreInv

LEMMA StoreSend ==
    ASSUME StoreInv, NEW h \in Handlers, NEW m \in Messages, Send(h, m)
    PROVE  StoreInv'
<1> DEFINE state == [pc |-> "sent", msg |-> m, stamp |-> clock + 1]
<1>1. /\ handler' = [handler EXCEPT ![h] = state]
      /\ UNCHANGED <<locations, flat, cdrs, atomic, overlapped, created, removed, renamed>>
  BY DEF Send
<1>2. handler'[h] = state /\ state.pc = "sent" /\ state.msg = m
  BY <1>1, MovesOn DEF StoreInv
<1> HIDE DEF state
<1>3. ~Writing(h, {"patch_flat"})' /\ ReadIsThere(h)'
  BY <1>2 DEF Writing, ReadIsThere
<1> QED
  BY <1>1, <1>2, <1>3, Stays

(* A handler that ends without a put: it looked, or found nothing, or that  *)
(* there was something already, or its patch did not apply.                *)
LEMMA StoreReplies ==
    ASSUME StoreInv, NEW h \in Handlers, NEW r, Reply(h, r),
           UNCHANGED <<locations, flat, cdrs, atomic, overlapped, created, removed, renamed>>
    PROVE  StoreInv'
<1> DEFINE state == [pc |-> "done", reply |-> r]
<1>1. handler' = [handler EXCEPT ![h] = state]
  BY DEF Reply
<1>2. handler'[h] = state /\ state.pc = "done"
  BY <1>1, MovesOn DEF StoreInv
<1> HIDE DEF state
<1>3. ~Writing(h, {"patch_flat"})' /\ ReadIsThere(h)'
  BY <1>2 DEF Writing, ReadIsThere
<1> QED
  BY <1>1, <1>2, <1>3, Stays

LEMMA StoreLooks ==
    ASSUME StoreInv, NEW h \in Handlers,
           GetLocation(h) \/ GetFlat(h) \/ GetCdr(h) \/ RefusePatch(h)
    PROVE  StoreInv'
BY StoreReplies DEF GetLocation, GetFlat, GetCdr, Looks, RefusePatch

(* The get of a handler that will put.                                      *)
LEMMA StoreReads ==
    ASSUME StoreInv, NEW h \in Handlers, NEW snapshot, Read(h, snapshot),
           handler[h].pc = "sent",
           UNCHANGED <<locations, flat, cdrs, atomic, overlapped, created, removed, renamed>>,
           handler[h].msg.op \in LocationReads =>
               Applies(handler[h].msg, locations) /\ snapshot = locations[handler[h].msg.id],
           handler[h].msg.op = "patch_flat" =>
               handler[h].msg.id \in DOMAIN flat /\ snapshot = flat[handler[h].msg.id],
           handler[h].msg.op = "post_cdr" => handler[h].msg.id \notin DOMAIN cdrs
    PROVE  StoreInv'
<1> DEFINE state == [pc |-> "read", msg |-> handler[h].msg,
                     stamp |-> handler[h].stamp, snapshot |-> snapshot]
<1>1. handler' = [handler EXCEPT ![h] = state]
  BY DEF Read
<1>2. handler'[h] = state /\ state.msg = handler[h].msg /\ state.snapshot = snapshot
  BY <1>1, MovesOn DEF StoreInv
<1> HIDE DEF state
<1>3. state.msg \in Messages
  BY <1>2 DEF StoreInv, HandlersOK, Working
<1>4. Writing(h, {"patch_flat"})' => state.msg.id \in DOMAIN flat
  BY <1>2 DEF Writing
<1>5. ReadIsThere(h)'
  BY <1>2 DEF ReadIsThere, Writing, Applies
<1> QED
  BY <1>1, <1>3, <1>4, <1>5, Stays

LEMMA StoreGets ==
    ASSUME StoreInv, NEW h \in Handlers, ReadLocation(h) \/ ReadFlat(h) \/ ReadCdr(h)
    PROVE  StoreInv'
<1>1. CASE ReadLocation(h)
  <2>1. CASE Applies(handler[h].msg, locations)
    BY <1>1, <2>1, StoreReads DEF ReadLocation, Handles, LocationReads
  <2>2. CASE ~Applies(handler[h].msg, locations)
    BY <1>1, <2>2, StoreReplies DEF ReadLocation
  <2> QED
    BY <2>1, <2>2
<1>2. CASE ReadFlat(h)
  <2>1. CASE handler[h].msg.id \in DOMAIN flat
    BY <1>2, <2>1, StoreReads DEF ReadFlat, Handles, LocationReads
  <2>2. CASE handler[h].msg.id \notin DOMAIN flat
    BY <1>2, <2>2, StoreReplies DEF ReadFlat
  <2> QED
    BY <2>1, <2>2
<1>3. CASE ReadCdr(h)
  <2>1. CASE handler[h].msg.id \in DOMAIN cdrs
    BY <1>3, <2>1, StoreReplies DEF ReadCdr
  <2>2. CASE handler[h].msg.id \notin DOMAIN cdrs
    BY <1>3, <2>2, StoreReads DEF ReadCdr, Handles, LocationReads
  <2> QED
    BY <2>1, <2>2
<1> QED
  BY <1>1, <1>2, <1>3

-----------------------------------------------------------------------------
(* Steps that store. *)

(* A put, or a remove, and the reply. What it does to the others is shown   *)
(* by the caller, for those that are about another object.                  *)
LEMMA Stored ==
    ASSUME StoreInv, NEW h \in Handlers, NEW r, Reply(h, r), Puts(h),
           created' \in [Flat -> Nat], removed' \in [Flat -> Nat],
           renamed' \subseteq Mergeable, CreatedOncePerLife', AtomicUnlessOverlapped',
           \A k \in Handlers : Writing(k, {"patch_flat"}) => handler[k].msg.id \in DOMAIN flat',
           \A k \in Handlers :
               (/\ handler'[k] = handler[k] /\ handler[k].pc = "read" /\ ~overlapped
                /\ Found(handler[k].msg) # Left(handler[h].msg))
                   => ReadIsThere(k)'
    PROVE  StoreInv'
<1> DEFINE state == [pc |-> "done", reply |-> r]
<1>1. handler' = [handler EXCEPT ![h] = state]
  BY DEF Reply
<1>2. /\ handler' = [k \in Handlers |-> handler'[k]]
      /\ handler'[h].pc = "done"
      /\ \A k \in Handlers : k # h => handler'[k] = handler[k]
  BY <1>1, MovesOn DEF StoreInv
<1>3. HandlersOK'
  BY <1>2 DEF StoreInv, HandlersOK, Working
<1>4. MergesLive'
  BY <1>2 DEF MergesLive, Writing
<1>5. Undisturbed'
  <2> SUFFICES ASSUME ~overlapped', NEW k \in Handlers PROVE ReadIsThere(k)'
    BY DEF Undisturbed
  <2>1. CASE handler'[k].pc # "read"
    BY <2>1 DEF ReadIsThere, Writing
  <2>2. CASE handler'[k].pc = "read"
    <3>1. k # h /\ handler'[k] = handler[k] /\ handler[k].pc = "read"
      BY <1>2, <2>2
    <3>2. ~overlapped /\ Found(handler[k].msg) # Left(handler[h].msg)
      BY <3>1 DEF Puts
    <3> QED
      BY <3>1, <3>2
  <2> QED
    BY <2>1, <2>2
<1> QED
  BY <1>3, <1>4, <1>5 DEF StoreInv

(* What it would be, had each handler been one step, is what it is.         *)
LEMMA AtomicIs ==
    ASSUME StoreInv, ~overlapped
    PROVE  atomic = Stores(locations, flat, cdrs)
BY DEF StoreInv, AtomicUnlessOverlapped, Stores

LEMMA AtomicStays ==
    ASSUME ~overlapped' => atomic' = Stores(locations', flat', cdrs')
    PROVE  AtomicUnlessOverlapped'
BY DEF AtomicUnlessOverlapped, Stores

(* A message is about one kind of object, and only a PATCH renames.         *)
LEMMA WhatIsRead ==
    ASSUME NEW m
    PROVE  /\ m.op \in LocationReads \cup {"put_location"} => Found(m) = <<"location", m.id>>
           /\ m.op \in {"put_flat", "patch_flat", "delete_flat"} => Found(m) = <<"flat", m.id>>
           /\ m.op = "post_cdr" => Found(m) = <<"cdr", m.id>>
           /\ m.op \in LocationReads \cup {"put_location"} => Left(m) = <<"location", Becomes(m)>>
           /\ m.op \in {"put_flat", "patch_flat", "delete_flat"} => Left(m) = <<"flat", Becomes(m)>>
           /\ m.op = "post_cdr" => Left(m) = <<"cdr", m.id>>
           /\ m.op \in {"put_location", "put_flat", "delete_flat"} => Becomes(m) = m.id
BY DEF Found, Left, Kind, Becomes, LocationReads

(* A step that leaves the flat objects and their counts.                    *)
LEMMA CountStays ==
    ASSUME StoreInv, UNCHANGED <<flat, created, removed, renamed>>
    PROVE  /\ created' \in [Flat -> Nat] /\ removed' \in [Flat -> Nat]
           /\ renamed' \subseteq Mergeable
           /\ CreatedOncePerLife'
           /\ \A k \in Handlers : Writing(k, {"patch_flat"}) => handler[k].msg.id \in DOMAIN flat'
BY DEF StoreInv, HandlersOK, CreatedOncePerLife, MergesLive

(* The other handlers, as one Location changes: who read another still has  *)
(* what is there.                                                          *)
LEMMA OtherLocations ==
    ASSUME StoreInv, NEW h \in Handlers, NEW i, Left(handler[h].msg) = <<"location", i>>,
           UNCHANGED <<flat, cdrs>>,
           \A j \in DOMAIN locations : j # i => j \in DOMAIN locations' /\ locations'[j] = locations[j]
    PROVE  \A k \in Handlers :
               (/\ handler'[k] = handler[k] /\ handler[k].pc = "read" /\ ~overlapped
                /\ Found(handler[k].msg) # Left(handler[h].msg))
                   => ReadIsThere(k)'
<1> SUFFICES ASSUME NEW k \in Handlers, handler'[k] = handler[k], handler[k].pc = "read",
                    ~overlapped, Found(handler[k].msg) # <<"location", i>>
             PROVE  ReadIsThere(k)'
  OBVIOUS
<1>1. ReadIsThere(k)
  BY DEF StoreInv, Undisturbed
<1>2. ASSUME Writing(k, LocationReads)
      PROVE  handler[k].msg.id \in DOMAIN locations /\ handler[k].msg.id # i
  BY <1>1, <1>2, WhatIsRead DEF ReadIsThere, Applies, Writing
<1>3. Writing(k, LocationReads) =>
        /\ handler[k].msg.id \in DOMAIN locations'
        /\ locations'[handler[k].msg.id] = locations[handler[k].msg.id]
  BY <1>2
<1> QED
  BY <1>1, <1>3 DEF ReadIsThere, Writing, Applies

LEMMA StorePutLocation ==
    ASSUME StoreInv, NEW h \in Handlers, PutLocation(h)
    PROVE  StoreInv'
<1> DEFINE i == handler[h].msg.id
           new == NewLocation(handler[h].msg, handler[h].stamp)
<1>1. /\ Handles(h, {"put_location"})
      /\ locations' = With(locations, i, new)
      /\ atomic' = [atomic EXCEPT !.locations = With(atomic.locations, i, new)]
      /\ Puts(h) /\ UNCHANGED <<flat, cdrs, created, removed, renamed>>
  BY DEF PutLocation
<1>2. PICK r : Reply(h, r)
  BY DEF PutLocation
<1>3. Left(handler[h].msg) = <<"location", i>>
  BY <1>1, WhatIsRead DEF Handles
<1> HIDE DEF i, new
<1>4. \A j \in DOMAIN locations : j # i => j \in DOMAIN locations' /\ locations'[j] = locations[j]
  BY <1>1 DEF With
<1>5. AtomicUnlessOverlapped'
  <2>1. ASSUME ~overlapped' PROVE atomic' = Stores(locations', flat', cdrs')
    <3>1. atomic = Stores(locations, flat, cdrs)
      BY <1>1, <2>1, AtomicIs DEF Puts
    <3> HIDE DEF With
    <3> QED
      BY <1>1, <3>1, OneStoreChanges
  <2> QED
    BY <2>1, AtomicStays
<1>6. \A k \in Handlers :
        (/\ handler'[k] = handler[k] /\ handler[k].pc = "read" /\ ~overlapped
         /\ Found(handler[k].msg) # Left(handler[h].msg))
            => ReadIsThere(k)'
  BY <1>1, <1>3, <1>4, OtherLocations
<1>7. /\ created' \in [Flat -> Nat] /\ removed' \in [Flat -> Nat]
      /\ renamed' \subseteq Mergeable
      /\ CreatedOncePerLife'
      /\ \A k \in Handlers : Writing(k, {"patch_flat"}) => handler[k].msg.id \in DOMAIN flat'
  BY <1>1, CountStays
<1> QED
  BY <1>1, <1>2, <1>5, <1>6, <1>7, Stored

LEMMA StoreWriteLocation ==
    ASSUME StoreInv, NEW h \in Handlers, WriteLocation(h)
    PROVE  StoreInv'
<1> DEFINE m == handler[h].msg
           s == handler[h].stamp
           i == Becomes(m)
<1>1. /\ Writing(h, LocationReads)
      /\ locations' = With(locations, i, Changed(m, s, handler[h].snapshot))
      /\ atomic' = IF Applies(m, atomic.locations)
                   THEN [atomic EXCEPT !.locations =
                            With(atomic.locations, i, Changed(m, s, atomic.locations[m.id]))]
                   ELSE atomic
      /\ Puts(h) /\ UNCHANGED <<flat, cdrs, created, removed, renamed>>
  BY DEF WriteLocation
<1>2. PICK r : Reply(h, r)
  BY DEF WriteLocation
<1>3. Left(handler[h].msg) = <<"location", i>>
  BY <1>1, WhatIsRead DEF Writing
<1>4. ~overlapped => Applies(m, locations) /\ handler[h].snapshot = locations[m.id]
  BY <1>1 DEF StoreInv, Undisturbed, ReadIsThere
<1> HIDE DEF m, s, i
<1>5. \A j \in DOMAIN locations : j # i => j \in DOMAIN locations' /\ locations'[j] = locations[j]
  BY <1>1 DEF With
<1>6. AtomicUnlessOverlapped'
  <2>1. ASSUME ~overlapped' PROVE atomic' = Stores(locations', flat', cdrs')
    <3>1. ~overlapped
      BY <1>1, <2>1 DEF Puts
    <3>2. atomic = Stores(locations, flat, cdrs) /\ atomic.locations = locations
      BY <3>1, AtomicIs, OneStoreChanges
    <3> HIDE DEF With, Changed, Applies
    <3>3. With(atomic.locations, i, Changed(m, s, atomic.locations[m.id])) = locations'
      BY <1>1, <1>4, <3>1, <3>2
    <3>4. Applies(m, atomic.locations)
      BY <1>4, <3>1, <3>2
    <3>5. atomic' = [atomic EXCEPT !.locations = locations']
      BY <1>1, <3>3, <3>4
    <3> QED
      BY <1>1, <3>2, <3>5, OneStoreChanges
  <2> QED
    BY <2>1, AtomicStays
<1>7. \A k \in Handlers :
        (/\ handler'[k] = handler[k] /\ handler[k].pc = "read" /\ ~overlapped
         /\ Found(handler[k].msg) # Left(handler[h].msg))
            => ReadIsThere(k)'
  BY <1>1, <1>3, <1>5, OtherLocations
<1>8. /\ created' \in [Flat -> Nat] /\ removed' \in [Flat -> Nat]
      /\ renamed' \subseteq Mergeable
      /\ CreatedOncePerLife'
      /\ \A k \in Handlers : Writing(k, {"patch_flat"}) => handler[k].msg.id \in DOMAIN flat'
  BY <1>1, CountStays
<1> QED
  BY <1>1, <1>2, <1>6, <1>7, <1>8, Stored

LEMMA StoreWriteCdr ==
    ASSUME StoreInv, NEW h \in Handlers, WriteCdr(h)
    PROVE  StoreInv'
<1> DEFINE i == handler[h].msg.id
           s == [stamp |-> handler[h].stamp]
<1>1. /\ Writing(h, {"post_cdr"}) /\ cdrs' = With(cdrs, i, s)
      /\ atomic' = [atomic EXCEPT !.cdrs = IF i \in DOMAIN @ THEN @ ELSE With(@, i, s)]
  BY DEF WriteCdr
<1>2. /\ Reply(h, "created") /\ Puts(h)
      /\ UNCHANGED <<locations, flat, created, removed, renamed>>
  BY DEF WriteCdr
<1>4. Left(handler[h].msg) = <<"cdr", i>>
  BY <1>1, WhatIsRead DEF Writing
<1> HIDE DEF s, i
<1>5. AtomicUnlessOverlapped'
  <2>1. ASSUME ~overlapped' PROVE atomic' = Stores(locations', flat', cdrs')
    <3>1. ~overlapped
      BY <1>2, <2>1 DEF Puts
    <3>2. atomic = Stores(locations, flat, cdrs) /\ atomic.cdrs = cdrs
      BY <3>1, AtomicIs, OneStoreChanges
    <3>3. i \notin DOMAIN cdrs
      BY <1>1, <3>1 DEF StoreInv, Undisturbed, ReadIsThere, i
    <3>4. atomic' = [atomic EXCEPT !.cdrs = With(cdrs, i, s)]
      <4>1. (IF i \in DOMAIN atomic.cdrs THEN atomic.cdrs ELSE With(atomic.cdrs, i, s))
              = With(cdrs, i, s)
        BY <3>2, <3>3
      <4> HIDE DEF With
      <4> QED
        BY <1>1, <4>1
    <3> QED
      BY <1>1, <1>2, <3>2, <3>4, OneStoreChanges
  <2> QED
    BY <2>1, AtomicStays
<1>6. ASSUME NEW k \in Handlers, handler'[k] = handler[k], handler[k].pc = "read", ~overlapped,
             Found(handler[k].msg) # Left(handler[h].msg)
      PROVE  ReadIsThere(k)'
  <2>1. ReadIsThere(k)
    BY <1>6 DEF StoreInv, Undisturbed
  <2>2. Writing(k, {"post_cdr"}) => handler[k].msg.id \notin DOMAIN cdrs'
    <3>1. DOMAIN cdrs' = DOMAIN cdrs \cup {i}
      BY <1>1 DEF With
    <3>2. Writing(k, {"post_cdr"}) => handler[k].msg.id # i
      BY <1>4, <1>6, WhatIsRead DEF Writing
    <3> QED
      BY <2>1, <3>1, <3>2 DEF ReadIsThere
  <2> QED
    BY <1>2, <1>6, <2>1, <2>2 DEF ReadIsThere, Writing, Applies
<1>7. /\ created' \in [Flat -> Nat] /\ removed' \in [Flat -> Nat]
      /\ renamed' \subseteq Mergeable
      /\ CreatedOncePerLife'
      /\ \A k \in Handlers : Writing(k, {"patch_flat"}) => handler[k].msg.id \in DOMAIN flat'
  BY <1>2, CountStays
<1>8. \A k \in Handlers :
        (/\ handler'[k] = handler[k] /\ handler[k].pc = "read" /\ ~overlapped
         /\ Found(handler[k].msg) # Left(handler[h].msg))
            => ReadIsThere(k)'
  BY <1>6
<1> QED
  BY <1>2, <1>5, <1>7, <1>8, Stored

(* The other handlers, as one flat object changes: who read another still   *)
(* has what is there.                                                      *)
LEMMA OtherFlats ==
    ASSUME StoreInv, NEW h \in Handlers, NEW i, Left(handler[h].msg) = <<"flat", i>>,
           UNCHANGED <<locations, cdrs>>,
           \A j \in DOMAIN flat : j # i => j \in DOMAIN flat' /\ flat'[j] = flat[j]
    PROVE  \A k \in Handlers :
               (/\ handler'[k] = handler[k] /\ handler[k].pc = "read" /\ ~overlapped
                /\ Found(handler[k].msg) # Left(handler[h].msg))
                   => ReadIsThere(k)'
<1> SUFFICES ASSUME NEW k \in Handlers, handler'[k] = handler[k], handler[k].pc = "read",
                    ~overlapped, Found(handler[k].msg) # <<"flat", i>>
             PROVE  ReadIsThere(k)'
  OBVIOUS
<1>1. ReadIsThere(k)
  BY DEF StoreInv, Undisturbed
<1>2. Writing(k, {"patch_flat"}) => flat'[handler[k].msg.id] = flat[handler[k].msg.id]
  BY WhatIsRead DEF StoreInv, MergesLive, Writing
<1> QED
  BY <1>1, <1>2 DEF ReadIsThere, Writing, Applies

LEMMA StorePutFlat ==
    ASSUME StoreInv, NEW h \in Handlers, PutFlat(h)
    PROVE  StoreInv'
<1> DEFINE i == handler[h].msg.id
           new == PutBody(handler[h].stamp)
<1>1. /\ Handles(h, {"put_flat"})
      /\ flat' = With(flat, i, new)
      /\ atomic' = [atomic EXCEPT !.flat = With(atomic.flat, i, new)]
      /\ created' = IF i \in DOMAIN flat THEN created ELSE [created EXCEPT ![i] = @ + 1]
      /\ Puts(h) /\ UNCHANGED <<locations, cdrs, removed, renamed>>
  BY DEF PutFlat
<1>2. PICK r : Reply(h, r)
  BY DEF PutFlat
<1>3. i \in Flat /\ Left(handler[h].msg) = <<"flat", i>>
  BY <1>1, AboutWhat, WhatIsRead DEF StoreInv, HandlersOK, Working, Handles
<1> HIDE DEF i, new
<1>4. DOMAIN flat' = DOMAIN flat \cup {i} /\ \A j \in DOMAIN flat : j # i => flat'[j] = flat[j]
  BY <1>1 DEF With
<1>5. created \in [Flat -> Nat] /\ removed \in [Flat -> Nat]
  BY DEF StoreInv, HandlersOK
<1>6. created' \in [Flat -> Nat] /\ removed' \in [Flat -> Nat] /\ renamed' \subseteq Mergeable
  BY <1>1, <1>3, <1>5 DEF StoreInv
<1>7. CreatedOncePerLife'
  <2> SUFFICES ASSUME NEW j \in Flat
               PROVE  created'[j] - removed'[j] \in
                          IF j \notin DOMAIN flat' THEN {0}
                          ELSE IF j \in renamed' THEN {0, 1} ELSE {1}
    BY DEF CreatedOncePerLife
  <2>1. created[j] - removed[j] \in
            IF j \notin DOMAIN flat THEN {0} ELSE IF j \in renamed THEN {0, 1} ELSE {1}
    BY DEF StoreInv, CreatedOncePerLife
  <2>2. created'[j] = IF j = i /\ i \notin DOMAIN flat THEN created[j] + 1 ELSE created[j]
    BY <1>1, <1>3, <1>5
  <2> QED
    BY <1>1, <1>4, <1>5, <2>1, <2>2
<1>8. AtomicUnlessOverlapped'
  <2>1. ASSUME ~overlapped' PROVE atomic' = Stores(locations', flat', cdrs')
    <3>1. atomic = Stores(locations, flat, cdrs)
      BY <1>1, <2>1, AtomicIs DEF Puts
    <3> HIDE DEF With
    <3> QED
      BY <1>1, <3>1, OneStoreChanges
  <2> QED
    BY <2>1, AtomicStays
<1>9. \A k \in Handlers : Writing(k, {"patch_flat"}) => handler[k].msg.id \in DOMAIN flat'
  BY <1>4 DEF StoreInv, MergesLive
<1>10. \A k \in Handlers :
         (/\ handler'[k] = handler[k] /\ handler[k].pc = "read" /\ ~overlapped
          /\ Found(handler[k].msg) # Left(handler[h].msg))
             => ReadIsThere(k)'
  BY <1>1, <1>3, <1>4, OtherFlats
<1> QED
  BY <1>1, <1>2, <1>6, <1>7, <1>8, <1>9, <1>10, Stored

LEMMA StoreDeleteFlat ==
    ASSUME StoreInv, NEW h \in Handlers, DeleteFlat(h)
    PROVE  StoreInv'
<1> DEFINE i == handler[h].msg.id
           Cut(f) == [j \in DOMAIN f \ {i} |-> f[j]]
<1>1. /\ Handles(h, {"delete_flat"})
      /\ flat' = Cut(flat)
      /\ atomic' = [atomic EXCEPT !.flat = Cut(atomic.flat)]
      /\ removed' = IF i \in DOMAIN flat THEN [removed EXCEPT ![i] = @ + 1] ELSE removed
      /\ Puts(h) /\ UNCHANGED <<locations, cdrs, created, renamed>>
  BY DEF DeleteFlat
<1>2. PICK r : Reply(h, r)
  BY DEF DeleteFlat
<1>3. i \in Removable /\ i \in Flat /\ Left(handler[h].msg) = <<"flat", i>>
  BY <1>1, AboutWhat, WhatIsRead DEF StoreInv, HandlersOK, Working, Handles, Flat
<1> HIDE DEF i
<1>4. DOMAIN flat' = DOMAIN flat \ {i} /\ \A j \in DOMAIN flat : j # i => flat'[j] = flat[j]
  BY <1>1
<1> HIDE DEF Cut
<1>5. created \in [Flat -> Nat] /\ removed \in [Flat -> Nat]
  BY DEF StoreInv, HandlersOK
<1>6. created' \in [Flat -> Nat] /\ removed' \in [Flat -> Nat] /\ renamed' \subseteq Mergeable
  BY <1>1, <1>3, <1>5 DEF StoreInv
<1>7. CreatedOncePerLife'
  <2> SUFFICES ASSUME NEW j \in Flat
               PROVE  created'[j] - removed'[j] \in
                          IF j \notin DOMAIN flat' THEN {0}
                          ELSE IF j \in renamed' THEN {0, 1} ELSE {1}
    BY DEF CreatedOncePerLife
  <2>1. created[j] - removed[j] \in
            IF j \notin DOMAIN flat THEN {0} ELSE IF j \in renamed THEN {0, 1} ELSE {1}
    BY DEF StoreInv, CreatedOncePerLife
  <2>2. removed'[j] = IF j = i /\ i \in DOMAIN flat THEN removed[j] + 1 ELSE removed[j]
    BY <1>1, <1>3, <1>5
  <2>3. i \notin renamed
    BY <1>3, NeverBoth DEF StoreInv
  <2> QED
    BY <1>1, <1>4, <1>5, <2>1, <2>2, <2>3
<1>8. AtomicUnlessOverlapped'
  <2>1. ASSUME ~overlapped' PROVE atomic' = Stores(locations', flat', cdrs')
    <3>1. atomic = Stores(locations, flat, cdrs)
      BY <1>1, <2>1, AtomicIs DEF Puts
    <3> QED
      BY <1>1, <3>1, OneStoreChanges
  <2> QED
    BY <2>1, AtomicStays
<1>9. \A k \in Handlers : Writing(k, {"patch_flat"}) => handler[k].msg.id \in DOMAIN flat'
  <2> SUFFICES ASSUME NEW k \in Handlers, Writing(k, {"patch_flat"})
               PROVE  handler[k].msg.id \in DOMAIN flat'
    OBVIOUS
  <2>1. handler[k].msg.id \in Mergeable
    BY AboutWhat DEF StoreInv, HandlersOK, Working, Writing
  <2>2. handler[k].msg.id # i
    BY <1>3, <2>1, NeverBoth
  <2> QED
    BY <1>4, <2>2 DEF StoreInv, MergesLive
<1>10. \A k \in Handlers :
         (/\ handler'[k] = handler[k] /\ handler[k].pc = "read" /\ ~overlapped
          /\ Found(handler[k].msg) # Left(handler[h].msg))
             => ReadIsThere(k)'
  BY <1>1, <1>3, <1>4, OtherFlats
<1> QED
  BY <1>1, <1>2, <1>6, <1>7, <1>8, <1>9, <1>10, Stored

LEMMA StoreWriteFlat ==
    ASSUME StoreInv, NEW h \in Handlers, WriteFlat(h)
    PROVE  StoreInv'
<1> DEFINE m == handler[h].msg
           s == handler[h].stamp
           i == Becomes(m)
<1>1. /\ Writing(h, {"patch_flat"})
      /\ flat' = With(flat, i, Patched(handler[h].snapshot, s))
      /\ atomic' = IF m.id \in DOMAIN atomic.flat
                   THEN [atomic EXCEPT !.flat =
                            With(atomic.flat, i, Patched(atomic.flat[m.id], s))]
                   ELSE atomic
      /\ renamed' = IF i = m.id THEN renamed ELSE renamed \cup {i}
      /\ Puts(h) /\ Reply(h, "ok")
      /\ UNCHANGED <<locations, cdrs, created, removed>>
  BY DEF WriteFlat
<1>2. m.id \in DOMAIN flat /\ Left(handler[h].msg) = <<"flat", i>> /\ m \in Messages
      /\ m.op = "patch_flat"
  BY <1>1, WhatIsRead DEF StoreInv, MergesLive, HandlersOK, Working, Writing
<1>3. ~overlapped => handler[h].snapshot = flat[m.id]
  BY <1>1 DEF StoreInv, Undisturbed, ReadIsThere
<1>4. i \in Mergeable
  BY <1>2, AboutWhat DEF Becomes
<1> HIDE DEF m, i, s
<1>5. DOMAIN flat' = DOMAIN flat \cup {i} /\ \A j \in DOMAIN flat : j # i => flat'[j] = flat[j]
  BY <1>1 DEF With
<1>6. created' \in [Flat -> Nat] /\ removed' \in [Flat -> Nat] /\ renamed' \subseteq Mergeable
  BY <1>1, <1>4 DEF StoreInv, HandlersOK
<1>7. CreatedOncePerLife'
  <2> SUFFICES ASSUME NEW j \in Flat
               PROVE  created'[j] - removed'[j] \in
                          IF j \notin DOMAIN flat' THEN {0}
                          ELSE IF j \in renamed' THEN {0, 1} ELSE {1}
    BY DEF CreatedOncePerLife
  <2>1. created[j] - removed[j] \in
            IF j \notin DOMAIN flat THEN {0} ELSE IF j \in renamed THEN {0, 1} ELSE {1}
    BY DEF StoreInv, CreatedOncePerLife
  <2> QED
    BY <1>1, <1>2, <1>5, <2>1
<1>8. AtomicUnlessOverlapped'
  <2>1. ASSUME ~overlapped' PROVE atomic' = Stores(locations', flat', cdrs')
    <3>1. ~overlapped
      BY <1>1, <2>1 DEF Puts
    <3>2. atomic = Stores(locations, flat, cdrs) /\ atomic.flat = flat
      BY <3>1, AtomicIs, OneStoreChanges
    <3> HIDE DEF With, Patched
    <3>3. With(atomic.flat, i, Patched(atomic.flat[m.id], s)) = flat'
      BY <1>1, <1>3, <3>1, <3>2
    <3>4. atomic' = [atomic EXCEPT !.flat = flat']
      BY <1>1, <1>2, <3>2, <3>3
    <3> QED
      BY <1>1, <3>2, <3>4, OneStoreChanges
  <2> QED
    BY <2>1, AtomicStays
<1>9. \A k \in Handlers : Writing(k, {"patch_flat"}) => handler[k].msg.id \in DOMAIN flat'
  BY <1>5 DEF StoreInv, MergesLive
<1>10. \A k \in Handlers :
         (/\ handler'[k] = handler[k] /\ handler[k].pc = "read" /\ ~overlapped
          /\ Found(handler[k].msg) # Left(handler[h].msg))
             => ReadIsThere(k)'
  BY <1>1, <1>2, <1>5, OtherFlats
<1> QED
  BY <1>1, <1>6, <1>7, <1>8, <1>9, <1>10, Stored

-----------------------------------------------------------------------------
(* What follows. *)

LEMMA StoreNext == StoreInv /\ [Next]_svars => StoreInv'
<1> SUFFICES ASSUME StoreInv, [Next]_svars PROVE StoreInv'
  OBVIOUS
<1>1. CASE UNCHANGED svars
  BY <1>1 DEF svars, StoreInv, HandlersOK, Working, MergesLive, Undisturbed, ReadIsThere,
              Writing, Applies, CreatedOncePerLife, AtomicUnlessOverlapped
<1>2. CASE Next
  <2>1. PICK h \in Handlers : Handle(h) \/ \E m \in Messages : Send(h, m)
    BY <1>2 DEF Next
  <2>2. CASE \E m \in Messages : Send(h, m)
    BY <2>2, StoreSend
  <2>3. CASE Handle(h)
    BY <2>3, StoreLooks, StoreGets, StorePutLocation, StorePutFlat, StoreDeleteFlat,
       StoreWriteLocation, StoreWriteFlat, StoreWriteCdr DEF Handle
  <2> QED
    BY <2>1, <2>2, <2>3
<1> QED
  BY <1>1, <1>2

LEMMA StoreInvariant == Spec => []StoreInv
BY StoreInit, StoreNext, PTL DEF Spec

(* However many handlers are at work: unless two of them overlap on one     *)
(* object, between its get and its put, every store is what it would be    *)
(* had each handler been one step.                                         *)
THEOREM HandlersAreAtomic == Spec => []AtomicUnlessOverlapped
<1>1. StoreInv => AtomicUnlessOverlapped
  BY DEF StoreInv
<1> QED
  BY <1>1, StoreInvariant, PTL

(* An id is answered 201 once for each time it came to exist, but for those *)
(* a PATCH of another object brought: they are answered 201 once or never.  *)
THEOREM IdsAreCreatedOnce == Spec => []CreatedOncePerLife
<1>1. StoreInv => CreatedOncePerLife
  BY DEF StoreInv
<1> QED
  BY <1>1, StoreInvariant, PTL

-----------------------------------------------------------------------------
(* What is stored, and what a handler has read, carries the stamps of       *)
(* messages that were sent.                                                *)

Parts(S, T) == UNION {[D -> T] : D \in SUBSET S}
ConnectorUpTo(n) == [id : Connectors, stamp : 1..n]
EvseUpTo(n) == [uid : Evses, stamp : 1..n, connectors : SUBSET ConnectorUpTo(n)]
LocationUpTo(n) == [stamp : 1..n, evses : SUBSET EvseUpTo(n)]
FlatUpTo(n) == [stamp : 1..n, body : 1..n]

StoresOK(n) ==
    /\ locations \in Parts(Locations, LocationUpTo(n))
    /\ flat \in Parts(Flat, FlatUpTo(n))
    /\ DOMAIN cdrs \subseteq Cdrs
    /\ atomic.locations \in Parts(Locations, LocationUpTo(n))
    /\ atomic.flat \in Parts(Flat, FlatUpTo(n))
    /\ atomic = Stores(atomic.locations, atomic.flat, atomic.cdrs)

(* The parts a message would change are there.                             *)
Named(m, loc) ==
    /\ m.op \in {"patch_evse", "put_connector", "patch_connector"} => EvsesOf(m, loc) # {}
    /\ m.op = "patch_connector" => ConnectorsOf(m, loc) # {}

(* Between its get and its put a handler holds an object it can change.     *)
HandlerOK(h, n) ==
    /\ handler[h].pc \in {"idle", "sent", "read", "done"}
    /\ Working(h) => handler[h].msg \in Messages /\ handler[h].stamp \in 1..n
    /\ Writing(h, LocationReads) =>
          handler[h].snapshot \in LocationUpTo(n) /\ Named(handler[h].msg, handler[h].snapshot)
    /\ Writing(h, {"patch_flat"}) => handler[h].snapshot \in FlatUpTo(n)

TypeInv ==
    /\ clock \in 0..MaxStamp
    /\ StoresOK(clock)
    /\ renamed \subseteq Mergeable
    /\ handler = [h \in Handlers |-> handler[h]]
    /\ \A h \in Handlers : HandlerOK(h, clock)

LEMMA PartsAre ==
    ASSUME NEW S, NEW T, NEW f \in Parts(S, T)
    PROVE  /\ f = [x \in DOMAIN f |-> f[x]]
           /\ DOMAIN f \subseteq S
           /\ \A x \in DOMAIN f : f[x] \in T
BY DEF Parts

LEMMA ArePart ==
    ASSUME NEW S, NEW T, NEW D \in SUBSET S, NEW f \in [D -> T]
    PROVE  f \in Parts(S, T)
BY DEF Parts

LEMMA PartsWith ==
    ASSUME NEW S, NEW T, NEW f \in Parts(S, T), NEW k \in S, NEW v \in T
    PROVE  With(f, k, v) \in Parts(S, T)
<1>1. With(f, k, v) \in [DOMAIN f \cup {k} -> T]
  BY PartsAre DEF With
<1>2. DOMAIN f \cup {k} \in SUBSET S
  BY PartsAre
<1> QED
  BY <1>1, <1>2, ArePart

LEMMA PartsGrow ==
    ASSUME NEW S, NEW T, NEW U, T \subseteq U
    PROVE  Parts(S, T) \subseteq Parts(S, U)
<1> SUFFICES ASSUME NEW f \in Parts(S, T) PROVE f \in Parts(S, U)
  OBVIOUS
<1>1. f \in [DOMAIN f -> U] /\ DOMAIN f \in SUBSET S
  BY PartsAre
<1> QED
  BY <1>1, ArePart

(* Stamps stay given out.                                                  *)
LEMMA StampsGrow ==
    ASSUME NEW m \in Nat, NEW n \in Nat, m <= n
    PROVE  /\ 1..m \subseteq 1..n
           /\ LocationUpTo(m) \subseteq LocationUpTo(n)
           /\ FlatUpTo(m) \subseteq FlatUpTo(n)
           /\ Parts(Locations, LocationUpTo(m)) \subseteq Parts(Locations, LocationUpTo(n))
           /\ Parts(Flat, FlatUpTo(m)) \subseteq Parts(Flat, FlatUpTo(n))
<1>1. 1..m \subseteq 1..n
  OBVIOUS
<1>2. ConnectorUpTo(m) \subseteq ConnectorUpTo(n)
  BY <1>1 DEF ConnectorUpTo
<1>3. EvseUpTo(m) \subseteq EvseUpTo(n)
  BY <1>1, <1>2 DEF EvseUpTo
<1>4. LocationUpTo(m) \subseteq LocationUpTo(n)
  BY <1>1, <1>3 DEF LocationUpTo
<1>5. FlatUpTo(m) \subseteq FlatUpTo(n)
  BY <1>1 DEF FlatUpTo
<1> QED
  BY <1>1, <1>4, <1>5, PartsGrow

LEMMA AppliesNames ==
    ASSUME NEW m, m.op \in LocationReads, NEW n, NEW locs \in Parts(Locations, LocationUpTo(n)),
           Applies(m, locs)
    PROVE  locs[m.id] \in LocationUpTo(n) /\ Named(m, locs[m.id])
<1>1. m.id \in DOMAIN locs /\ Named(m, locs[m.id])
  BY DEF Applies, Named
<1> QED
  BY <1>1, PartsAre

LEMMA NewEvseOK ==
    ASSUME NEW n \in Nat, NEW s \in 1..n, NEW e \in Evses
    PROVE  NewEvse(e, s) \in EvseUpTo(n)
<1>1. {[id |-> c, stamp |-> s] : c \in PutWith} \subseteq ConnectorUpTo(n)
  BY PeerStoreAssumption DEF ConnectorUpTo
<1> QED
  BY <1>1 DEF NewEvse, EvseUpTo

LEMMA NewLocationOK ==
    ASSUME NEW n \in Nat, NEW s \in 1..n, NEW m, m.evses \in SUBSET Evses
    PROVE  NewLocation(m, s) \in LocationUpTo(n)
<1>1. {NewEvse(e, s) : e \in m.evses} \subseteq EvseUpTo(n)
  BY NewEvseOK
<1> QED
  BY <1>1 DEF NewLocation, LocationUpTo

(* What a message names.                                                   *)
LEMMA NamesParts ==
    ASSUME NEW m \in Messages
    PROVE  /\ m.op = "put_location" => m.id \in Locations /\ m.evses \in SUBSET Evses
           /\ m.op = "patch_location" => m.becomes \in Locations
           /\ m.op \in LocationReads => m.id \in Locations
           /\ m.op \in {"put_evse", "patch_evse", "put_connector", "patch_connector"} => m.evse \in Evses
           /\ m.op = "patch_evse" => m.becomes \in Evses
           /\ m.op \in {"put_connector", "patch_connector"} => m.connector \in Connectors
           /\ m.op = "patch_connector" => m.becomes \in Connectors
           /\ m.op = "put_flat" => m.id \in Flat
           /\ m.op = "patch_flat" => m.id \in Mergeable /\ m.becomes \in Mergeable
           /\ m.op = "post_cdr" => m.id \in Cdrs
BY DEF Messages, Flat, LocationReads

LEMMA BecomesOK ==
    ASSUME NEW m \in Messages
    PROVE  /\ m.op \in LocationReads => Becomes(m) \in Locations
           /\ m.op = "patch_flat" => Becomes(m) \in Mergeable /\ Becomes(m) \in Flat
BY NamesParts DEF Becomes, LocationReads, Flat

LEMMA ChangedEvseOK ==
    ASSUME NEW n \in Nat, NEW s \in 1..n, NEW m \in Messages,
           m.op \in {"patch_evse", "put_connector", "patch_connector"},
           NEW evse \in EvseUpTo(n), NEW c
    PROVE  ChangedEvse(m, s, evse, c) \in EvseUpTo(n)
<1>1. evse.connectors \subseteq ConnectorUpTo(n)
  BY DEF EvseUpTo
<1>2. CASE m.op = "patch_evse"
  BY <1>2, NamesParts DEF ChangedEvse, EvseUpTo
<1>3. \A cs \in SUBSET ConnectorUpTo(n) : [evse EXCEPT !.connectors = cs] \in EvseUpTo(n)
  BY DEF EvseUpTo
<1>4. CASE m.op = "put_connector"
  <2> DEFINE new == {d \in evse.connectors : d.id # m.connector} \cup {[id |-> m.connector, stamp |-> s]}
  <2>1. new \in SUBSET ConnectorUpTo(n)
    BY <1>1, <1>4, NamesParts DEF ConnectorUpTo
  <2>2. ChangedEvse(m, s, evse, c) = [evse EXCEPT !.connectors = new]
    BY <1>4 DEF ChangedEvse
  <2> HIDE DEF new
  <2> QED
    BY <1>3, <2>1, <2>2
<1>5. CASE m.op = "patch_connector"
  <2> DEFINE new == (evse.connectors \ {c}) \cup {[id |-> m.becomes, stamp |-> s]}
  <2>1. new \in SUBSET ConnectorUpTo(n)
    BY <1>1, <1>5, NamesParts DEF ConnectorUpTo
  <2>2. ChangedEvse(m, s, evse, c) = [evse EXCEPT !.connectors = new]
    BY <1>5 DEF ChangedEvse
  <2> HIDE DEF new
  <2> QED
    BY <1>3, <2>1, <2>2
<1> QED
  BY <1>2, <1>4, <1>5

(* A part that is put or patched leaves a Location of the same kind.        *)
LEMMA ChangedOK ==
    ASSUME NEW n \in Nat, NEW s \in 1..n, NEW m \in Messages, m.op \in LocationReads,
           NEW loc \in LocationUpTo(n), Named(m, loc)
    PROVE  Changed(m, s, loc) \in LocationUpTo(n)
<1>1. loc.evses \subseteq EvseUpTo(n)
  BY DEF LocationUpTo
<1>2. \A evses \in SUBSET EvseUpTo(n) : [loc EXCEPT !.evses = evses] \in LocationUpTo(n)
  BY DEF LocationUpTo
<1>3. CASE m.op = "patch_location"
  BY <1>3 DEF Changed, LocationUpTo
<1>4. CASE m.op = "put_evse"
  <2> DEFINE new == {e \in loc.evses : e.uid # m.evse} \cup {NewEvse(m.evse, s)}
  <2>1. NewEvse(m.evse, s) \in EvseUpTo(n)
    BY <1>4, NamesParts, NewEvseOK
  <2>2. new \in SUBSET EvseUpTo(n)
    <3> HIDE DEF NewEvse
    <3> QED
      BY <1>1, <2>1
  <2>3. Changed(m, s, loc) = [loc EXCEPT !.evses = new]
    BY <1>4 DEF Changed
  <2> HIDE DEF new
  <2> QED
    BY <1>2, <2>2, <2>3
<1>5. CASE m.op \in {"patch_evse", "put_connector", "patch_connector"}
  <2> DEFINE old == EvseOf(m, loc)
             changed == ChangedEvse(m, s, old, ConnectorOf(m, loc))
             new == (loc.evses \ {old}) \cup {changed}
  <2>1. old \in EvseUpTo(n)
    BY <1>1, <1>5 DEF Named, EvseOf, EvsesOf
  <2> HIDE DEF old
  <2>2. changed \in EvseUpTo(n)
    BY <1>5, <2>1, ChangedEvseOK
  <2> HIDE DEF changed
  <2>3. new \in SUBSET EvseUpTo(n)
    BY <1>1, <2>2
  <2>4. Changed(m, s, loc) = [loc EXCEPT !.evses = new]
    BY <1>5 DEF Changed, old, changed
  <2> HIDE DEF new
  <2> QED
    BY <1>2, <2>3, <2>4
<1> QED
  BY <1>3, <1>4, <1>5 DEF LocationReads

LEMMA TypeInit == Init => TypeInv
<1> SUFFICES ASSUME Init PROVE TypeInv
  OBVIOUS
<1>1. \A h \in Handlers : handler[h].pc = "idle"
  BY DEF Init, Idle
<1>2. clock \in 0..MaxStamp
  BY PeerStoreAssumption DEF Init
<1>3. flat \in Parts(Flat, FlatUpTo(clock))
  <2>1. Nothing \in [{} -> FlatUpTo(clock)]
    BY DEF Nothing
  <2> QED
    BY <2>1, ArePart DEF Init
<1>4. locations \in Parts(Locations, LocationUpTo(clock))
  <2>1. Nothing \in [{} -> LocationUpTo(clock)]
    BY DEF Nothing
  <2> QED
    BY <2>1, ArePart DEF Init
<1>6. StoresOK(clock)
  BY <1>3, <1>4 DEF Init, StoresOK, Stores, Nothing
<1>5. \A h \in Handlers : HandlerOK(h, clock)
  BY <1>1 DEF HandlerOK, Working, Writing
<1> QED
  BY <1>2, <1>5, <1>6 DEF Init, TypeInv

(* A step of one handler, the others staying where they are.                *)
LEMMA TypeStep ==
    ASSUME TypeInv, NEW h \in Handlers, NEW state, handler' = [handler EXCEPT ![h] = state],
           clock' \in clock..MaxStamp, StoresOK(clock)', renamed' \subseteq Mergeable,
           handler'[h] = state => HandlerOK(h, clock)'
    PROVE  TypeInv'
<1>1. /\ handler' = [k \in Handlers |-> handler'[k]]
      /\ handler'[h] = state
      /\ \A k \in Handlers : k # h => handler'[k] = handler[k]
  BY DEF TypeInv
<1>2. clock \in Nat /\ clock' \in Nat /\ clock <= clock' /\ clock' \in 0..MaxStamp
  BY PeerStoreAssumption DEF TypeInv
<1>3. ASSUME NEW k \in Handlers PROVE HandlerOK(k, clock)'
  <2>1. CASE k = h
    BY <1>1, <2>1
  <2>2. CASE k # h
    <3>1. HandlerOK(k, clock) /\ handler'[k] = handler[k]
      BY <1>1, <2>2 DEF TypeInv
    <3>2. /\ 1..clock \subseteq 1..clock'
          /\ LocationUpTo(clock) \subseteq LocationUpTo(clock')
          /\ FlatUpTo(clock) \subseteq FlatUpTo(clock')
      BY <1>2, StampsGrow
    <3> QED
      BY <3>1, <3>2 DEF HandlerOK, Working, Writing, Named
  <2> QED
    BY <2>1, <2>2
<1> QED
  BY <1>1, <1>2, <1>3 DEF TypeInv

LEMMA StoresStay ==
    ASSUME TypeInv, clock' \in clock..MaxStamp, UNCHANGED <<locations, flat, cdrs, atomic>>
    PROVE  StoresOK(clock)'
<1>1. clock \in Nat /\ clock' \in Nat /\ clock <= clock'
  BY PeerStoreAssumption DEF TypeInv
<1>2. /\ Parts(Locations, LocationUpTo(clock)) \subseteq Parts(Locations, LocationUpTo(clock'))
      /\ Parts(Flat, FlatUpTo(clock)) \subseteq Parts(Flat, FlatUpTo(clock'))
  BY <1>1, StampsGrow
<1> QED
  BY <1>2 DEF TypeInv, StoresOK

LEMMA TypeSend ==
    ASSUME TypeInv, NEW h \in Handlers, NEW m \in Messages, Send(h, m)
    PROVE  TypeInv'
<1> DEFINE state == [pc |-> "sent", msg |-> m, stamp |-> clock + 1]
<1>1. /\ handler' = [handler EXCEPT ![h] = state] /\ clock < MaxStamp /\ clock' = clock + 1
      /\ UNCHANGED <<locations, flat, cdrs, atomic>> /\ renamed' \subseteq Mergeable
  BY DEF Send, TypeInv
<1>2. clock' \in clock..MaxStamp /\ clock + 1 \in 1..clock'
  BY <1>1, PeerStoreAssumption DEF TypeInv
<1>3. handler'[h] = state => HandlerOK(h, clock)'
  BY <1>2 DEF HandlerOK, Working, Writing
<1>4. StoresOK(clock)'
  BY <1>1, <1>2, StoresStay
<1> HIDE DEF state
<1> QED
  BY <1>1, <1>2, <1>3, <1>4, TypeStep

(* A handler ends, whatever it stored.                                     *)
LEMMA TypeReplies ==
    ASSUME TypeInv, NEW h \in Handlers, NEW r, Reply(h, r), UNCHANGED clock, StoresOK(clock)',
           renamed' \subseteq Mergeable
    PROVE  TypeInv'
<1> DEFINE state == [pc |-> "done", reply |-> r]
<1>1. handler' = [handler EXCEPT ![h] = state]
  BY DEF Reply
<1>2. handler'[h] = state => HandlerOK(h, clock)'
  BY DEF HandlerOK, Working, Writing
<1>3. clock' \in clock..MaxStamp
  BY PeerStoreAssumption DEF TypeInv
<1> HIDE DEF state
<1> QED
  BY <1>1, <1>2, <1>3, TypeStep

LEMMA StoresAsTheyAre ==
    ASSUME TypeInv, UNCHANGED <<clock, locations, flat, cdrs, atomic>>
    PROVE  StoresOK(clock)'
BY DEF TypeInv, StoresOK

LEMMA TypeLooks ==
    ASSUME TypeInv, NEW h \in Handlers,
           GetLocation(h) \/ GetFlat(h) \/ GetCdr(h) \/ RefusePatch(h)
    PROVE  TypeInv'
BY TypeReplies, StoresAsTheyAre DEF GetLocation, GetFlat, GetCdr, Looks, RefusePatch, TypeInv

LEMMA TypeReads ==
    ASSUME TypeInv, NEW h \in Handlers, NEW snapshot, Read(h, snapshot),
           handler[h].pc = "sent",
           UNCHANGED <<clock, locations, flat, cdrs, atomic, renamed>>,
           handler[h].msg.op \in LocationReads =>
               snapshot \in LocationUpTo(clock) /\ Named(handler[h].msg, snapshot),
           handler[h].msg.op = "patch_flat" => snapshot \in FlatUpTo(clock)
    PROVE  TypeInv'
<1> DEFINE state == [pc |-> "read", msg |-> handler[h].msg,
                     stamp |-> handler[h].stamp, snapshot |-> snapshot]
<1>1. handler' = [handler EXCEPT ![h] = state]
  BY DEF Read
<1>2. /\ state.pc = "read" /\ state.msg = handler[h].msg /\ state.stamp = handler[h].stamp
      /\ state.snapshot = snapshot
  OBVIOUS
<1>3. clock' \in clock..MaxStamp
  BY PeerStoreAssumption DEF TypeInv
<1> HIDE DEF state
<1>4. ASSUME handler'[h] = state PROVE HandlerOK(h, clock)'
  <2>1. handler[h].msg \in Messages /\ handler[h].stamp \in 1..clock
    BY DEF TypeInv, HandlerOK, Working
  <2> QED
    BY <1>2, <1>4, <2>1 DEF HandlerOK, Working, Writing, Named
<1> QED
  BY <1>1, <1>3, <1>4, TypeStep, StoresAsTheyAre DEF TypeInv

LEMMA TypeGets ==
    ASSUME TypeInv, NEW h \in Handlers, ReadLocation(h) \/ ReadFlat(h) \/ ReadCdr(h)
    PROVE  TypeInv'
<1>1. CASE ReadLocation(h)
  <2>1. CASE Applies(handler[h].msg, locations)
    <3>1. /\ locations[handler[h].msg.id] \in LocationUpTo(clock)
          /\ Named(handler[h].msg, locations[handler[h].msg.id])
      BY <1>1, <2>1, AppliesNames DEF TypeInv, StoresOK, ReadLocation, Handles
    <3> QED
      BY <1>1, <2>1, <3>1, TypeReads DEF ReadLocation, Handles, LocationReads
  <2>2. CASE ~Applies(handler[h].msg, locations)
    BY <1>1, <2>2, TypeReplies, StoresAsTheyAre DEF ReadLocation, TypeInv
  <2> QED
    BY <2>1, <2>2
<1>2. CASE ReadFlat(h)
  <2>1. CASE handler[h].msg.id \in DOMAIN flat
    <3>1. flat[handler[h].msg.id] \in FlatUpTo(clock)
      BY <2>1, PartsAre DEF TypeInv, StoresOK
    <3> QED
      BY <1>2, <2>1, <3>1, TypeReads DEF ReadFlat, Handles, LocationReads
  <2>2. CASE handler[h].msg.id \notin DOMAIN flat
    BY <1>2, <2>2, TypeReplies, StoresAsTheyAre DEF ReadFlat, TypeInv
  <2> QED
    BY <2>1, <2>2
<1>3. CASE ReadCdr(h)
  <2>1. CASE handler[h].msg.id \in DOMAIN cdrs
    BY <1>3, <2>1, TypeReplies, StoresAsTheyAre DEF ReadCdr, TypeInv
  <2>2. CASE handler[h].msg.id \notin DOMAIN cdrs
    BY <1>3, <2>2, TypeReads DEF ReadCdr, Handles, LocationReads
  <2> QED
    BY <2>1, <2>2
<1> QED
  BY <1>1, <1>2, <1>3

LEMMA AtomicRecord ==
    ASSUME TypeInv, NEW new
    PROVE  /\ [atomic EXCEPT !.locations = new] = Stores(new, atomic.flat, atomic.cdrs)
           /\ [atomic EXCEPT !.flat = new] = Stores(atomic.locations, new, atomic.cdrs)
           /\ [atomic EXCEPT !.cdrs = new] = Stores(atomic.locations, atomic.flat, new)
<1>1. atomic = Stores(atomic.locations, atomic.flat, atomic.cdrs)
  BY DEF TypeInv, StoresOK
<1> QED
  BY <1>1, OneStoreChanges

LEMMA TypePutLocation ==
    ASSUME TypeInv, NEW h \in Handlers, PutLocation(h)
    PROVE  TypeInv'
<1> DEFINE i == handler[h].msg.id
           new == NewLocation(handler[h].msg, handler[h].stamp)
<1>1. /\ Handles(h, {"put_location"})
      /\ locations' = With(locations, i, new)
      /\ atomic' = [atomic EXCEPT !.locations = With(atomic.locations, i, new)]
      /\ UNCHANGED <<clock, flat, cdrs, renamed>>
  BY DEF PutLocation
<1>2. PICK r : Reply(h, r)
  BY DEF PutLocation
<1>3. i \in Locations /\ new \in LocationUpTo(clock)
  <2>1. handler[h].msg \in Messages /\ handler[h].stamp \in 1..clock /\ clock \in Nat
    BY <1>1 DEF TypeInv, HandlerOK, Working, Handles
  <2>2. handler[h].msg.evses \in SUBSET Evses /\ i \in Locations
    BY <1>1, <2>1, NamesParts DEF Handles
  <2> QED
    BY <2>1, <2>2, NewLocationOK
<1> HIDE DEF i, new
<1>4. /\ With(locations, i, new) \in Parts(Locations, LocationUpTo(clock))
      /\ With(atomic.locations, i, new) \in Parts(Locations, LocationUpTo(clock))
  BY <1>3, PartsWith DEF TypeInv, StoresOK
<1>5. atomic' = Stores(With(atomic.locations, i, new), atomic.flat, atomic.cdrs)
  BY <1>1, AtomicRecord
<1> HIDE DEF With
<1>6. StoresOK(clock)'
  BY <1>1, <1>4, <1>5, OneStoreChanges DEF TypeInv, StoresOK
<1> QED
  BY <1>1, <1>2, <1>6, TypeReplies DEF TypeInv

LEMMA TypeWriteLocation ==
    ASSUME TypeInv, NEW h \in Handlers, WriteLocation(h)
    PROVE  TypeInv'
<1> DEFINE m == handler[h].msg
           s == handler[h].stamp
           i == Becomes(m)
           new == Changed(m, s, handler[h].snapshot)
           newAtomic == Changed(m, s, atomic.locations[m.id])
<1>1. /\ Writing(h, LocationReads) /\ locations' = With(locations, i, new)
      /\ atomic' = IF Applies(m, atomic.locations)
                   THEN [atomic EXCEPT !.locations = With(atomic.locations, i, newAtomic)]
                   ELSE atomic
      /\ UNCHANGED <<clock, flat, cdrs, renamed>>
  BY DEF WriteLocation
<1>2. PICK r : Reply(h, r)
  BY DEF WriteLocation
<1>3. /\ m \in Messages /\ s \in 1..clock /\ clock \in Nat /\ m.op \in LocationReads
      /\ handler[h].snapshot \in LocationUpTo(clock) /\ Named(m, handler[h].snapshot)
  BY <1>1 DEF TypeInv, HandlerOK, Working, Writing
<1>4. new \in LocationUpTo(clock) /\ i \in Locations
  BY <1>3, ChangedOK, BecomesOK
<1>5. ASSUME Applies(m, atomic.locations) PROVE newAtomic \in LocationUpTo(clock)
  <2>1. /\ atomic.locations[m.id] \in LocationUpTo(clock)
        /\ Named(m, atomic.locations[m.id])
    BY <1>3, <1>5, AppliesNames DEF TypeInv, StoresOK
  <2> QED
    BY <1>3, <2>1, ChangedOK
<1> HIDE DEF m, s, i, new, newAtomic
<1>6. With(locations, i, new) \in Parts(Locations, LocationUpTo(clock))
  BY <1>4, PartsWith DEF TypeInv, StoresOK
<1>7. ASSUME Applies(m, atomic.locations)
      PROVE  With(atomic.locations, i, newAtomic) \in Parts(Locations, LocationUpTo(clock))
  BY <1>4, <1>5, <1>7, PartsWith DEF TypeInv, StoresOK
<1> HIDE DEF With
<1>8. \/ atomic' = atomic
      \/ /\ Applies(m, atomic.locations)
         /\ atomic' = Stores(With(atomic.locations, i, newAtomic), atomic.flat, atomic.cdrs)
  BY <1>1, AtomicRecord
<1>9. StoresOK(clock)'
  BY <1>1, <1>6, <1>7, <1>8, OneStoreChanges DEF TypeInv, StoresOK
<1> QED
  BY <1>1, <1>2, <1>9, TypeReplies DEF TypeInv

LEMMA TypePutFlat ==
    ASSUME TypeInv, NEW h \in Handlers, PutFlat(h)
    PROVE  TypeInv'
<1> DEFINE i == handler[h].msg.id
           new == PutBody(handler[h].stamp)
<1>1. /\ Handles(h, {"put_flat"})
      /\ flat' = With(flat, i, new)
      /\ atomic' = [atomic EXCEPT !.flat = With(atomic.flat, i, new)]
      /\ UNCHANGED <<clock, locations, cdrs, renamed>>
  BY DEF PutFlat
<1>2. PICK r : Reply(h, r)
  BY DEF PutFlat
<1>3. i \in Flat /\ new \in FlatUpTo(clock)
  <2>1. handler[h].msg \in Messages /\ handler[h].stamp \in 1..clock
    BY <1>1 DEF TypeInv, HandlerOK, Working, Handles
  <2> QED
    BY <1>1, <2>1, NamesParts DEF Handles, PutBody, FlatUpTo
<1> HIDE DEF i, new
<1>4. /\ With(flat, i, new) \in Parts(Flat, FlatUpTo(clock))
      /\ With(atomic.flat, i, new) \in Parts(Flat, FlatUpTo(clock))
  BY <1>3, PartsWith DEF TypeInv, StoresOK
<1>5. atomic' = Stores(atomic.locations, With(atomic.flat, i, new), atomic.cdrs)
  BY <1>1, AtomicRecord
<1> HIDE DEF With
<1>6. StoresOK(clock)'
  BY <1>1, <1>4, <1>5, OneStoreChanges DEF TypeInv, StoresOK
<1> QED
  BY <1>1, <1>2, <1>6, TypeReplies DEF TypeInv

LEMMA PartsCut ==
    ASSUME NEW S, NEW T, NEW f \in Parts(S, T), NEW i
    PROVE  [j \in DOMAIN f \ {i} |-> f[j]] \in Parts(S, T)
<1>1. [j \in DOMAIN f \ {i} |-> f[j]] \in [DOMAIN f \ {i} -> T]
  BY PartsAre
<1>2. DOMAIN f \ {i} \in SUBSET S
  BY PartsAre
<1> QED
  BY <1>1, <1>2, ArePart

LEMMA TypeDeleteFlat ==
    ASSUME TypeInv, NEW h \in Handlers, DeleteFlat(h)
    PROVE  TypeInv'
<1> DEFINE i == handler[h].msg.id
           Cut(f) == [j \in DOMAIN f \ {i} |-> f[j]]
<1>1. /\ flat' = Cut(flat)
      /\ atomic' = [atomic EXCEPT !.flat = Cut(atomic.flat)]
      /\ UNCHANGED <<clock, locations, cdrs, renamed>>
  BY DEF DeleteFlat
<1>2. PICK r : Reply(h, r)
  BY DEF DeleteFlat
<1>3. /\ Cut(flat) \in Parts(Flat, FlatUpTo(clock))
      /\ Cut(atomic.flat) \in Parts(Flat, FlatUpTo(clock))
  BY PartsCut DEF TypeInv, StoresOK
<1> HIDE DEF Cut
<1>4. atomic' = Stores(atomic.locations, Cut(atomic.flat), atomic.cdrs)
  BY <1>1, AtomicRecord
<1>5. StoresOK(clock)'
  BY <1>1, <1>3, <1>4, OneStoreChanges DEF TypeInv, StoresOK
<1> QED
  BY <1>1, <1>2, <1>5, TypeReplies DEF TypeInv

LEMMA PatchedOK ==
    ASSUME NEW n \in Nat, NEW o \in FlatUpTo(n), NEW s \in 1..n
    PROVE  Patched(o, s) \in FlatUpTo(n)
BY DEF Patched, FlatUpTo

LEMMA TypeWriteFlat ==
    ASSUME TypeInv, NEW h \in Handlers, WriteFlat(h)
    PROVE  TypeInv'
<1> DEFINE m == handler[h].msg
           i == Becomes(m)
           new == Patched(handler[h].snapshot, handler[h].stamp)
           newAtomic == Patched(atomic.flat[m.id], handler[h].stamp)
<1>1. /\ Writing(h, {"patch_flat"})
      /\ flat' = With(flat, i, new)
      /\ atomic' = IF m.id \in DOMAIN atomic.flat
                   THEN [atomic EXCEPT !.flat = With(atomic.flat, i, newAtomic)]
                   ELSE atomic
      /\ renamed' = IF i = m.id THEN renamed ELSE renamed \cup {i}
      /\ Reply(h, "ok") /\ UNCHANGED <<clock, locations, cdrs>>
  BY DEF WriteFlat
<1>2. /\ m \in Messages /\ handler[h].stamp \in 1..clock /\ clock \in Nat
      /\ m.op = "patch_flat" /\ handler[h].snapshot \in FlatUpTo(clock)
  BY <1>1 DEF TypeInv, HandlerOK, Working, Writing
<1>3. i \in Flat /\ i \in Mergeable /\ new \in FlatUpTo(clock)
  BY <1>2, BecomesOK, PatchedOK
<1>4. ASSUME m.id \in DOMAIN atomic.flat PROVE newAtomic \in FlatUpTo(clock)
  <2>1. atomic.flat[m.id] \in FlatUpTo(clock)
    BY <1>4, PartsAre DEF TypeInv, StoresOK
  <2> QED
    BY <1>2, <2>1, PatchedOK
<1> HIDE DEF m, i, new, newAtomic
<1>5. With(flat, i, new) \in Parts(Flat, FlatUpTo(clock))
  BY <1>3, PartsWith DEF TypeInv, StoresOK
<1>6. ASSUME m.id \in DOMAIN atomic.flat
      PROVE  With(atomic.flat, i, newAtomic) \in Parts(Flat, FlatUpTo(clock))
  BY <1>3, <1>4, <1>6, PartsWith DEF TypeInv, StoresOK
<1>7. \/ atomic' = atomic
      \/ /\ m.id \in DOMAIN atomic.flat
         /\ atomic' = Stores(atomic.locations, With(atomic.flat, i, newAtomic), atomic.cdrs)
  BY <1>1, AtomicRecord
<1> HIDE DEF With
<1>8. StoresOK(clock)'
  BY <1>1, <1>5, <1>6, <1>7, OneStoreChanges DEF TypeInv, StoresOK
<1>9. renamed' \subseteq Mergeable
  BY <1>1, <1>3 DEF TypeInv
<1> QED
  BY <1>1, <1>8, <1>9, TypeReplies

LEMMA TypeWriteCdr ==
    ASSUME TypeInv, NEW h \in Handlers, WriteCdr(h)
    PROVE  TypeInv'
<1> DEFINE i == handler[h].msg.id
           s == [stamp |-> handler[h].stamp]
           new == IF i \in DOMAIN atomic.cdrs THEN atomic.cdrs ELSE With(atomic.cdrs, i, s)
<1>1. /\ Writing(h, {"post_cdr"}) /\ cdrs' = With(cdrs, i, s)
      /\ atomic' = [atomic EXCEPT !.cdrs = new]
      /\ Reply(h, "created") /\ UNCHANGED <<clock, locations, flat, renamed>>
  BY DEF WriteCdr
<1>2. i \in Cdrs
  BY <1>1, NamesParts DEF TypeInv, HandlerOK, Working, Writing
<1> HIDE DEF i, s, new
<1>3. DOMAIN cdrs' \subseteq Cdrs
  BY <1>1, <1>2 DEF With, TypeInv, StoresOK
<1>4. atomic' = Stores(atomic.locations, atomic.flat, new)
  BY <1>1, AtomicRecord
<1>5. StoresOK(clock)'
  BY <1>1, <1>3, <1>4, OneStoreChanges DEF TypeInv, StoresOK
<1> QED
  BY <1>1, <1>5, TypeReplies DEF TypeInv

LEMMA TypeNext == TypeInv /\ [Next]_svars => TypeInv'
<1> SUFFICES ASSUME TypeInv, [Next]_svars PROVE TypeInv'
  OBVIOUS
<1>1. CASE UNCHANGED svars
  BY <1>1 DEF svars, TypeInv, StoresOK, HandlerOK, Working, Writing, Named
<1>2. CASE Next
  <2>1. PICK h \in Handlers : Handle(h) \/ \E m \in Messages : Send(h, m)
    BY <1>2 DEF Next
  <2>2. CASE \E m \in Messages : Send(h, m)
    BY <2>2, TypeSend
  <2>3. CASE Handle(h)
    BY <2>3, TypeLooks, TypeGets, TypePutLocation, TypePutFlat, TypeDeleteFlat,
       TypeWriteLocation, TypeWriteFlat, TypeWriteCdr DEF Handle
  <2> QED
    BY <2>1, <2>2, <2>3
<1> QED
  BY <1>1, <1>2

LEMMA LocationsAreOK ==
    ASSUME NEW loc \in LocationUpTo(clock)
    PROVE  LocationOK(loc)
<1>1. loc.stamp \in 1..clock /\ loc.evses \subseteq EvseUpTo(clock)
  BY DEF LocationUpTo
<1>2. \A e \in EvseUpTo(clock) : EvseOK(e)
  BY DEF EvseUpTo, EvseOK, ConnectorUpTo, ConnectorType
<1> QED
  BY <1>1, <1>2 DEF LocationOK

(* Whatever is put, patched or put back after others did, every store holds *)
(* well-formed objects with the stamps of messages that were sent.          *)
THEOREM StoresKeepTheirTypes == Spec => []TypeOK
<1>1. ASSUME TypeInv PROVE TypeOK
  <2>1. /\ DOMAIN locations \subseteq Locations
        /\ \A i \in DOMAIN locations : LocationOK(locations[i])
    <3> DEFINE T == LocationUpTo(clock)
    <3>1. locations \in Parts(Locations, T)
      BY <1>1 DEF TypeInv, StoresOK
    <3> HIDE DEF T
    <3>2. DOMAIN locations \subseteq Locations /\ \A i \in DOMAIN locations : locations[i] \in T
      BY <3>1, PartsAre
    <3> QED
      BY <3>2, LocationsAreOK DEF T
  <2>2. /\ DOMAIN flat \subseteq Flat
        /\ \A i \in DOMAIN flat : flat[i].stamp \in 1..clock /\ flat[i].body \in 1..clock
    <3> DEFINE T == FlatUpTo(clock)
    <3>1. flat \in Parts(Flat, T)
      BY <1>1 DEF TypeInv, StoresOK
    <3> HIDE DEF T
    <3>2. DOMAIN flat \subseteq Flat /\ \A i \in DOMAIN flat : flat[i] \in T
      BY <3>1, PartsAre
    <3> QED
      BY <3>2 DEF T, FlatUpTo
  <2> QED
    BY <1>1, <2>1, <2>2 DEF TypeOK, TypeInv, StoresOK, HandlerOK, Working
<1>2. TypeInv => TypeOK
  BY <1>1
<1> QED
  BY <1>2, TypeInit, TypeNext, PTL DEF Spec
=============================================================================
