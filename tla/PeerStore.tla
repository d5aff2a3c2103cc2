------------------------------ MODULE PeerStore ------------------------------
(***************************************************************************)
(* testkit/peer.rs over testkit/stores.rs: the handlers of a MockPeer, run *)
(* side by side by a multi-threaded server. A store takes its RwLock once  *)
(* per call, so a handler that only gets or only puts is one step; one     *)
(* that reads, changes what it read and puts it back is two, and anything  *)
(* may happen in between.                                                  *)
(*                                                                         *)
(* A write is known by its stamp, the last_updated it carries; stamps are  *)
(* given out as messages are sent, and messages may overtake each other.   *)
(***************************************************************************)
EXTENDS Integers, FiniteSets

CONSTANTS
    Handlers,    \* requests that may be in progress at the same time
    Locations,   \* ids of Locations
    Evses,       \* EVSE uids of a Location
    Connectors,  \* connector ids of an EVSE
    PutWith,     \* the connectors an EVSE has when it is put
    Mergeable,   \* ids of Sessions, or else of Tokens: PUT and PATCH
    Removable,   \* ids of Tariffs: PUT and DELETE
    Cdrs,        \* ids of CDRs: POST
    MaxStamp     \* bound: how many messages are sent

ASSUME PeerStoreAssumption ==
    /\ MaxStamp \in Nat
    /\ PutWith \subseteq Connectors
    /\ Mergeable \cap Removable = {}

Flat == Mergeable \cup Removable

VARIABLES
    clock,       \* stamps given out
    locations,   \* the Location store, by id
    flat,        \* the Session (or Token) and Tariff stores, by id
    cdrs,        \* the CDR store, by id
    handler,     \* each handler's message, progress, snapshot and reply
    atomic,      \* history: the stores had every handler been one step
    overlapped,  \* history: an object was written between a handler's get and put
    created,     \* history: 201s answered per flat id
    removed,     \* history: successful DELETEs per flat id
    renamed      \* history: flat ids that a PATCH of another id gave an object

stores == <<locations, flat, cdrs, atomic>>
counts == <<created, removed, renamed>>
svars == <<clock, stores, handler, overlapped, counts>>

Nothing == [x \in {} |-> {}]
Idle == [pc |-> "idle"]
With(f, k, v) == [x \in DOMAIN f \cup {k} |-> IF x = k THEN v ELSE f[x]]

(* Plausible slip: Tariffs, too, are read, patched and put back. *)
Messages_PatchTariff ==
    [op : {"put_flat", "get_flat", "delete_flat"}, id : Flat]
    \cup [op : {"patch_flat"}, id : Flat, becomes : Flat]

(* What is PUT is stored under the id in its body, whatever the URL says    *)
(* (the router compares them for a Location only). What a PATCH leaves may  *)
(* have another id than it was found by.                                    *)
Messages ==
    [op : {"put_location"}, id : Locations, evses : SUBSET Evses]
    \cup [op : {"patch_location"}, id : Locations, becomes : Locations]
    \cup [op : {"put_evse"}, id : Locations, evse : Evses]
    \cup [op : {"patch_evse"}, id : Locations, evse : Evses, becomes : Evses]
    \cup [op : {"put_connector"}, id : Locations, evse : Evses, connector : Connectors]
    \cup [op : {"patch_connector"}, id : Locations, evse : Evses, connector : Connectors,
                                   becomes : Connectors]
    \cup [op : {"put_flat"}, id : Flat]
    \cup [op : {"patch_flat"}, id : Mergeable, becomes : Mergeable]
    \cup [op : {"delete_flat"}, id : Removable]
    \cup [op : {"post_cdr"}, id : Cdrs]
    \cup [op : {"get_location"}, id : Locations]
    \cup [op : {"get_evse"}, id : Locations, evse : Evses]
    \cup [op : {"get_connector"}, id : Locations, evse : Evses, connector : Connectors]
    \cup [op : {"get_flat"}, id : Flat]
    \cup [op : {"get_cdr"}, id : Cdrs]

LocationGets == {"get_location", "get_evse", "get_connector"}
LocationReads == {"patch_location", "put_evse", "patch_evse", "put_connector", "patch_connector"}
Patches == {"patch_location", "patch_evse", "patch_connector", "patch_flat"}

Kind(m) ==
    CASE m.op \in LocationReads \cup {"put_location"} -> "location"
      [] m.op = "post_cdr" -> "cdr"
      [] OTHER -> "flat"

(* The stored object a message finds, and the one it leaves: put() keys it  *)
(* by the id that is in it by then.                                        *)
Becomes(m) == IF m.op \in {"patch_location", "patch_flat"} THEN m.becomes ELSE m.id
Found(m) == <<Kind(m), m.id>>
Left(m) == <<Kind(m), Becomes(m)>>

-----------------------------------------------------------------------------
(* What one message does to the object it is applied to.                   *)

(* Plausible slip: an object is stamped when it is stored, not as sent. *)
PutBody_Stamped(s) == [stamp |-> clock + 1, body |-> s]

NewEvse(e, s) ==
    [uid |-> e, stamp |-> s, connectors |-> {[id |-> c, stamp |-> s] : c \in PutWith}]
NewLocation(m, s) == [stamp |-> s, evses |-> {NewEvse(e, s) : e \in m.evses}]

(* evse() and connector(): the first of that id. There is more than one     *)
(* only by a PATCH, and then nothing here tells which comes first.          *)
EvsesOf(m, loc) == {e \in loc.evses : e.uid = m.evse}
EvseOf(m, loc) == CHOOSE e \in EvsesOf(m, loc) : TRUE
ConnectorsOf(m, loc) == {c \in EvseOf(m, loc).connectors : c.id = m.connector}
ConnectorOf(m, loc) == CHOOSE c \in ConnectorsOf(m, loc) : TRUE

(* Is the Location, EVSE or connector the message names there?             *)
Applies(m, locs) ==
    /\ m.id \in DOMAIN locs
    /\ m.op \in {"get_evse", "get_connector", "patch_evse", "put_connector", "patch_connector"} =>
          EvsesOf(m, locs[m.id]) # {}
    /\ m.op \in {"get_connector", "patch_connector"} => ConnectorsOf(m, locs[m.id]) # {}

(* Does a put replace an EVSE or connector, which is a 200 and not a 201? *)
Known(m, loc) ==
    /\ m.op = "put_evse" => EvsesOf(m, loc) # {}
    /\ m.op = "put_connector" => ConnectorsOf(m, loc) # {}

(* put_evse() and put_connector() replace all of that id or add one, and    *)
(* the patches change one part, its id perhaps; none of them touches the   *)
(* stamp of what encloses it.                                              *)
ChangedEvse(m, s, evse, connector) ==
    CASE m.op = "patch_evse" -> [evse EXCEPT !.uid = m.becomes, !.stamp = s]
      [] m.op = "put_connector" ->
            [evse EXCEPT !.connectors =
                {c \in @ : c.id # m.connector} \cup {[id |-> m.connector, stamp |-> s]}]
      [] m.op = "patch_connector" ->
            [evse EXCEPT !.connectors = (@ \ {connector}) \cup {[id |-> m.becomes, stamp |-> s]}]

Changed(m, s, loc) ==
    CASE m.op = "patch_location" -> [loc EXCEPT !.stamp = s]
      [] m.op = "put_evse" ->
            [loc EXCEPT !.evses = {e \in @ : e.uid # m.evse} \cup {NewEvse(m.evse, s)}]
      [] m.op \in {"patch_evse", "put_connector", "patch_connector"} ->
            LET old == EvseOf(m, loc)
            IN  [loc EXCEPT !.evses =
                    (@ \ {old}) \cup {ChangedEvse(m, s, old, ConnectorOf(m, loc))}]

(* A flat object: who wrote its body, and when it was last updated. *)
PutBody(s) == [stamp |-> s, body |-> s]
Patched(o, s) == [o EXCEPT !.stamp = s]

-----------------------------------------------------------------------------

Init ==
    /\ clock = 0
    /\ locations = Nothing
    /\ flat = Nothing
    /\ cdrs = Nothing
    /\ handler = [h \in Handlers |-> Idle]
    /\ atomic = [locations |-> Nothing, flat |-> Nothing, cdrs |-> Nothing]
    /\ overlapped = FALSE
    /\ created = [i \in Flat |-> 0]
    /\ removed = [i \in Flat |-> 0]
    /\ renamed = {}

(* A message is stamped and sent; when it is handled is another matter. *)
Send(h, m) ==
    /\ handler[h].pc \in {"idle", "done"}
    /\ clock < MaxStamp
    /\ clock' = clock + 1
    /\ handler' = [handler EXCEPT ![h] = [pc |-> "sent", msg |-> m, stamp |-> clock + 1]]
    /\ UNCHANGED <<stores, overlapped, counts>>

Handles(h, ops) == handler[h].pc = "sent" /\ handler[h].msg.op \in ops
Reply(h, r) == handler' = [handler EXCEPT ![h] = [pc |-> "done", reply |-> r]]

(* h writes an object: has another handler read it, to put it back later? *)
Puts(h) ==
    overlapped' = (overlapped \/ \E k \in Handlers \ {h} :
                      /\ handler[k].pc = "read"
                      /\ Found(handler[k].msg) = Left(handler[h].msg))

(* The handlers that only look: of Senders and Receivers alike, one get.    *)
Looks(h, found) ==
    /\ Reply(h, IF found THEN "ok" ELSE "missing")
    /\ UNCHANGED <<clock, stores, overlapped, counts>>

(* location(), evse(), connector() *)
GetLocation(h) ==
    /\ Handles(h, LocationGets)
    /\ Looks(h, Applies(handler[h].msg, locations))

(* session(), tariff(), token(); authorize() and charging_preferences() are  *)
(* refused, too, for a Token or Session that is not there.                  *)
GetFlat(h) ==
    /\ Handles(h, {"get_flat"})
    /\ Looks(h, handler[h].msg.id \in DOMAIN flat)

GetCdr(h) ==
    /\ Handles(h, {"get_cdr"})
    /\ Looks(h, handler[h].msg.id \in DOMAIN cdrs)

(* put_location(): one put *)
PutLocation(h) ==
    /\ Handles(h, {"put_location"})
    /\ LET i == handler[h].msg.id
           new == NewLocation(handler[h].msg, handler[h].stamp)
       IN  /\ locations' = With(locations, i, new)
           /\ atomic' = [atomic EXCEPT !.locations = With(atomic.locations, i, new)]
           /\ Reply(h, IF i \in DOMAIN locations THEN "ok" ELSE "created")
    /\ Puts(h)
    /\ UNCHANGED <<clock, flat, cdrs, counts>>

(* put_session(), put_token(), put_tariff(): one put, which says if it is new *)
PutFlat(h) ==
    /\ Handles(h, {"put_flat"})
    /\ LET i == handler[h].msg.id
           new == PutBody(handler[h].stamp)
       IN  /\ flat' = With(flat, i, new)
           /\ atomic' = [atomic EXCEPT !.flat = With(atomic.flat, i, new)]
           /\ IF i \in DOMAIN flat
              THEN Reply(h, "ok") /\ UNCHANGED created
              ELSE Reply(h, "created") /\ created' = [created EXCEPT ![i] = @ + 1]
    /\ Puts(h)
    /\ UNCHANGED <<clock, locations, cdrs, removed, renamed>>

(* delete_tariff(): one remove, which says if it was there *)
DeleteFlat(h) ==
    /\ Handles(h, {"delete_flat"})
    /\ LET i == handler[h].msg.id
       IN  /\ flat' = [j \in DOMAIN flat \ {i} |-> flat[j]]
           /\ atomic' = [atomic EXCEPT !.flat = [j \in DOMAIN atomic.flat \ {i} |-> atomic.flat[j]]]
           /\ IF i \in DOMAIN flat
              THEN Reply(h, "ok") /\ removed' = [removed EXCEPT ![i] = @ + 1]
              ELSE Reply(h, "missing") /\ UNCHANGED removed
    /\ Puts(h)
    /\ UNCHANGED <<clock, locations, cdrs, created, renamed>>

Read(h, snapshot) ==
    handler' = [handler EXCEPT ![h] = [pc |-> "read", msg |-> handler[h].msg,
                                       stamp |-> handler[h].stamp, snapshot |-> snapshot]]

(* The get of a handler that will put: a missing object ends it here. *)
ReadLocation(h) ==
    /\ Handles(h, LocationReads)
    /\ LET m == handler[h].msg
       IN  IF Applies(m, locations) THEN Read(h, locations[m.id]) ELSE Reply(h, "missing")
    /\ UNCHANGED <<clock, stores, overlapped, counts>>

ReadFlat(h) ==
    /\ Handles(h, {"patch_flat"})
    /\ LET i == handler[h].msg.id
       IN  IF i \in DOMAIN flat THEN Read(h, flat[i]) ELSE Reply(h, "missing")
    /\ UNCHANGED <<clock, stores, overlapped, counts>>

(* Plausible slip: a CDR is put without a look at what is there. *)
ReadCdr_Unchecked(h) ==
    /\ Handles(h, {"post_cdr"})
    /\ Read(h, Nothing)
    /\ UNCHANGED <<clock, stores, overlapped, counts>>

(* post_cdr(): refused when the id is there already *)
ReadCdr(h) ==
    /\ Handles(h, {"post_cdr"})
    /\ IF handler[h].msg.id \in DOMAIN cdrs THEN Reply(h, "refused") ELSE Read(h, Nothing)
    /\ UNCHANGED <<clock, stores, overlapped, counts>>

Writing(h, ops) == handler[h].pc = "read" /\ handler[h].msg.op \in ops

(* apply() fails: what the merge leaves lacks a required field or does not  *)
(* conform, so nothing is put. Which patch does that to what is data.       *)
RefusePatch(h) ==
    /\ Writing(h, Patches)
    /\ Reply(h, "refused")
    /\ UNCHANGED <<clock, stores, overlapped, counts>>

(* The put: what was read, changed, replaces what is there by now -- under  *)
(* the id it has since the change.                                         *)
WriteLocation(h) ==
    /\ Writing(h, LocationReads)
    /\ LET m == handler[h].msg
           s == handler[h].stamp
       IN  /\ locations' = With(locations, Becomes(m), Changed(m, s, handler[h].snapshot))
           /\ atomic' = IF Applies(m, atomic.locations)
                        THEN [atomic EXCEPT !.locations =
                                 With(@, Becomes(m), Changed(m, s, @[m.id]))]
                        ELSE atomic
           /\ Reply(h, IF Known(m, handler[h].snapshot) THEN "ok" ELSE "created")
    /\ Puts(h)
    /\ UNCHANGED <<clock, flat, cdrs, counts>>

WriteFlat(h) ==
    /\ Writing(h, {"patch_flat"})
    /\ LET m == handler[h].msg
           s == handler[h].stamp
       IN  /\ flat' = With(flat, Becomes(m), Patched(handler[h].snapshot, s))
           /\ atomic' = IF m.id \in DOMAIN atomic.flat
                        THEN [atomic EXCEPT !.flat = With(@, Becomes(m), Patched(@[m.id], s))]
                        ELSE atomic
           /\ renamed' = IF Becomes(m) = m.id THEN renamed ELSE renamed \cup {Becomes(m)}
    /\ Puts(h)
    /\ Reply(h, "ok")
    /\ UNCHANGED <<clock, locations, cdrs, created, removed>>

WriteCdr(h) ==
    /\ Writing(h, {"post_cdr"})
    /\ LET i == handler[h].msg.id
           s == [stamp |-> handler[h].stamp]
       IN  /\ cdrs' = With(cdrs, i, s)
           /\ atomic' = [atomic EXCEPT !.cdrs = IF i \in DOMAIN @ THEN @ ELSE With(@, i, s)]
    /\ Puts(h)
    /\ Reply(h, "created")
    /\ UNCHANGED <<clock, locations, flat, counts>>

Handle(h) ==
    \/ GetLocation(h) \/ GetFlat(h) \/ GetCdr(h)
    \/ PutLocation(h) \/ PutFlat(h) \/ DeleteFlat(h)
    \/ ReadLocation(h) \/ ReadFlat(h) \/ ReadCdr(h)
    \/ RefusePatch(h) \/ WriteLocation(h) \/ WriteFlat(h) \/ WriteCdr(h)

Next == \E h \in Handlers : Handle(h) \/ \E m \in Messages : Send(h, m)

Spec == Init /\ [][Next]_svars

-----------------------------------------------------------------------------

ConnectorType == [id : Connectors, stamp : 1..clock]
EvseOK(e) ==
    /\ e.uid \in Evses
    /\ e.stamp \in 1..clock
    /\ e.connectors \subseteq ConnectorType
LocationOK(loc) == loc.stamp \in 1..clock /\ \A e \in loc.evses : EvseOK(e)

(* Every store holds objects with stamps that were given out. *)
TypeOK ==
    /\ clock \in 0..MaxStamp
    /\ DOMAIN locations \subseteq Locations /\ \A i \in DOMAIN locations : LocationOK(locations[i])
    /\ DOMAIN flat \subseteq Flat /\ DOMAIN cdrs \subseteq Cdrs
    /\ \A i \in DOMAIN flat : flat[i].stamp \in 1..clock /\ flat[i].body \in 1..clock
    /\ renamed \subseteq Mergeable
    /\ \A h \in Handlers :
        /\ handler[h].pc \in {"idle", "sent", "read", "done"}
        /\ handler[h].pc \in {"sent", "read"} => handler[h].msg \in Messages

(* The handlers of peer.rs take the lock twice, to get and to put. As long  *)
(* as no request writes an object another has read and will put back, every *)
(* store is what it would be had each handler been one step: no             *)
(* acknowledged write is lost, and none shows that was refused, however     *)
(* requests for different objects interleave, in whatever order they arrive *)
(* and whatever a PATCH renames.                                           *)
AtomicUnlessOverlapped ==
    ~overlapped => atomic = [locations |-> locations, flat |-> flat, cdrs |-> cdrs]

(* stores.rs put() says `created' under the lock that inserts, and remove() *)
(* whether it removed: over any interleaving of PUT, PATCH and DELETE an id *)
(* is answered 201 exactly once for each time it came to exist, unless it   *)
(* is the id a PATCH of another object wrote into it: that object comes to  *)
(* exist under a 200, and a PUT of it is a replacement. It needs that what  *)
(* can be deleted is never read and put back (Tariffs have no PATCH in      *)
(* peer.rs), or a PATCH could revive what a DELETE removed.                 *)
CreatedOncePerLife ==
    \A i \in Flat :
        created[i] - removed[i] \in IF i \notin DOMAIN flat THEN {0}
                                   ELSE IF i \in renamed THEN {0, 1} ELSE {1}
=============================================================================
