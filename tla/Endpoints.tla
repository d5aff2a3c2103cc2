------------------------------ MODULE Endpoints ------------------------------
(***************************************************************************)
(* transport/endpoints.rs: the URLs below the one a client discovered, as  *)
(* the segments that are appended to it. On a Receiver interface a client  *)
(* owned object comes after its owner's two segments.                      *)
(***************************************************************************)
EXTENDS Sequences

None == "none"

Base == <<>>                       \* list(), and what is posted to a module
Object(id) == <<id>>

(* A Connector without an EVSE cannot be addressed.                         *)
Location(location, evse, connector) ==
    <<location>> \o (IF evse = None THEN <<>>
                     ELSE IF connector = None THEN <<evse>> ELSE <<evse, connector>>)

TokenAuthorize(uid) == Append(Object(uid), "authorize")
ChargingPreferences(session) == Append(Object(session), "charging_preferences")
Command(name) == Object(name)
ChargingProfile(session) == Object(session)

(* One module, two URLs: a peer may have published the base of both, or one *)
(* of them.                                                                 *)
SubPath(base, segment) ==
    IF base # <<>> /\ base[Len(base)] = segment THEN base ELSE Append(base, segment)

TerminalActivate == <<"activate">>
TerminalDeactivate(id) == Append(Object(id), "deactivate")
=============================================================================
