-------------------------------- MODULE MCHub --------------------------------
(* A hub with one CPO, and eMSPs on other versions than its own. *)
EXTENDS Hub

CONSTANTS hub, nobody, cpo, emsp, nsp

Cpo == [party |-> cpo, role |-> "CPO"]
Emsp == [party |-> emsp, role |-> "EMSP"]
Nsp == [party |-> nsp, role |-> "NSP"]

Platform(parties, serves, version) ==
    [parties |-> parties, serves |-> serves, version |-> version, status |-> "CONNECTED"]

CpoPlatform == Platform(<<Cpo>>, Interfaces, "2.3.0")
EmspOld == Platform(<<Emsp, Nsp>>, Interfaces, "2.2.1")
EmspNew == Platform(<<Emsp>>, Interfaces, "2.3.0")
NspOld == Platform(<<Nsp>>, Interfaces, "2.1.1")
NspReader == Platform(<<Nsp>>, {"SENDER"}, "2.2.1")
CpoOld == Platform(<<Cpo>>, Interfaces, "2.1.1")

MCPlatforms == 1..3
MCRegistrations == {CpoPlatform, EmspOld, EmspNew, NspOld, NspReader, CpoOld}
MCInitialTable == <<CpoPlatform, EmspOld, NspOld>>

Ask(method, interface, from, role, to, version) ==
    [method |-> method, interface |-> interface, from |-> from, role |-> role, to |-> to,
     owner |-> nobody, version |-> version, answer |-> "named",
     body |-> IF method = "GET" THEN "none" ELSE "named"]

AgreedPatch ==
    [Ask("PATCH", "RECEIVER", cpo, "CPO", emsp, "2.3.0") EXCEPT !.body = "agreed"]

(* STOP_SESSION: the same body at every version, not the same answer *)
StopSession ==
    [Ask("POST", "RECEIVER", emsp, "EMSP", cpo, "2.2.1") EXCEPT
        !.body = "same", !.answer = "foreign"]

(* a push to everyone, a read of everyone, and each way to name one party *)
MCRequests ==
    { Ask("PUT", "RECEIVER", cpo, "CPO", hub, "2.3.0"),
      AgreedPatch,
      StopSession,
      Ask("GET", "SENDER", emsp, "EMSP", hub, "2.2.1"),
      Ask("GET", "SENDER", nsp, "NSP", cpo, "2.1.1"),
      Ask("GET", "RECEIVER", cpo, "CPO", hub, "2.3.0"),
      Ask("PUT", "SENDER", emsp, "EMSP", hub, "2.2.1"),
      Ask("PUT", "RECEIVER", cpo, "CPO", nobody, "2.3.0"),
      [Ask("PUT", "RECEIVER", cpo, "CPO", nobody, "2.3.0") EXCEPT !.owner = emsp] }

(* one EVSE status patch from the CPO to an eMSP a version behind *)
MCPatchOnly == {AgreedPatch}
=============================================================================
