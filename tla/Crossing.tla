------------------------------ MODULE Crossing ------------------------------
(***************************************************************************)
(* An object kept by its owner in one version, and by a peer in the other. *)
(* Either the owner is a typed client of 2.3.0 and the peer speaks 2.2.1,   *)
(* or the owner speaks 2.2.1 and the peer is a server of 2.3.0 behind its   *)
(* edge. The owner edits the object by merge patches and tells the peer by  *)
(* PATCH where a patch means the same in both versions; a PATCH that is     *)
(* refused is followed by a PUT, of the object or of what a GET returned.   *)
(***************************************************************************)
EXTENDS Convert
LOCAL C == INSTANCE Conformance
LOCAL INSTANCE SequencesExt
LOCAL INSTANCE FiniteSetsExt

CONSTANTS
    Documents,   \* what an owner may start from: [kind, home, doc]
    Edits,       \* of each kind, the patches its owner may make
    MaxEdits     \* bound: how many it makes

VARIABLES
    kind,    \* the object's ObjectKind
    home,    \* the owner's version
    doc,     \* the owner's document
    copy,    \* the peer's, in the other version; Empty until it was sent one
    due,     \* what the peer still has to be told: "nothing", "patch", "whole"
    patch,   \* the patch that is due, or that was refused
    edits
vars == <<kind, home, doc, copy, due, patch, edits>>

Away == IF home = Canonical THEN "2.2.1" ELSE Canonical

Problems(version, of, document) == C!Problems(version, of, Written(version, of, document))

(* The modules with a PATCH.                                                *)
Patched == {"Location", "Evse", "Connector", "Session", "Token"}

(* The fields of these that hold an object, which RFC 7396 merges into.     *)
Composite == {"coordinates", "opening_times", "energy_mix", "cdr_token", "total_cost"}

(* merge(): null removes.                                                   *)
RECURSIVE Merged(_, _)
Merged(target, changes) ==
    LET removed == {f \in DOMAIN changes : changes[f] = Null}
        value(f) == IF f \in Composite
                    THEN Merged(IF Has(target, f) THEN target[f] ELSE Empty, changes[f])
                    ELSE changes[f]
    IN  [f \in (DOMAIN target \cup DOMAIN changes) \ removed |->
            IF f \in DOMAIN changes THEN value(f) ELSE target[f]]

-----------------------------------------------------------------------------
Sent(document) == Bridge(kind, home, Away, document)
Returned == Bridge(kind, Away, home, copy)

(* check_outgoing(): a typed client sends nothing that does not conform.    *)
MayLeave(document) == home = Canonical => Problems(home, kind, document) = {}

(* put_bridged(), or the edge before a PUT handler; the peer decodes it.    *)
Put(document) ==
    /\ Decodes(home, kind, document)
    /\ MayLeave(document)
    /\ Decodes(Away, kind, Sent(document).value)
    /\ copy' = Written(Away, kind, Sent(document).value)
    /\ due' = "nothing"
    /\ patch' = Empty
    /\ UNCHANGED <<kind, home, doc, edits>>

(* Plausible slip: the fields two versions disagree about are not looked up. *)
Applies_Anything ==
    LET merged == Merged(copy, patch)
    IN  copy # Empty /\ Decodes(Away, kind, merged) /\ Problems(Away, kind, merged) = {}

(* Patch::apply(): the whole object has to conform once it is patched.      *)
Applies ==
    LET merged == Merged(copy, patch)
    IN  /\ PatchCrossesUnchanged(kind, DOMAIN patch)
        /\ copy # Empty
        /\ Decodes(Away, kind, merged)
        /\ Problems(Away, kind, merged) = {}

-----------------------------------------------------------------------------
Init ==
    /\ \E start \in Documents : kind = start.kind /\ home = start.home /\ doc = start.doc
    /\ copy = Empty
    /\ due = "whole"
    /\ patch = Empty
    /\ edits = 0

(* The owner changes its object; two changes at once are told as a whole.   *)
Edit(changes) ==
    /\ edits < MaxEdits
    /\ Decodes(home, kind, Merged(doc, changes))
    /\ doc' = Merged(doc, changes)
    /\ due' = IF due = "nothing" /\ kind \in Patched THEN "patch" ELSE "whole"
    /\ patch' = IF due = "nothing" /\ kind \in Patched THEN changes ELSE Empty
    /\ edits' = edits + 1
    /\ UNCHANGED <<kind, home, copy>>

PatchTaken ==
    /\ due = "patch"
    /\ Applies
    /\ copy' = Written(Away, kind, Merged(copy, patch))
    /\ due' = "nothing"
    /\ patch' = Empty
    /\ UNCHANGED <<kind, home, doc, edits>>

(* patch_bridged() will not send it, or the peer will not have it.          *)
PatchRefused ==
    /\ due = "patch"
    /\ ~Applies
    /\ due' = "whole"
    /\ UNCHANGED <<kind, home, doc, copy, patch, edits>>

(* PatchFallback::PutWholeObject.                                           *)
PutWhole == due = "whole" /\ Put(doc)

(* PatchFallback::GetThenReconcile: get_bridged(), the patch, put_bridged(). *)
PutBack ==
    /\ due = "whole"
    /\ patch # Empty
    /\ copy # Empty
    /\ Put(Merged(Returned.value, patch))

Next ==
    \/ \E changes \in Edits[kind] : Edit(changes)
    \/ PatchTaken
    \/ PatchRefused
    \/ PutWhole
    \/ PutBack

Spec == Init /\ [][Next]_vars

-----------------------------------------------------------------------------
(* An extension has the name of a field that the other version added.       *)
RECURSIVE Promoted(_, _)
Promoted(of, document) ==
    \/ DOMAIN document \cap (Known(Away, of) \ Known(home, of)) # {}
    \/ \E f \in PartsIn(home, of, document) :
          \E part \in PartsOf(home, of, document, f) : Promoted(Parts(home, of)[f], part)

(* Each party holds a document of its own version, whatever the other sent  *)
(* it, and what the owner holds converts to a document of the peer's.       *)
TypeOK ==
    /\ kind \in Kinds /\ home \in Versions /\ edits \in 0..MaxEdits
    /\ due \in {"nothing", "patch", "whole"}
    /\ patch \in {Empty} \cup Edits[kind]
    /\ Decodes(home, kind, doc)
    /\ copy # Empty => Decodes(Away, kind, copy)
    /\ ~Promoted(kind, doc) => Decodes(Away, kind, Sent(doc).value)

(* A peer that was told everything holds the owner's object in its version, *)
(* however it was told: a patch that crosses unchanged means the same in    *)
(* both, and GET, patch, PUT does not bring back what a crossing had lost.  *)
(* An extension that was taken for a field is lost by the latter.           *)
CopyFollows ==
    (due = "nothing" /\ ~Promoted(kind, doc)) =>
        copy = Written(Away, kind, Sent(doc).value)

(* Where two of the owner's documents differ, as JSON pointers: down to the  *)
(* member, unless it is missing in one of them or a list of another length. *)
RECURSIVE Differences(_, _, _)
Differences(of, one, other) ==
    LET alike(f) == Has(one, f) /\ Has(other, f) /\ one[f] = other[f]
        differing == {f \in DOMAIN one \cup DOMAIN other : ~alike(f)}
        nested == {f \in differing \cap PartsIn(home, of, one) \cap PartsIn(home, of, other) :
                      IsList(home, of, f) => Len(one[f]) = Len(other[f])}
        inner(f, a, b) == Differences(Parts(home, of)[f], a, b)
        within(f) == IF IsList(home, of, f)
                     THEN UNION {Absorb(<<Index(i)>>, inner(f, one[f][i], other[f][i])) :
                                    i \in DOMAIN one[f]}
                     ELSE inner(f, one[f], other[f])
    IN  {<<f>> : f \in differing \ nested} \cup UNION {Absorb(<<f>>, within(f)) : f \in nested}

(* A hub that was a role comes back as the last one. What is said of any     *)
(* further HUB role, or of one whose party id is not five characters, is    *)
(* lost in silence, against docs/concepts/versions.md:58: "A conversion     *)
(* never silently drops anything."                                         *)
NamelessHub ==
    /\ kind = "Credentials"
    /\ \/ HubParty(doc) = Unfit /\ Has(doc, "hub_party_id")
       \/ \E i \in DOMAIN doc.roles : IsHub(doc.roles[i]) /\ ToHubPartyId(doc.roles[i]) = Unfit

Arranged(document) ==
    IF kind # "Credentials" THEN document
    ELSE LET hubs == SelectSeq(document.roles, IsHub)
         IN  [document EXCEPT !.roles = OtherRoles(@) \o
                (IF hubs = <<>> \/ ToHubPartyId(hubs[1]) = Unfit THEN <<>> ELSE <<hubs[1]>>)]

Trip == Bridge(kind, Away, home, Sent(doc).value)

(* A difference is told of where the report points to it. "/hub_party_id"    *)
(* also tells that the hub's business_details are another role's, or that   *)
(* there is no other role to be its model.                                  *)
Told(difference) ==
    LET losses == Sent(doc).lossy \cup Trip.lossy
    IN  \/ \E loss \in losses : IsPrefix(loss, difference) \/ IsPrefix(difference, loss)
        \/ /\ kind = "Credentials" /\ <<"hub_party_id">> \in losses
           /\ \/ OtherRoles(doc.roles) = <<>> /\ difference = <<"roles">>
              \/ IsPrefix(<<"roles", Index(Len(Arranged(doc).roles)), "business_details">>, difference)

(* What is lost in silence nevertheless: an extension of a tax that is folded *)
(* into incl_vat, one of a HUB role, and a hub_party_id that names no party. *)
Silent(difference) ==
    \/ /\ Len(difference) = 4 /\ difference[1] \in {"total_cost"} \cup TotalCosts
       /\ difference[2] = "taxes" /\ difference[4] \notin Known(home, "TaxAmount")
    \/ /\ kind = "Credentials" /\ Len(difference) = 3
       /\ difference[2] = Index(Len(Arranged(doc).roles))
       /\ difference[3] \notin Known(home, "Role")
    \/ difference = <<"hub_party_id">> /\ NamelessHub

(* What would be read back differs from what the owner keeps only where one *)
(* of the two crossings reports a loss, but for what is Silent.             *)
RoundTripTold ==
    Decodes(Away, kind, Sent(doc).value) =>
        \A difference \in Differences(kind, Arranged(Written(home, kind, doc)),
                                      Arranged(Written(home, kind, Trip.value))) :
            Told(difference) \/ Silent(difference)

(* Losses do not accumulate: what was read back crosses again as it did,    *)
(* unless the hub was all there was to say, or an extension was taken for a *)
(* field of 2.3.0 and is gone after one round trip.                         *)
OnlyAHub == kind = "Credentials" /\ (NamelessHub \/ \A i \in DOMAIN doc.roles : IsHub(doc.roles[i]))

Settles ==
    (due = "nothing" /\ ~OnlyAHub /\ ~Promoted(kind, doc)) =>
        copy = Written(Away, kind, Sent(Returned.value).value)

(* The rules of one version: 2.2.1 closed its enums, taxes a price with VAT *)
(* alone, and does not take 1970 for the end of a CDR that has none; 2.3.0  *)
(* checks quantities that 2.2.1 only carries.                               *)
OnlyIn(version, pointer) ==
    IF version = "2.2.1"
    THEN \/ Last(pointer) \in {"standard", "type", "connector_standard", "incl_vat"}
         \/ "parking_restrictions" \in ToSet(pointer)
         \/ kind = "Cdr" /\ doc.end_date_time = 0 /\ pointer = <<"end_date_time">>
    ELSE \/ Last(pointer) \in {"max_electric_power", "credit", "total_energy",
                               "total_parking_time", "after_taxes", "hub_party_id"}
         \/ "taxes" \in ToSet(pointer)
         \/ pointer = <<"token">>

Blamed(version, document) ==
    {p \in Problems(version, kind, document) : ~OnlyIn(version, p)}

(* Both versions' validators find the same fault with an object, so what    *)
(* check_outgoing() passed in 2.3.0 conforms in the 2.2.1 it is sent as:     *)
(* apart from the rules of one version and from what was reported lost.     *)
JudgedAlike ==
    (due = "nothing" /\ ~OnlyAHub) =>
        LET lost == Sent(doc).lossy
            gone(p) == \E loss \in lost : IsPrefix(loss, p)
        IN  {p \in Blamed(home, doc) : ~gone(p)} = {p \in Blamed(Away, copy) : ~gone(p)}
=============================================================================
