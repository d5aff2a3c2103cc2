----------------------------- MODULE TokenStore -----------------------------
(***************************************************************************)
(* server/auth.rs and transport/auth.rs: InMemoryTokenStore, the list of   *)
(* (token, AuthenticatedPeer) pairs a server knows its callers by, and the *)
(* scope of a token. Every operation holds the RwLock from its first to    *)
(* its last line, so each is one operator from a list to a list.           *)
(***************************************************************************)
EXTENDS Naturals, Sequences
Seqs == INSTANCE SequencesExt

Roles == {"A", "C"}   \* B is the token the server itself calls with
Unknown == [token |-> "unknown", platform |-> "unknown", role |-> "none"]

Entry(t, p, r) == [token |-> t, platform |-> p, role |-> r]

Known(entries) == {entries[i] : i \in DOMAIN entries}

(* retain: those among the first n that have another token, in their order. *)
Without(entries, t) ==
    LET kept[n \in 0..Len(entries)] ==
            IF n = 0 THEN <<>>
            ELSE IF entries[n].token = t THEN kept[n - 1]
            ELSE Append(kept[n - 1], entries[n])
    IN  kept[Len(entries)]

Insert(entries, t, p, r) == Append(Without(entries, t), Entry(t, p, r))
Remove(entries, t) == Without(entries, t)

(* The places where a platform's tokens stand.                             *)
PlacesOf(entries, p) == {i \in DOMAIN entries : entries[i].platform = p}

(* Plausible slip: the new token is entered and the old one is left.       *)
Rotate_Adds(entries, p, t) ==
    IF PlacesOf(entries, p) = {} THEN entries
    ELSE LET i == CHOOSE i \in PlacesOf(entries, p) : \A j \in PlacesOf(entries, p) : i <= j
         IN  Append(entries, Entry(t, p, entries[i].role))

(* The first pair of the platform goes, its peer comes back at the end with *)
(* the new token. A platform the store does not know is left alone.         *)
Rotate(entries, p, t) ==
    IF PlacesOf(entries, p) = {} THEN entries
    ELSE LET i == CHOOSE i \in PlacesOf(entries, p) : \A j \in PlacesOf(entries, p) : i <= j
         IN  Append(Seqs!RemoveAt(entries, i), Entry(t, p, entries[i].role))

Resolve(entries, t) ==
    IF \E e \in Known(entries) : e.token = t
    THEN entries[CHOOSE i \in DOMAIN entries :
                    /\ entries[i].token = t
                    /\ \A j \in 1..(i - 1) : entries[j].token # t]
    ELSE Unknown

MayAccess(role, module) ==
    role = "A" => module \in {"credentials", "versions"}

(* Would a request to the module, with the token, reach its handler?       *)
Admits(entries, t, module) ==
    /\ Resolve(entries, t) # Unknown
    /\ MayAccess(Resolve(entries, t).role, module)
=============================================================================
