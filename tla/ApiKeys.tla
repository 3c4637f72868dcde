------------------------------- MODULE ApiKeys --------------------------------
(***************************************************************************)
(* The table api_keys (internal/auth), the handlers that create and revoke *)
(* keys (internal/api/keys.go) with the events they write.  A step is one  *)
(* statement, so the handlers of all instances interleave.  Authentication *)
(* (internal/middleware/auth.go) reads the table in one statement:         *)
(* Resolves is its outcome for a raw key.  A key created with an expiry    *)
(* expires at any time or not at all, which covers a key without one.      *)
(* A statement fails without effect, or its caller gets an error although  *)
(* it takes effect.                                                        *)
(***************************************************************************)
EXTENDS Integers, FiniteSets

CONSTANTS
    Creations, Revocations,  \* calls of the handlers
    Names,       \* names of keys
    SeedName,    \* "admin-prod"
    Seed,        \* the key of SENTRYMESH_ADMIN_KEY; other keys are named
                 \* after the creation that generated them
    MaxFaults    \* bound: failed statements

ASSUME KeysAssumption ==
    /\ IsFiniteSet(Creations)
    /\ Seed \notin Creations /\ SeedName \in Names
    /\ MaxFaults \in Nat

VARIABLES
    rows,       \* api_keys: id -> [raw, name, revoked, expired]
    authEvents, \* auth_events, [type, key, call]
    create,     \* program counter of a creation
    name,       \* the name it asks for
    found,      \* the id FindByName returned
    revoke,     \* program counter of a revocation
    target,     \* the id it was given
    faults

keyVars == <<rows, authEvents, create, name, found, revoke, target, faults>>

Raws == Creations \cup {Seed}
Ids == 1 .. Cardinality(Raws)
Row == [raw : Raws, name : Names, revoked : BOOLEAN, expired : BOOLEAN]

KeysInit ==
    /\ rows = <<>>
    /\ authEvents = {}
    /\ create = [c \in Creations |-> "new"]
    /\ name \in [Creations -> Names]
    /\ found = [c \in Creations |-> 0]
    /\ revoke = [v \in Revocations |-> "new"]
    /\ target = [v \in Revocations |-> 0]
    /\ faults = 0

-----------------------------------------------------------------------------
(* Statements of the store *)

\* A statement returns an error; bounded.
Fault == faults < MaxFaults /\ faults' = faults + 1

NextId == Cardinality(DOMAIN rows) + 1

Inserted(raw, n) ==
    [i \in DOMAIN rows \cup {NextId} |->
       IF i = NextId THEN [raw |-> raw, name |-> n, revoked |-> FALSE, expired |-> FALSE]
                     ELSE rows[i]]

\* key_hash is UNIQUE.
Exists(raw) == \E i \in DOMAIN rows : rows[i].raw = raw

\* Resolve: the key of a raw key that is neither revoked nor expired.
Resolves(raw) ==
    \E i \in DOMAIN rows : rows[i].raw = raw /\ ~rows[i].revoked /\ ~rows[i].expired

Named(n) == {i \in DOMAIN rows : rows[i].name = n}

\* Mutant: the oldest key of that name.
FirstByName(n) == CHOOSE i \in Named(n) : \A j \in Named(n) : i <= j

\* FindByName: ORDER BY id DESC LIMIT 1.
LastByName(n) == CHOOSE i \in Named(n) : \A j \in Named(n) : j <= i

\* RevokeByID: the row that UPDATE ... AND revoked_at IS NULL affects.
Revocable(id) == id \in DOMAIN rows /\ ~rows[id].revoked

WithRevoked(id) == [rows EXCEPT ![id].revoked = TRUE]

-----------------------------------------------------------------------------
(* CreateKeyHandler *)

\* The generated key is new, so the insert never meets an existing hash; an
\* insert that returned an error may have happened.
InsertKey(c) ==
    /\ create[c] = "new"
    /\ \/ /\ rows' = Inserted(c, name[c])
          /\ create' = [create EXCEPT ![c] = "inserted"]
          /\ UNCHANGED faults
       \/ /\ Fault
          /\ rows' \in {rows, Inserted(c, name[c])}
          /\ create' = [create EXCEPT ![c] = "failed"]
    /\ UNCHANGED <<authEvents, name, found, revoke, target>>

\* The id of the new key is looked up by its name; without it the handler
\* answers and writes no event.
FindByName(c) ==
    /\ create[c] = "inserted"
    /\ \/ /\ found' = [found EXCEPT ![c] = LastByName(name[c])]
          /\ create' = [create EXCEPT ![c] = "found"]
          /\ UNCHANGED faults
       \/ /\ Fault
          /\ create' = [create EXCEPT ![c] = "answered"]
          /\ UNCHANGED found
    /\ UNCHANGED <<rows, authEvents, name, revoke, target>>

\* An error of WriteAuthEvent is logged.
WriteCreated(c) ==
    /\ create[c] = "found"
    /\ create' = [create EXCEPT ![c] = "answered"]
    /\ \/ /\ authEvents' = authEvents \cup {[type |-> "API_KEY_CREATED", key |-> found[c], call |-> c]}
          /\ UNCHANGED faults
       \/ Fault /\ UNCHANGED authEvents
    /\ UNCHANGED <<rows, name, found, revoke, target>>

-----------------------------------------------------------------------------
(* RevokeKeyHandler *)

\* An unknown id, or a failed query, is 404.
FindByID(v, id) ==
    /\ revoke[v] = "new"
    /\ target' = [target EXCEPT ![v] = id]
    /\ \/ /\ revoke' = [revoke EXCEPT ![v] = IF id \in DOMAIN rows THEN "found" ELSE "404"]
          /\ UNCHANGED faults
       \/ /\ Fault
          /\ revoke' = [revoke EXCEPT ![v] = "404"]
    /\ UNCHANGED <<rows, authEvents, create, name, found>>

\* No row affected, and an error, is 404 as well.
RevokeByID(v) ==
    /\ revoke[v] = "found"
    /\ \/ /\ IF Revocable(target[v])
               THEN /\ rows' = WithRevoked(target[v])
                    /\ revoke' = [revoke EXCEPT ![v] = "revoked"]
               ELSE revoke' = [revoke EXCEPT ![v] = "404"] /\ UNCHANGED rows
          /\ UNCHANGED faults
       \/ /\ Fault
          /\ revoke' = [revoke EXCEPT ![v] = "404"]
          /\ rows' \in {rows, WithRevoked(target[v])}
    /\ UNCHANGED <<authEvents, create, name, found, target>>

WriteRevoked(v) ==
    /\ revoke[v] = "revoked"
    /\ revoke' = [revoke EXCEPT ![v] = "200"]
    /\ \/ /\ authEvents' = authEvents \cup {[type |-> "API_KEY_REVOKED", key |-> target[v], call |-> v]}
          /\ UNCHANGED faults
       \/ Fault /\ UNCHANGED authEvents
    /\ UNCHANGED <<rows, create, name, found, target>>

-----------------------------------------------------------------------------
(* Time *)

\* The seed key has no expiry.
Expire(id) ==
    /\ rows[id].raw # Seed /\ ~rows[id].expired
    /\ rows' = [rows EXCEPT ![id].expired = TRUE]
    /\ UNCHANGED <<authEvents, create, name, found, revoke, target, faults>>

KeysNext ==
    \/ \E c \in Creations : InsertKey(c) \/ FindByName(c) \/ WriteCreated(c)
    \/ \E v \in Revocations :
          (\E id \in Ids : FindByID(v, id)) \/ RevokeByID(v) \/ WriteRevoked(v)
    \/ \E id \in DOMAIN rows : Expire(id)

-----------------------------------------------------------------------------
(* Properties *)

\* Every variable has its type, and ids are dense.
KeysTypeOK ==
    /\ DOMAIN rows \subseteq Ids /\ \A i \in DOMAIN rows : rows[i] \in Row
    /\ \A e \in authEvents : e.key \in Ids
    /\ create \in [Creations -> {"new", "inserted", "found", "failed", "answered"}]
    /\ name \in [Creations -> Names]
    /\ found \in [Creations -> Ids \cup {0}]
    /\ revoke \in [Revocations -> {"new", "found", "revoked", "200", "404", "lost"}]
    /\ target \in [Revocations -> Ids \cup {0}]
    /\ faults \in 0 .. MaxFaults

OwnId(c) == CHOOSE i \in DOMAIN rows : rows[i].raw = c

\* The event of a creation names the new key, or, since the id is found by
\* name, a key of the same name that was created while the call ran.  It
\* never names a key that existed before, and with a name of its own it
\* names its own key.
EventsNameTheirKey ==
    \A e \in authEvents :
       e.type = "API_KEY_CREATED" =>
          /\ rows[e.key].name = name[e.call]
          /\ e.key >= OwnId(e.call)
          /\ Named(name[e.call]) = {OwnId(e.call)} => e.key = OwnId(e.call)

\* A revocation that was answered 200 is the only one of its key, and from
\* then on the key never resolves again, whatever calls overlap and whatever
\* processes restart and seed.
RevocationIsFinal ==
    [][/\ \A v, w \in Revocations :
             revoke'[v] \in {"revoked", "200"} /\ revoke'[w] \in {"revoked", "200"} /\ v # w =>
                target'[v] # target'[w]
       /\ \A v \in Revocations :
             revoke[v] \in {"revoked", "200"} => ~Resolves(rows[target[v]].raw)']_keyVars
==============================================================================
