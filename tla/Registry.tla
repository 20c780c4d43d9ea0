------------------------------- MODULE Registry -------------------------------
(***************************************************************************)
(* The API as a client meets it: accounts and their keys, and what belongs *)
(* to whom (auth_service.py, registry_service.py, and the reads of         *)
(* drift_service.py).                                                      *)
(*                                                                         *)
(* The models of a user, the versions of a model and the runs of a version *)
(* are numbered as they are made; their names, and what the uniqueness of  *)
(* names refuses, are left out. A model is its owner and its number, a     *)
(* version its model and its number. A key is a name for its text.         *)
(***************************************************************************)
EXTENDS Naturals

CONSTANTS
    Users,       \* the e-mail addresses
    Keys,
    None,        \* no key, nobody's key
    MaxModels,   \* bound: models of a user
    MaxVersions, \* bound: versions of a model
    AtFirst      \* what the server may hold at first

Models == Users \X (1..MaxModels)
Versions == Models \X (1..MaxVersions)

ASSUME RegistryAssumption ==
    /\ {MaxModels, MaxVersions} \subseteq Nat
    /\ None \notin Users \cup Keys \cup Models \cup Versions
    /\ AtFirst \subseteq [keyOf: [Keys -> Users \cup {None}],
                          models: [Users -> 0..MaxModels],
                          versions: [Models -> 0..MaxVersions]]
    /\ \A first \in AtFirst :
          /\ \A u \in Users : first.models[u] > 0 => \E k \in Keys : first.keyOf[k] = u
          /\ \A m \in Models : first.versions[m] > 0 => m[2] <= first.models[m[1]]

VARIABLES
    keyOf,       \* key -> whose it is, None: not issued
    revoked,     \* the revoked keys
    stored       \* how many there are of "models" of each user, "versions" of each
                 \* model and "runs" of each version

server == <<keyOf, revoked, stored>>

RegistryTypeOK ==
    /\ keyOf \in [Keys -> Users \cup {None}]
    /\ revoked \subseteq {k \in Keys : keyOf[k] # None}
    /\ stored \in [models: [Users -> 0..MaxModels], versions: [Models -> 0..MaxVersions],
                   runs: [Versions -> Nat]]

RegistryInit ==
    \E first \in AtFirst :
        /\ keyOf = first.keyOf
        /\ revoked = {}
        /\ stored = [models |-> first.models, versions |-> first.versions,
                     runs |-> [v \in Versions |-> 0]]
-----------------------------------------------------------------------------
(* Accounts and keys.                                                      *)

\* An account is made with its first key, and keys are kept when they are revoked.
Registered(u) == \E k \in Keys : keyOf[k] = u

\* The user a key is taken for.
Authenticate(k) == IF k \in Keys \ revoked THEN keyOf[k] ELSE None

IssueKey(u, k) ==
    /\ keyOf[k] = None
    /\ keyOf' = [keyOf EXCEPT ![k] = u]
    /\ UNCHANGED <<revoked, stored>>

\* POST /signup.
CreateUser(u, k) == ~Registered(u) /\ IssueKey(u, k)

\* POST /api-keys, with any key of the user.
CreateApiKey(k) == \E j \in Keys : Authenticate(j) # None /\ IssueKey(Authenticate(j), k)

\* DELETE /api-keys/{id}, with any key of its user, itself for one.
RevokeApiKey(k) ==
    /\ keyOf[k] # None /\ \E j \in Keys : Authenticate(j) = keyOf[k]
    /\ revoked' = revoked \cup {k}
    /\ UNCHANGED <<keyOf, stored>>
-----------------------------------------------------------------------------
(* What a user may read and change: 404 otherwise.                         *)

OwnsModel(u, m) == m[1] = u
OwnsVersion(u, v) == OwnsModel(u, v[1])

ListModels(u) == stored["models"][u]
ListVersions(m) == stored["versions"][m]
ListDriftRuns(v) == stored["runs"][v]

CreateModel(u) ==
    /\ stored["models"][u] < MaxModels
    /\ stored' = [stored EXCEPT !["models"][u] = @ + 1]
    /\ UNCHANGED <<keyOf, revoked>>

CreateVersion(m) ==
    /\ stored["versions"][m] < MaxVersions
    /\ stored' = [stored EXCEPT !["versions"][m] = @ + 1]
    /\ UNCHANGED <<keyOf, revoked>>

CreateDriftRun(v) ==
    /\ stored' = [stored EXCEPT !["runs"][v] = @ + 1]
    /\ UNCHANGED <<keyOf, revoked>>
=============================================================================
