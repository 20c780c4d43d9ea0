---------------------------- MODULE DashboardProofs ----------------------------
(***************************************************************************)
(* Type correctness of the browser and of what it calls, for any number of *)
(* users, models, versions, keys and acts.                                 *)
(*                                                                         *)
(* What is hard to type is a handler: what it is about, whose key went     *)
(* with its request and how far the answer may go depend on the await it   *)
(* is at. TypeInv says so for each call under way, and each of its parts   *)
(* is shown for a call that starts, one that goes on, and one that ends.   *)
(***************************************************************************)
EXTENDS Dashboard, TLAPS

-----------------------------------------------------------------------------
(* Bags of calls, and what a handler has before it.                        *)

LEMMA BagAddMembers ==
    ASSUME NEW B, NEW x
    PROVE  /\ BagToSet(BagAdd(B, x)) = BagToSet(B) \cup {x}
           /\ \A e \in BagToSet(B) : e # x => BagAdd(B, x)[e] = B[e]
           /\ x \notin BagToSet(B) => BagAdd(B, x)[x] = 1
BY DEF BagToSet, BagAdd

LEMMA BagRemoveMembers ==
    ASSUME NEW B, NEW x
    PROVE  /\ BagToSet(BagRemove(B, x)) \subseteq BagToSet(B)
           /\ BagToSet(B) \ {x} \subseteq BagToSet(BagRemove(B, x))
           /\ x \in BagToSet(B) /\ B[x] = 1 => x \notin BagToSet(BagRemove(B, x))
           /\ \A e \in BagToSet(BagRemove(B, x)) : e # x => BagRemove(B, x)[e] = B[e]
BY DEF BagToSet, BagRemove

LEMMA BagCupMembers ==
    ASSUME NEW B, NEW C
    PROVE  /\ BagToSet(B (+) C) = BagToSet(B) \cup BagToSet(C)
           /\ \A e \in BagToSet(B) \ BagToSet(C) : B[e] \in Nat => (B (+) C)[e] = B[e]
BY DEF BagToSet, (+)

LEMMA LoadsMembers ==
    ASSUME NEW lists, NEW u, NEW owner
    PROVE  BagToSet(Loads(lists, u, owner)) = {Call(list, u, owner, 0) : list \in lists}
BY DEF Loads, BagToSet, SetToBag

LEMMA NoMembers == BagToSet(EmptyBag) = {}
BY DEF BagToSet, EmptyBag, SetToBag

LEMMA UnmountedMembers ==
    ASSUME NEW B
    PROVE  /\ BagToSet(Unmounted(B)) = {c \in BagToSet(B) : c.handler \notin PanelHandlers}
           /\ \A c \in BagToSet(Unmounted(B)) : Unmounted(B)[c] = B[c]
BY DEF Unmounted, BagToSet

LEMMA OutlivedMembers ==
    ASSUME NEW B, NEW handlers
    PROVE  BagToSet(Outlived(handlers, B)) =
               {[c EXCEPT !.live = @ /\ c.handler \notin handlers] :
                   c \in {d \in BagToSet(B) : d.handler \notin handlers \cap Lists}}
BY DEF Outlived, BagToSet, BagOfAll

\* What a handler can wait for.
Requests == {"commit", "reply", "panel", "runs", "alerts", "detail", "features",
             "models", "versions"}

\* The awaits that lie before a handler are the last of all its awaits.
Remain(a, h) ==
    /\ a \in Seq(Requests) /\ a # <<>> /\ Len(a) <= Len(Awaits(h))
    /\ \A i \in 1..Len(a) : a[i] = Awaits(h)[Len(Awaits(h)) - Len(a) + i]

LEMMA AwaitsOf ==
    ASSUME NEW h \in Handlers
    PROVE  /\ h = "check" => Awaits(h) = <<"commit", "reply", "runs", "alerts">>
           /\ h = "addFeature" => Awaits(h) = <<"commit", "reply", "panel">>
           /\ h = "addVersion" => Awaits(h) = <<"commit", "reply", "versions">>
           /\ h = "addModel" => Awaits(h) = <<"commit", "reply", "models">>
           /\ h = "signup" => Awaits(h) = <<"commit", "reply">>
           /\ h \notin {"check", "addFeature", "addVersion", "addModel", "signup"} =>
                  Awaits(h) = <<h>>
<1>1. h = "check" => Awaits(h) = <<"commit", "reply", "runs", "alerts">>
  BY Zenon DEF Awaits
<1>2. h = "addFeature" => Awaits(h) = <<"commit", "reply", "panel">>
  BY Zenon DEF Awaits
<1>3. h = "addVersion" => Awaits(h) = <<"commit", "reply", "versions">>
  BY Zenon DEF Awaits
<1>4. h = "addModel" => Awaits(h) = <<"commit", "reply", "models">>
  BY Zenon DEF Awaits
<1>5. h = "signup" => Awaits(h) = <<"commit", "reply">>
  BY Zenon DEF Awaits
<1>6. h \notin {"check", "addFeature", "addVersion", "addModel", "signup"} => Awaits(h) = <<h>>
  BY Zenon DEF Awaits
<1> QED BY <1>1, <1>2, <1>3, <1>4, <1>5, <1>6

LEMMA SelectedOf ==
    /\ Selected("models") = User
    /\ Selected("versions") = modelId
    /\ \A list \in VersionLists : Selected(list) = versionId
<1>0. "models" \notin VersionLists /\ "versions" \notin VersionLists
  BY DEF VersionLists, PanelLists
<1>1. Selected("models") = User
  BY <1>0, Zenon DEF Selected
<1>2. Selected("versions") = modelId
  BY <1>0, Zenon DEF Selected
<1>3. ASSUME NEW list \in VersionLists PROVE Selected(list) = versionId
  <2>1. list # "models" /\ list # "versions"
    BY DEF VersionLists, PanelLists
  <2> QED BY <2>1, Zenon DEF Selected
<1> QED BY <1>1, <1>2, <1>3

LEMMA StoredOf ==
    ASSUME NEW await, NEW u, NEW owner
    PROVE  /\ await = "models" /\ u # None => Stored(await, u, owner) = ListModels(u)
           /\ await = "models" /\ u = None => Stored(await, u, owner) = 0
           /\ await = "versions" => Stored(await, u, owner) = ListVersions(owner)
           /\ await = "runs" => Stored(await, u, owner) = ListDriftRuns(owner)
           /\ await \notin {"models", "versions", "runs"} => Stored(await, u, owner) = 0
<1>1. await = "models" /\ u # None => Stored(await, u, owner) = ListModels(u)
  BY Zenon DEF Stored
<1>2. await = "models" /\ u = None => Stored(await, u, owner) = 0
  BY Zenon DEF Stored
<1>3. await = "versions" => Stored(await, u, owner) = ListVersions(owner)
  BY Zenon DEF Stored
<1>4. await = "runs" => Stored(await, u, owner) = ListDriftRuns(owner)
  BY Zenon DEF Stored
<1>5. await \notin {"models", "versions", "runs"} => Stored(await, u, owner) = 0
  BY Zenon DEF Stored
<1> QED BY <1>1, <1>2, <1>3, <1>4, <1>5

LEMMA AwaitsType ==
    ASSUME NEW h \in Handlers
    PROVE  Awaits(h) \in Seq(Requests) /\ Awaits(h) # <<>>
<1> DEFINE Some(a) == a \in Seq(Requests) /\ a # <<>>
<1>1. Some(<<"commit", "reply", "runs", "alerts">>)
  BY DEF Requests
<1>2. ASSUME NEW r \in Requests PROVE Some(<<"commit", "reply", r>>) /\ Some(<<r>>)
  BY DEF Requests
<1>3. /\ Some(<<"commit", "reply", "panel">>) /\ Some(<<"commit", "reply", "versions">>)
      /\ Some(<<"commit", "reply", "models">>)
  BY <1>2 DEF Requests
<1>4. Some(<<"commit", "reply">>)
  BY DEF Requests
<1>5. h \notin {"check", "addFeature", "addVersion", "addModel", "signup"} => h \in Requests
  BY DEF Requests, Handlers, PanelHandlers, SelectorHandlers, PanelLists, SelectorLists
<1>6. h \notin {"check", "addFeature", "addVersion", "addModel", "signup"} => Some(<<h>>)
  BY <1>2, <1>5
<1> HIDE DEF Some
<1>7. Some(Awaits(h))
  BY <1>1, <1>3, <1>4, <1>6, AwaitsOf
<1> QED BY <1>7 DEF Some

LEMMA AllRemain == ASSUME NEW h \in Handlers PROVE Remain(Awaits(h), h)
BY AwaitsType DEF Remain

LEMMA TailOf ==
    ASSUME NEW a \in Seq(Requests), Len(a) > 1
    PROVE  /\ Tail(a) \in Seq(Requests) /\ Len(Tail(a)) = Len(a) - 1 /\ Tail(a) # <<>>
           /\ \A i \in 1..(Len(a) - 1) : Tail(a)[i] = a[i + 1]
OBVIOUS

LEMMA TailRemains ==
    ASSUME NEW h \in Handlers, NEW a, Remain(a, h), Len(a) > 1
    PROVE  Remain(Tail(a), h) /\ Len(Tail(a)) = Len(a) - 1
<1>1. /\ a \in Seq(Requests) /\ Len(a) \in Nat /\ Len(a) <= Len(Awaits(h)) /\ Len(Awaits(h)) \in Nat
      /\ \A i \in 1..Len(a) : a[i] = Awaits(h)[Len(Awaits(h)) - Len(a) + i]
  BY AwaitsType DEF Remain
<1>2. /\ Tail(a) \in Seq(Requests) /\ Len(Tail(a)) = Len(a) - 1 /\ Tail(a) # <<>>
      /\ \A i \in 1..(Len(a) - 1) : Tail(a)[i] = a[i + 1]
  BY <1>1, TailOf
<1>3. ASSUME NEW i \in 1..Len(Tail(a))
      PROVE  Tail(a)[i] = Awaits(h)[Len(Awaits(h)) - Len(Tail(a)) + i]
  <2>1. i + 1 \in 1..Len(a) /\ Tail(a)[i] = a[i + 1]
    BY <1>1, <1>2
  <2>2. Len(Awaits(h)) - Len(a) + (i + 1) = Len(Awaits(h)) - Len(Tail(a)) + i
    BY <1>1, <1>2
  <2> QED BY <1>1, <2>1, <2>2
<1> QED BY <1>1, <1>2, <1>3 DEF Remain

LEMMA RemainIsSuffix ==
    ASSUME NEW h \in Handlers, NEW a, Remain(a, h)
    PROVE  IsSuffix(a, Awaits(h))
BY AwaitsType DEF Remain, IsSuffix, IsPrefix, Reverse

\* An element of a short sequence, counted from its end.
LEMMA FromTheEnd ==
    ASSUME NEW s, NEW n \in Nat \ {0}, n <= Len(s), NEW c, c = s[Len(s) - n + 1]
    PROVE  /\ \A r : s = <<r>> => n = 1 /\ c = r
           /\ s = <<"commit", "reply">> =>
                  n <= 2 /\ (n = 1 => c = "reply") /\ (n = 2 => c = "commit")
           /\ \A r : s = <<"commit", "reply", r>> =>
                  n <= 3 /\ (n = 1 => c = r) /\ (n = 2 => c = "reply") /\ (n = 3 => c = "commit")
           /\ s = <<"commit", "reply", "runs", "alerts">> =>
                  /\ n <= 4 /\ (n = 1 => c = "alerts") /\ (n = 2 => c = "runs")
                  /\ (n = 3 => c = "reply") /\ (n = 4 => c = "commit")
<1>1. ASSUME NEW r, s = <<r>> PROVE n = 1 /\ c = r
  BY <1>1
<1>2. ASSUME s = <<"commit", "reply">>
      PROVE  n <= 2 /\ (n = 1 => c = "reply") /\ (n = 2 => c = "commit")
  BY <1>2
<1>3. ASSUME NEW r, s = <<"commit", "reply", r>>
      PROVE  n <= 3 /\ (n = 1 => c = r) /\ (n = 2 => c = "reply") /\ (n = 3 => c = "commit")
  BY <1>3
<1>4. ASSUME s = <<"commit", "reply", "runs", "alerts">>
      PROVE  /\ n <= 4 /\ (n = 1 => c = "alerts") /\ (n = 2 => c = "runs")
             /\ (n = 3 => c = "reply") /\ (n = 4 => c = "commit")
  BY <1>4
<1> QED BY <1>1, <1>2, <1>3, <1>4

\* What a handler waits for, by the number of awaits it has left.
LEMMA WhatRemains ==
    ASSUME NEW h \in Handlers, NEW a, Remain(a, h)
    PROVE  /\ Len(a) \in Nat \ {0}
           /\ h = "check" => /\ Len(a) = 1 => Head(a) = "alerts"
                             /\ Len(a) = 2 => Head(a) = "runs"
                             /\ Len(a) = 3 => Head(a) = "reply"
                             /\ Len(a) = 4 => Head(a) = "commit"
                             /\ Len(a) <= 4
           /\ h \in {"addFeature", "addVersion", "addModel"} =>
                  /\ Len(a) = 1 => Head(a) = IF h = "addFeature" THEN "panel"
                                             ELSE IF h = "addVersion" THEN "versions" ELSE "models"
                  /\ Len(a) = 2 => Head(a) = "reply"
                  /\ Len(a) = 3 => Head(a) = "commit"
                  /\ Len(a) <= 3
           /\ h = "signup" => /\ Len(a) = 1 => Head(a) = "reply"
                              /\ Len(a) = 2 => Head(a) = "commit"
                              /\ Len(a) <= 2
           /\ h \in Lists => Len(a) = 1 /\ Head(a) = h
<1>1. Len(a) \in Nat \ {0} /\ Head(a) = a[1] /\ 1 \in 1..Len(a)
  BY DEF Remain
<1>2. /\ Len(a) <= Len(Awaits(h))
      /\ Head(a) = Awaits(h)[Len(Awaits(h)) - Len(a) + 1]
  BY <1>1 DEF Remain
<1> DEFINE all == Awaits(h)
            n == Len(a)
            await == Head(a)
<1>3. /\ \A r : all = <<r>> => n = 1 /\ await = r
      /\ all = <<"commit", "reply">> =>
             n <= 2 /\ (n = 1 => await = "reply") /\ (n = 2 => await = "commit")
      /\ \A r : all = <<"commit", "reply", r>> =>
             /\ n <= 3 /\ (n = 1 => await = r)
             /\ (n = 2 => await = "reply") /\ (n = 3 => await = "commit")
      /\ all = <<"commit", "reply", "runs", "alerts">> =>
             /\ n <= 4 /\ (n = 1 => await = "alerts") /\ (n = 2 => await = "runs")
             /\ (n = 3 => await = "reply") /\ (n = 4 => await = "commit")
  <2> HIDE DEF all, n, await
  <2>1. n \in Nat \ {0} /\ n <= Len(all) /\ await = all[Len(all) - n + 1]
    BY <1>1, <1>2 DEF all, n, await
  <2> QED BY <2>1, FromTheEnd
<1>4. /\ h = "check" => all = <<"commit", "reply", "runs", "alerts">>
      /\ h = "addFeature" => all = <<"commit", "reply", "panel">>
      /\ h = "addVersion" => all = <<"commit", "reply", "versions">>
      /\ h = "addModel" => all = <<"commit", "reply", "models">>
      /\ h = "signup" => all = <<"commit", "reply">>
      /\ h \in Lists => all = <<h>>
  <2>1. h \in Lists => h \notin {"check", "addFeature", "addVersion", "addModel", "signup"}
    BY DEF Lists, VersionLists, PanelLists, SelectorLists
  <2> QED BY <2>1, AwaitsOf
<1>5. n \in Nat \ {0}
  BY <1>1
<1> HIDE DEF all, n, await
<1>6. /\ h = "check" => /\ n = 1 => await = "alerts"
                        /\ n = 2 => await = "runs"
                        /\ n = 3 => await = "reply"
                        /\ n = 4 => await = "commit"
                        /\ n <= 4
      /\ h \in {"addFeature", "addVersion", "addModel"} =>
             /\ n = 1 => await = IF h = "addFeature" THEN "panel"
                                 ELSE IF h = "addVersion" THEN "versions" ELSE "models"
             /\ n = 2 => await = "reply"
             /\ n = 3 => await = "commit"
             /\ n <= 3
      /\ h = "signup" => /\ n = 1 => await = "reply"
                         /\ n = 2 => await = "commit"
                         /\ n <= 2
      /\ h \in Lists => n = 1 /\ await = h
  BY <1>3, <1>4
<1> QED BY <1>5, <1>6 DEF n, await

-----------------------------------------------------------------------------
(* The inductive invariant. Its parts take what they speak of as arguments: *)
(* most steps compute what is shown, and the calls, from older ones.        *)

\* Whose entries a handler asks for, or adds to.
OwnersOf(h) ==
    IF h \in PanelHandlers \cup {"features"} THEN Versions
    ELSE IF h \in {"versions", "addVersion"} THEN Models
    ELSE IF h = "signup" THEN Users
    ELSE {None}

\* What a handler opens, or has made.
Items == Nat \cup Keys \cup Models \cup Versions \cup {None}

Calls == [handler: Handlers, of: Users \cup Models \cup Versions \cup {None},
          item: Items, awaits: Seq(Requests),
          by: Users \cup {None}, from: Nat, live: BOOLEAN]

ModelExists(m, entries) == m \in Models /\ m[2] <= entries["models"][m[1]]
VersionExists(v, entries) == v \in Versions /\ v[2] <= entries["versions"][v[1]]

\* What a handler opens, or has made, is there.
ItemExists(c, keys, entries) ==
    /\ c.handler \in {"check", "detail"} => c.item \in Nat /\ c.item <= entries["runs"][c.of]
    /\ Head(c.awaits) # "commit" =>
           /\ c.handler = "addVersion" => VersionExists(c.item, entries)
           /\ c.handler = "addModel" => ModelExists(c.item, entries)
           /\ c.handler = "signup" => c.item \in Keys /\ keys[c.item] = c.of

CallExists(c, keys, entries) ==
    /\ c \in Calls
    /\ Remain(c.awaits, c.handler)
    /\ c.of \in OwnersOf(c.handler)
    /\ ItemExists(c, keys, entries)

CallsExist(bag, keys, entries) == \A c \in BagToSet(bag) : CallExists(c, keys, entries)

\* What a list shows is there.
EntriesExist(list, of, upTo, entries) ==
    /\ list = "models" => of \in Users /\ upTo <= entries["models"][of]
    /\ list = "versions" => of \in Models /\ upTo <= entries["versions"][of]
    /\ list \in VersionLists => of \in Versions
    /\ list \in {"runs", "detail"} => upTo <= entries["runs"][of]

ShownExists(now, entries) ==
    /\ now \in [Lists -> [of: Users \cup Models \cup Versions \cup {None}, upTo: Nat]]
    /\ \A list \in Lists :
          now[list] = Nobody \/ EntriesExist(list, now[list].of, now[list].upTo, entries)

SelectionExists(m, v, entries) ==
    /\ m = None \/ ModelExists(m, entries)
    /\ v = None \/ VersionExists(v, entries)

\* The panels' handlers end with the panels.
PanelsAreThere(bag, v, k) ==
    \A c \in BagToSet(bag) : c.handler \in PanelHandlers => v # None /\ k # None /\ c.live

\* There is one check at a time, and the button is disabled until it ends.
OneCheck(bag, busy) ==
    /\ busy \in BOOLEAN
    /\ busy <=> \E c \in BagToSet(bag) : c.handler = "check"
    /\ \A c \in BagToSet(bag) : c.handler = "check" =>
          bag[c] = 1 /\ \A d \in BagToSet(bag) : d.handler = "check" => d = c

TypeInv ==
    /\ RegistryTypeOK
    /\ apiKey \in Keys \cup {None}
    /\ SelectionExists(modelId, versionId, stored)
    /\ ShownExists(shown, stored)
    /\ CallsExist(calls, keyOf, stored)
    /\ PanelsAreThere(calls, versionId, apiKey)
    /\ OneCheck(calls, triggering)
    /\ acts \in 0..MaxActs
    /\ disturbed \subseteq Lists
    /\ switched \in BOOLEAN

LEMMA TypeInvImpliesTypeOK == TypeInv => TypeOK
<1> SUFFICES ASSUME TypeInv PROVE TypeOK
  OBVIOUS
<1>1. \A c \in BagToSet(calls) :
          /\ c.handler \in Handlers
          /\ c.awaits # <<>> /\ IsSuffix(c.awaits, Awaits(c.handler))
          /\ c.by \in Users \cup {None}
  <2> SUFFICES ASSUME NEW c \in BagToSet(calls)
               PROVE  /\ c.handler \in Handlers
                      /\ c.awaits # <<>> /\ IsSuffix(c.awaits, Awaits(c.handler))
                      /\ c.by \in Users \cup {None}
    OBVIOUS
  <2>1. c \in Calls /\ Remain(c.awaits, c.handler)
    BY DEF TypeInv, CallsExist, CallExists
  <2> QED BY <2>1, RemainIsSuffix DEF Calls, Remain
<1>2. triggering = \E c \in BagToSet(calls) : c.handler = "check"
  BY DEF TypeInv, OneCheck
<1>3. /\ modelId \in Models \cup {None}
      /\ modelId # None => modelId[2] <= ListModels(modelId[1])
      /\ versionId \in Versions \cup {None}
      /\ versionId # None => versionId[2] <= ListVersions(versionId[1])
  BY DEF TypeInv, SelectionExists, ModelExists, VersionExists, ListModels, ListVersions
<1>4. \A c \in BagToSet(calls) :
          c.handler \in PanelHandlers => versionId # None /\ SignedIn /\ c.live
  BY DEF TypeInv, PanelsAreThere, SignedIn
<1> QED BY <1>1, <1>2, <1>3, <1>4 DEF TypeOK, TypeInv, ShownExists

-----------------------------------------------------------------------------
(* The server only grows.                                                  *)

EntriesGrow ==
    /\ \A u \in Users : stored["models"][u] <= stored'["models"][u]
    /\ \A m \in Models : stored["versions"][m] <= stored'["versions"][m]
    /\ \A v \in Versions : stored["runs"][v] <= stored'["runs"][v]

\* A key never changes hands, and what somebody typed is not issued to anybody.
KeysStay ==
    /\ \A k \in Keys : keyOf[k] # None => keyOf'[k] = keyOf[k]
    /\ apiKey \in Keys => keyOf'[apiKey] = keyOf[apiKey]

ServerGrows == RegistryTypeOK' /\ KeysStay /\ EntriesGrow

LEMMA ServerStays == RegistryTypeOK /\ UNCHANGED server => ServerGrows
BY DEF server, RegistryTypeOK, ServerGrows, KeysStay, EntriesGrow

LEMMA IssueKeyStep ==
    ASSUME RegistryTypeOK, NEW u \in Users, NEW k \in Keys, NewKey(k), IssueKey(u, k)
    PROVE  ServerGrows
BY DEF RegistryTypeOK, IssueKey, NewKey, ServerGrows, KeysStay, EntriesGrow

LEMMA CreateModelStep ==
    ASSUME RegistryTypeOK, NEW u \in Users, CreateModel(u)
    PROVE  /\ ServerGrows
           /\ ModelExists(<<u, ListModels(u) + 1>>, stored')
<1>1. /\ stored["models"][u] + 1 \in 1..MaxModels
      /\ stored' = [stored EXCEPT !["models"] = [stored["models"] EXCEPT ![u] = @ + 1]]
  BY RegistryAssumption DEF RegistryTypeOK, CreateModel
<1>2. stored' \in [models: [Users -> 0..MaxModels], versions: [Models -> 0..MaxVersions],
                   runs: [Versions -> Nat]]
  BY <1>1 DEF RegistryTypeOK
<1>3. /\ stored'["models"] = [stored["models"] EXCEPT ![u] = @ + 1]
      /\ stored'["versions"] = stored["versions"] /\ stored'["runs"] = stored["runs"]
  BY <1>1 DEF RegistryTypeOK
<1>4. EntriesGrow /\ ModelExists(<<u, ListModels(u) + 1>>, stored')
  BY <1>1, <1>3 DEF RegistryTypeOK, EntriesGrow, ModelExists, Models, ListModels
<1> QED BY <1>2, <1>4 DEF RegistryTypeOK, CreateModel, ServerGrows, KeysStay

LEMMA CreateVersionStep ==
    ASSUME RegistryTypeOK, NEW m \in Models, CreateVersion(m)
    PROVE  /\ ServerGrows
           /\ VersionExists(<<m, ListVersions(m) + 1>>, stored')
<1>1. /\ stored["versions"][m] + 1 \in 1..MaxVersions
      /\ stored' = [stored EXCEPT !["versions"] = [stored["versions"] EXCEPT ![m] = @ + 1]]
  BY RegistryAssumption DEF RegistryTypeOK, CreateVersion
<1>2. stored' \in [models: [Users -> 0..MaxModels], versions: [Models -> 0..MaxVersions],
                   runs: [Versions -> Nat]]
  BY <1>1 DEF RegistryTypeOK
<1>3. /\ stored'["versions"] = [stored["versions"] EXCEPT ![m] = @ + 1]
      /\ stored'["models"] = stored["models"] /\ stored'["runs"] = stored["runs"]
  BY <1>1 DEF RegistryTypeOK
<1>4. EntriesGrow /\ VersionExists(<<m, ListVersions(m) + 1>>, stored')
  BY <1>1, <1>3 DEF RegistryTypeOK, EntriesGrow, VersionExists, Versions, ListVersions
<1> QED BY <1>2, <1>4 DEF RegistryTypeOK, CreateVersion, ServerGrows, KeysStay

LEMMA CreateDriftRunStep ==
    ASSUME RegistryTypeOK, NEW v \in Versions, CreateDriftRun(v)
    PROVE  /\ ServerGrows
           /\ ListDriftRuns(v) + 1 \in Nat /\ stored'["runs"][v] = ListDriftRuns(v) + 1
<1>1. stored' = [stored EXCEPT !["runs"] = [stored["runs"] EXCEPT ![v] = @ + 1]]
  BY DEF RegistryTypeOK, CreateDriftRun
<1>2. stored' \in [models: [Users -> 0..MaxModels], versions: [Models -> 0..MaxVersions],
                   runs: [Versions -> Nat]]
  BY <1>1 DEF RegistryTypeOK
<1>3. /\ stored'["runs"] = [stored["runs"] EXCEPT ![v] = @ + 1]
      /\ stored'["models"] = stored["models"] /\ stored'["versions"] = stored["versions"]
  BY <1>1 DEF RegistryTypeOK
<1>4. /\ EntriesGrow
      /\ ListDriftRuns(v) + 1 \in Nat /\ stored'["runs"][v] = ListDriftRuns(v) + 1
  BY <1>3 DEF RegistryTypeOK, EntriesGrow, ListDriftRuns
<1> QED BY <1>2, <1>4 DEF RegistryTypeOK, CreateDriftRun, ServerGrows, KeysStay

LEMMA ElsewhereGrows == RegistryTypeOK /\ Elsewhere => ServerGrows
<1> SUFFICES ASSUME RegistryTypeOK, Elsewhere PROVE ServerGrows
  OBVIOUS
<1>1. ASSUME NEW u \in Users, CreateModel(u) PROVE ServerGrows
  BY <1>1, CreateModelStep
<1>2. ASSUME NEW m \in Models, CreateVersion(m) PROVE ServerGrows
  BY <1>2, CreateVersionStep
<1>3. ASSUME NEW v \in Versions, CreateDriftRun(v) PROVE ServerGrows
  BY <1>3, CreateDriftRunStep
<1>4. ASSUME NEW k \in Keys, NewKey(k), NEW u \in Users, CreateUser(u, k) PROVE ServerGrows
  BY <1>4, IssueKeyStep DEF CreateUser
<1>5. ASSUME NEW k \in Keys, NewKey(k), CreateApiKey(k) PROVE ServerGrows
  <2>1. PICK j \in Keys : Authenticate(j) # None /\ IssueKey(Authenticate(j), k)
    BY <1>5 DEF CreateApiKey
  <2>2. Authenticate(j) \in Users
    BY <2>1 DEF Authenticate, RegistryTypeOK
  <2> QED BY <1>5, <2>1, <2>2, IssueKeyStep
<1>6. ASSUME NEW k \in Keys, RevokeApiKey(k) PROVE ServerGrows
  BY <1>6 DEF RevokeApiKey, RegistryTypeOK, ServerGrows, KeysStay, EntriesGrow
<1> QED BY <1>1, <1>2, <1>3, <1>4, <1>5, <1>6 DEF Elsewhere

\* What was there stays there.
LEMMA StillThere ==
    ASSUME RegistryTypeOK, ServerGrows
    PROVE  /\ \A m : ModelExists(m, stored) => ModelExists(m, stored')
           /\ \A v : VersionExists(v, stored) => VersionExists(v, stored')
           /\ \A c : CallExists(c, keyOf, stored) => CallExists(c, keyOf', stored')
           /\ \A bag : CallsExist(bag, keyOf, stored) => CallsExist(bag, keyOf', stored')
           /\ \A now : ShownExists(now, stored) => ShownExists(now, stored')
<1>1. \A m : ModelExists(m, stored) => ModelExists(m, stored')
  <2> SUFFICES ASSUME NEW m, ModelExists(m, stored) PROVE ModelExists(m, stored')
    OBVIOUS
  <2>1. m \in Models /\ m[1] \in Users /\ m[2] \in Nat /\ m[2] <= stored["models"][m[1]]
    BY DEF ModelExists, Models
  <2> QED BY <2>1 DEF ModelExists, ServerGrows, EntriesGrow, RegistryTypeOK
<1>2. \A v : VersionExists(v, stored) => VersionExists(v, stored')
  <2> SUFFICES ASSUME NEW v, VersionExists(v, stored) PROVE VersionExists(v, stored')
    OBVIOUS
  <2>1. v \in Versions /\ v[1] \in Models /\ v[2] \in Nat /\ v[2] <= stored["versions"][v[1]]
    BY DEF VersionExists, Versions
  <2> QED BY <2>1 DEF VersionExists, ServerGrows, EntriesGrow, RegistryTypeOK
<1>3. \A c : CallExists(c, keyOf, stored) => CallExists(c, keyOf', stored')
  <2> SUFFICES ASSUME NEW c, CallExists(c, keyOf, stored) PROVE CallExists(c, keyOf', stored')
    OBVIOUS
  <2>1. c \in Calls /\ c.of \in OwnersOf(c.handler) /\ ItemExists(c, keyOf, stored)
    BY DEF CallExists
  <2>2. c.handler \in {"check", "detail"} => c.item \in Nat /\ c.item <= stored'["runs"][c.of]
    <3> SUFFICES ASSUME c.handler \in {"check", "detail"}
                 PROVE  c.item \in Nat /\ c.item <= stored'["runs"][c.of]
      OBVIOUS
    <3>1. c.of \in Versions
      BY <2>1 DEF OwnersOf, PanelHandlers, PanelLists
    <3> QED BY <2>1, <3>1 DEF ItemExists, ServerGrows, EntriesGrow, RegistryTypeOK
  <2>3. c.handler = "signup" /\ c.item \in Keys /\ keyOf[c.item] = c.of => keyOf'[c.item] = c.of
    <3>1. c.handler = "signup" => c.of \in Users
      BY <2>1 DEF OwnersOf, PanelHandlers, PanelLists
    <3> QED BY <3>1, RegistryAssumption DEF ServerGrows, KeysStay
  <2>4. ItemExists(c, keyOf', stored')
    BY <1>1, <1>2, <2>1, <2>2, <2>3 DEF ItemExists
  <2> QED BY <2>4 DEF CallExists
<1>4. \A bag : CallsExist(bag, keyOf, stored) => CallsExist(bag, keyOf', stored')
  BY <1>3 DEF CallsExist
<1>5. \A now : ShownExists(now, stored) => ShownExists(now, stored')
  <2> SUFFICES ASSUME NEW now, ShownExists(now, stored), NEW list \in Lists,
                      EntriesExist(list, now[list].of, now[list].upTo, stored)
               PROVE  EntriesExist(list, now[list].of, now[list].upTo, stored')
    BY DEF ShownExists
  <2>1. now[list].upTo \in Nat
    BY DEF ShownExists
  <2>2. list \in {"runs", "detail"} => list \in VersionLists
    BY DEF VersionLists, PanelLists
  <2> QED BY <2>1, <2>2 DEF EntriesExist, ServerGrows, EntriesGrow, RegistryTypeOK
<1> QED BY <1>1, <1>2, <1>3, <1>4, <1>5

-----------------------------------------------------------------------------
(* Calls: how they begin, go on, and outlive their components.             *)

LEMMA NewCall ==
    ASSUME NEW h, NEW u, NEW owner, NEW item
    PROVE  LET c == Call(h, u, owner, item)
               from == Stored(Head(Awaits(h)), u, owner)
           IN  /\ c.handler = h /\ c.of = owner /\ c.item = item /\ c.awaits = Awaits(h)
               /\ c.by = u /\ c.from = from /\ c.live
               /\ h \in Handlers /\ owner \in Users \cup Models \cup Versions \cup {None}
                  /\ item \in Items
                  /\ Awaits(h) \in Seq(Requests) /\ u \in Users \cup {None} /\ from \in Nat
                  => c \in Calls
<1> DEFINE r == [handler |-> h, of |-> owner, item |-> item, awaits |-> Awaits(h),
                 by |-> None, from |-> 0, live |-> TRUE]
           from == Stored(Head(Awaits(h)), u, owner)
           c == Call(h, u, owner, item)
<1>1. r.awaits = Awaits(h) /\ r.of = owner
  OBVIOUS
<1> HIDE DEF r
<1>2. Send(r, u) = [r EXCEPT !.by = u, !.from = from]
  BY <1>1, Zenon DEF Send
<1>3. c = [r EXCEPT !.by = u, !.from = from]
  BY <1>2, Zenon DEF Call, r
<1> HIDE DEF c, from
<1>4. /\ c.handler = h /\ c.of = owner /\ c.item = item /\ c.awaits = Awaits(h)
      /\ c.by = u /\ c.from = from /\ c.live = TRUE
  BY <1>3 DEF r
<1>5. ASSUME h \in Handlers, owner \in Users \cup Models \cup Versions \cup {None},
             item \in Items,
             Awaits(h) \in Seq(Requests), u \in Users \cup {None}, from \in Nat
      PROVE  c \in Calls
  BY <1>3, <1>5 DEF r, Calls
<1> QED BY <1>4, <1>5 DEF c, from

LEMMA StoredIsNat ==
    ASSUME RegistryTypeOK, NEW await, NEW u \in Users \cup {None}, NEW owner,
           await = "versions" => owner \in Models, await = "runs" => owner \in Versions
    PROVE  Stored(await, u, owner) \in Nat
<1>1. await = "models" /\ u # None => ListModels(u) \in Nat
  BY DEF RegistryTypeOK, ListModels
<1>2. await = "versions" => ListVersions(owner) \in Nat
  BY DEF RegistryTypeOK, ListVersions
<1>3. await = "runs" => ListDriftRuns(owner) \in Nat
  BY DEF RegistryTypeOK, ListDriftRuns
<1> QED BY <1>1, <1>2, <1>3, StoredOf

\* What a handler asks for is its owner's.
LEMMA AsksItsOwner ==
    ASSUME NEW h \in Handlers, NEW a, Remain(a, h)
    PROVE  /\ Head(a) \in Requests
           /\ Head(a) = "models" => h \in {"models", "addModel"}
           /\ Head(a) = "versions" => h \in {"versions", "addVersion"}
           /\ Head(a) \in VersionLists => h \in PanelHandlers \cup {"features"}
           /\ Head(a) \in PanelLists => h \in PanelHandlers
           /\ Head(a) = "features" => h = "features"
           /\ Head(a) = "detail" => h = "detail"
           /\ Head(a) = "runs" => h \in {"runs", "check"}
           /\ Head(a) = "commit" =>
                  Len(a) > 1 /\ h \in {"check", "addFeature", "addVersion", "addModel", "signup"}
           /\ h = "signup" => Head(a) \notin Lists
<1> DEFINE await == Head(a)
           n == Len(a)
<1>1. /\ n \in Nat \ {0}
      /\ h = "check" => /\ n = 1 => await = "alerts"
                        /\ n = 2 => await = "runs"
                        /\ n = 3 => await = "reply"
                        /\ n = 4 => await = "commit"
                        /\ n <= 4
      /\ h \in {"addFeature", "addVersion", "addModel"} =>
             /\ n = 1 => await = IF h = "addFeature" THEN "panel"
                                 ELSE IF h = "addVersion" THEN "versions" ELSE "models"
             /\ n = 2 => await = "reply"
             /\ n = 3 => await = "commit"
             /\ n <= 3
      /\ h = "signup" => /\ n = 1 => await = "reply"
                         /\ n = 2 => await = "commit"
                         /\ n <= 2
      /\ h \in Lists => n = 1 /\ await = h
  BY WhatRemains
<1> HIDE DEF await, n
<1>2. h = "check" => \/ n = 1 /\ await = "alerts"
                     \/ n = 2 /\ await = "runs"
                     \/ n = 3 /\ await = "reply"
                     \/ n = 4 /\ await = "commit"
  BY <1>1
<1>3. h \in {"addFeature", "addVersion", "addModel"} =>
          \/ n = 1 /\ await = IF h = "addFeature" THEN "panel"
                              ELSE IF h = "addVersion" THEN "versions" ELSE "models"
          \/ n = 2 /\ await = "reply"
          \/ n = 3 /\ await = "commit"
  BY <1>1
<1>4. h = "signup" => \/ n = 1 /\ await = "reply"
                      \/ n = 2 /\ await = "commit"
  BY <1>1
<1>5. h \in Lists => n = 1 /\ await = h
  BY <1>1
<1>6. h \in {"check", "addFeature", "addVersion", "addModel", "signup"} \cup Lists
  BY DEF Handlers, PanelHandlers, SelectorHandlers, Lists, VersionLists
<1>7. /\ await \in Requests
      /\ await = "models" => h \in {"models", "addModel"}
      /\ await = "versions" => h \in {"versions", "addVersion"}
      /\ await \in VersionLists => h \in PanelHandlers \cup {"features"}
      /\ await \in PanelLists => h \in PanelHandlers
      /\ await = "features" => h = "features"
      /\ await = "detail" => h = "detail"
      /\ await = "runs" => h \in {"runs", "check"}
      /\ await = "commit" =>
             n > 1 /\ h \in {"check", "addFeature", "addVersion", "addModel", "signup"}
      /\ h = "signup" => await \notin Lists
  BY <1>2, <1>3, <1>4, <1>5, <1>6
     DEF Requests, Lists, VersionLists, PanelLists, SelectorLists, PanelHandlers
<1> QED BY <1>7 DEF await, n

LEMMA NewCallExists ==
    ASSUME RegistryTypeOK, NEW h \in Handlers, NEW u \in Users \cup {None},
           NEW owner \in OwnersOf(h), NEW item \in Items,
           h \in {"check", "detail"} => item \in Nat /\ item <= ListDriftRuns(owner)
    PROVE  CallExists(Call(h, u, owner, item), keyOf, stored)
<1> DEFINE c == Call(h, u, owner, item)
<1>1. Remain(Awaits(h), h)
  BY AllRemain
<1>2. Stored(Head(Awaits(h)), u, owner) \in Nat
  <2>1. /\ Head(Awaits(h)) = "versions" => owner \in Models
        /\ Head(Awaits(h)) = "runs" => owner \in Versions
    BY <1>1, AsksItsOwner DEF OwnersOf, PanelHandlers, PanelLists
  <2> QED BY <2>1, StoredIsNat
<1>3. /\ c.handler = h /\ c.of = owner /\ c.item = item /\ c.awaits = Awaits(h)
      /\ c.by = u /\ c.from \in Nat /\ c.live
  BY <1>2, NewCall
<1>4. c \in Calls
  <2>1. owner \in Users \cup Models \cup Versions \cup {None}
    BY DEF OwnersOf
  <2> QED BY <1>1, <1>2, <2>1, NewCall DEF Remain
<1>5. h \in {"addVersion", "addModel", "signup"} => Head(c.awaits) = "commit"
  <2>1. /\ h = "addVersion" => Awaits(h) = <<"commit", "reply", "versions">>
        /\ h = "addModel" => Awaits(h) = <<"commit", "reply", "models">>
        /\ h = "signup" => Awaits(h) = <<"commit", "reply">>
    BY AwaitsOf
  <2> QED BY <1>3, <2>1
<1> HIDE DEF c
<1>6. ItemExists(c, keyOf, stored)
  BY <1>3, <1>5 DEF ItemExists, ListDriftRuns
<1> QED BY <1>1, <1>3, <1>4, <1>6 DEF CallExists, c

\* A handler at its next await.
Resumed(c, u) == Send([c EXCEPT !.awaits = Tail(@)], u)

LEMMA NextAwait ==
    ASSUME NEW c \in Calls, NEW u
    PROVE  LET d == Resumed(c, u)
               from == Stored(Head(Tail(c.awaits)), u, c.of)
           IN  /\ d.handler = c.handler /\ d.of = c.of /\ d.item = c.item
               /\ d.awaits = Tail(c.awaits) /\ d.by = u /\ d.from = from /\ d.live = c.live
               /\ Tail(c.awaits) \in Seq(Requests) /\ u \in Users \cup {None} /\ from \in Nat
                  => d \in Calls
<1> DEFINE r == [c EXCEPT !.awaits = Tail(@)]
           from == Stored(Head(Tail(c.awaits)), u, c.of)
           d == Resumed(c, u)
<1>1. r.awaits = Tail(c.awaits) /\ r.of = c.of
  BY DEF Calls
<1> HIDE DEF r
<1>2. Send(r, u) = [r EXCEPT !.by = u, !.from = from]
  BY <1>1, Zenon DEF Send
<1>3. d = [r EXCEPT !.by = u, !.from = from]
  BY <1>2, Zenon DEF Resumed, r
<1> HIDE DEF d, from
<1>4. /\ d.handler = c.handler /\ d.of = c.of /\ d.item = c.item
      /\ d.awaits = Tail(c.awaits) /\ d.by = u /\ d.from = from /\ d.live = c.live
  BY <1>3 DEF r, Calls
<1>5. ASSUME Tail(c.awaits) \in Seq(Requests), u \in Users \cup {None}, from \in Nat
      PROVE  d \in Calls
  BY <1>3, <1>5 DEF r, Calls
<1> QED BY <1>4, <1>5 DEF d, from

LEMMA NextAwaitExists ==
    ASSUME RegistryTypeOK, NEW c, CallExists(c, keyOf, stored), Len(c.awaits) > 1,
           Head(c.awaits) # "commit", NEW u \in Users \cup {None}
    PROVE  CallExists(Resumed(c, u), keyOf, stored)
<1> DEFINE d == Resumed(c, u)
<1>1. c \in Calls /\ c.handler \in Handlers /\ Remain(c.awaits, c.handler)
      /\ c.of \in OwnersOf(c.handler) /\ ItemExists(c, keyOf, stored)
  BY DEF CallExists, Calls
<1>2. Remain(Tail(c.awaits), c.handler)
  BY <1>1, TailRemains
<1>3. Stored(Head(Tail(c.awaits)), u, c.of) \in Nat
  <2>1. /\ Head(Tail(c.awaits)) = "versions" => c.of \in Models
        /\ Head(Tail(c.awaits)) = "runs" => c.of \in Versions
    BY <1>1, <1>2, AsksItsOwner DEF OwnersOf, PanelHandlers, PanelLists
  <2> QED BY <2>1, StoredIsNat
<1>4. d.handler = c.handler /\ d.of = c.of /\ d.item = c.item /\ d.awaits = Tail(c.awaits)
  BY <1>1, NextAwait
<1>5. d \in Calls
  BY <1>1, <1>2, <1>3, NextAwait DEF Remain
<1> HIDE DEF d
<1>6. ItemExists(d, keyOf, stored)
  BY <1>1, <1>4 DEF ItemExists
<1> QED BY <1>1, <1>2, <1>4, <1>5, <1>6 DEF CallExists, d

LEMMA PostedExists ==
    ASSUME NEW c, NEW keys, NEW entries, CallExists(c, keys, entries), Head(c.awaits) = "commit",
           NEW made \in Items,
           c.handler = "check" => made \in Nat /\ made <= entries["runs"][c.of],
           c.handler = "addVersion" => VersionExists(made, entries),
           c.handler = "addModel" => ModelExists(made, entries),
           c.handler = "signup" => made \in Keys /\ keys[made] = c.of
    PROVE  LET d == [c EXCEPT !.awaits = Tail(@), !.item = made]
           IN  /\ CallExists(d, keys, entries)
               /\ d.handler = c.handler /\ d.of = c.of /\ d.item = made
               /\ d.awaits = Tail(c.awaits) /\ d.by = c.by /\ d.live = c.live /\ d.from = c.from
<1> DEFINE d == [c EXCEPT !.awaits = Tail(@), !.item = made]
<1>1. /\ c \in Calls /\ c.handler \in Handlers /\ Remain(c.awaits, c.handler)
      /\ c.of \in OwnersOf(c.handler)
  BY DEF CallExists, Calls
<1>2. Len(c.awaits) > 1 /\ c.handler # "detail"
  BY <1>1, AsksItsOwner
<1>3. Remain(Tail(c.awaits), c.handler) /\ Tail(c.awaits) \in Seq(Requests)
  BY <1>1, <1>2, TailRemains DEF Remain
<1>4. /\ d \in Calls /\ d.handler = c.handler /\ d.of = c.of /\ d.item = made
      /\ d.awaits = Tail(c.awaits) /\ d.by = c.by /\ d.live = c.live /\ d.from = c.from
  BY <1>1, <1>3 DEF Calls
<1> HIDE DEF d
<1>5. ItemExists(d, keys, entries)
  BY <1>2, <1>4 DEF ItemExists
<1>6. CallExists(d, keys, entries)
  BY <1>1, <1>3, <1>4, <1>5 DEF CallExists
<1> QED BY <1>4, <1>6 DEF d

LEMMA OutlivedCall ==
    ASSUME NEW bag, NEW handlers, NEW keys, NEW entries, CallsExist(bag, keys, entries),
           NEW d \in BagToSet(Outlived(handlers, bag))
    PROVE  /\ CallExists(d, keys, entries)
           /\ d.handler \notin handlers \cap Lists
           /\ d.live => d.handler \notin handlers
           /\ \E c \in BagToSet(bag) :
                 /\ d.handler = c.handler /\ d.of = c.of /\ d.item = c.item /\ d.awaits = c.awaits
                 /\ d.by = c.by /\ d.from = c.from /\ (d.live => c.live)
                 /\ c.live /\ c.handler \notin handlers => d.live
<1>1. PICK c \in BagToSet(bag) : /\ c.handler \notin handlers \cap Lists
                                 /\ d = [c EXCEPT !.live = @ /\ c.handler \notin handlers]
  BY OutlivedMembers
<1>2. CallExists(c, keys, entries) /\ c \in Calls
  BY DEF CallsExist, CallExists
<1>3. /\ d \in Calls /\ d.handler = c.handler /\ d.of = c.of /\ d.item = c.item
      /\ d.awaits = c.awaits /\ d.by = c.by /\ d.from = c.from
      /\ d.live <=> c.live /\ c.handler \notin handlers
  BY <1>1, <1>2 DEF Calls
<1>4. ItemExists(d, keys, entries)
  BY <1>2, <1>3 DEF CallExists, ItemExists
<1> QED BY <1>1, <1>2, <1>3, <1>4 DEF CallExists

-----------------------------------------------------------------------------
(* What is shown, and what is loaded.                                      *)

LEMMA ClosedExists ==
    ASSUME NEW lists, NEW now, NEW entries, ShownExists(now, entries)
    PROVE  /\ ShownExists(Closed(lists, now), entries)
           /\ \A list \in Lists :
                 Closed(lists, now)[list] = IF list \in lists THEN Nobody ELSE now[list]
<1>1. Nobody \in [of: Users \cup Models \cup Versions \cup {None}, upTo: Nat]
  BY DEF Nobody
<1> QED BY <1>1 DEF ShownExists, Closed

LEMMA ShowExists ==
    ASSUME NEW now, NEW entries, ShownExists(now, entries), NEW list \in Lists,
           NEW owner \in Users \cup Models \cup Versions \cup {None}, NEW upTo \in Nat,
           EntriesExist(list, owner, upTo, entries)
    PROVE  /\ ShownExists([now EXCEPT ![list] = [of |-> owner, upTo |-> upTo]], entries)
           /\ \A l \in Lists : [now EXCEPT ![list] = [of |-> owner, upTo |-> upTo]][l] =
                  IF l = list THEN [of |-> owner, upTo |-> upTo] ELSE now[l]
<1> DEFINE then == [now EXCEPT ![list] = [of |-> owner, upTo |-> upTo]]
<1>1. \A l \in Lists : then[l] = IF l = list THEN [of |-> owner, upTo |-> upTo] ELSE now[l]
  BY DEF ShownExists
<1>2. then \in [Lists -> [of: Users \cup Models \cup Versions \cup {None}, upTo: Nat]]
  BY DEF ShownExists
<1> HIDE DEF then
<1>3. ASSUME NEW l \in Lists
      PROVE  then[l] = Nobody \/ EntriesExist(l, then[l].of, then[l].upTo, entries)
  BY <1>1 DEF ShownExists
<1>4. ShownExists(then, entries)
  BY <1>2, <1>3 DEF ShownExists
<1> QED BY <1>1, <1>4 DEF then

LEMMA AuthenticatedUser ==
    ASSUME RegistryTypeOK, NEW k \in Keys \cup {None}
    PROVE  /\ Authenticate(k) \in Users \cup {None}
           /\ Authenticate(k) # None => k \in Keys /\ Authenticate(k) = keyOf[k]
BY DEF RegistryTypeOK, Authenticate

\* Loads of lists of a version, of a model, or of a user.
LEMMA LoadExists ==
    ASSUME RegistryTypeOK, NEW lists \in SUBSET Lists, NEW u \in Users \cup {None}, NEW owner,
           \A list \in lists : list # "detail" /\ owner \in OwnersOf(list),
           NEW d \in BagToSet(Loads(lists, u, owner))
    PROVE  /\ CallExists(d, keyOf, stored)
           /\ d.handler \in lists /\ d.of = owner /\ d.by = u /\ d.live
           /\ Head(d.awaits) = d.handler /\ Len(d.awaits) = 1
           /\ d.from = Stored(d.handler, u, owner)
<1>1. PICK list \in lists : d = Call(list, u, owner, 0)
  BY LoadsMembers
<1>2. list \in Handlers /\ list \in Lists /\ list \notin {"check", "detail"}
  BY DEF Lists, VersionLists, PanelLists, SelectorLists, Handlers, PanelHandlers, SelectorHandlers
<1>3. CallExists(d, keyOf, stored)
  BY <1>1, <1>2, NewCallExists DEF Items
<1>4. d.handler = list /\ d.of = owner /\ d.by = u /\ d.live /\ d.awaits = Awaits(list)
      /\ d.from = Stored(Head(Awaits(list)), u, owner)
  BY <1>1, NewCall
<1>5. Awaits(list) = <<list>>
  <2>1. list \notin {"check", "addFeature", "addVersion", "addModel", "signup"}
    BY <1>2 DEF Lists, VersionLists, PanelLists, SelectorLists
  <2> QED BY <1>2, <2>1, AwaitsOf
<1>6. Head(<<list>>) = list /\ Len(<<list>>) = 1
  OBVIOUS
<1> QED BY <1>1, <1>3, <1>4, <1>5, <1>6

LEMMA LoadVersionExists ==
    ASSUME RegistryTypeOK, apiKey \in Keys \cup {None}, NEW v \in Versions,
           NEW d \in BagToSet(LoadVersion(v))
    PROVE  /\ CallExists(d, keyOf, stored)
           /\ d.handler \in VersionLists \ {"detail"} /\ d.of = v /\ d.live
           /\ d.by = Authenticate(apiKey)
           /\ d.handler \in PanelHandlers => SignedIn
           /\ Head(d.awaits) = d.handler /\ Len(d.awaits) = 1
           /\ d.from = Stored(d.handler, d.by, v)
<1> DEFINE lists == IF SignedIn THEN VersionLists \ {"detail"} ELSE {"features"}
<1>1. Authenticate(apiKey) \in Users \cup {None}
  BY AuthenticatedUser
<1>2. lists \in SUBSET Lists /\ \A list \in lists : list # "detail" /\ v \in OwnersOf(list)
  BY DEF Lists, VersionLists, PanelLists, OwnersOf, PanelHandlers
<1>3. d \in BagToSet(Loads(lists, Authenticate(apiKey), v))
  BY DEF LoadVersion
<1>4. lists \subseteq VersionLists \ {"detail"} /\ ~(\E l \in lists : l \in PanelHandlers /\ ~SignedIn)
  BY DEF VersionLists, PanelLists, PanelHandlers
<1> HIDE DEF lists
<1>5. /\ CallExists(d, keyOf, stored) /\ d.handler \in lists /\ d.of = v /\ d.live
      /\ d.by = Authenticate(apiKey) /\ Head(d.awaits) = d.handler /\ Len(d.awaits) = 1
      /\ d.from = Stored(d.handler, Authenticate(apiKey), v)
  BY <1>1, <1>2, <1>3, LoadExists
<1> QED BY <1>4, <1>5

LEMMA LoadVersionsExists ==
    ASSUME RegistryTypeOK, apiKey \in Keys \cup {None}, NEW m, m = None \/ m \in Models,
           NEW d \in BagToSet(LoadVersions(m))
    PROVE  /\ CallExists(d, keyOf, stored)
           /\ d.handler = "versions" /\ d.of = m /\ d.live /\ d.by = Authenticate(apiKey)
           /\ Head(d.awaits) = "versions" /\ m \notin {None, modelId} /\ SignedIn
<1>1. m \notin {None, modelId} /\ SignedIn
      /\ d \in BagToSet(Loads({"versions"}, Authenticate(apiKey), m))
  BY NoMembers DEF LoadVersions
<1>2. {"versions"} \in SUBSET Lists /\ m \in OwnersOf("versions")
  BY <1>1 DEF Lists, SelectorLists, OwnersOf, PanelHandlers, PanelLists
<1> QED BY <1>1, <1>2, LoadExists, AuthenticatedUser

-----------------------------------------------------------------------------
(* One check at a time.                                                    *)

LEMMA ChecksInBags ==
    ASSUME NEW bag, NEW busy, OneCheck(bag, busy)
    PROVE  /\ \A more : (\A d \in BagToSet(more) : d.handler # "check") => OneCheck(bag (+) more, busy)
           /\ \A x : x.handler # "check" => OneCheck(BagAdd(bag, x), busy)
           /\ \A x : x.handler = "check" /\ ~busy => OneCheck(BagAdd(bag, x), TRUE)
           /\ \A x : x.handler # "check" => OneCheck(BagRemove(bag, x), busy)
           /\ \A x \in BagToSet(bag) : x.handler = "check" =>
                  busy /\ OneCheck(BagRemove(bag, x), FALSE)
<1>1. ASSUME NEW more, \A d \in BagToSet(more) : d.handler # "check"
      PROVE  OneCheck(bag (+) more, busy)
  <2>1. \A c \in BagToSet(bag) : c.handler = "check" => (bag (+) more)[c] = 1
    BY <1>1, BagCupMembers DEF OneCheck
  <2> QED BY <1>1, <2>1, BagCupMembers DEF OneCheck
<1>2. ASSUME NEW x, x.handler # "check" PROVE OneCheck(BagAdd(bag, x), busy)
  BY <1>2, BagAddMembers DEF OneCheck
<1>3. ASSUME NEW x, x.handler = "check", ~busy PROVE OneCheck(BagAdd(bag, x), TRUE)
  BY <1>3, BagAddMembers DEF OneCheck
<1>4. ASSUME NEW x, x.handler # "check" PROVE OneCheck(BagRemove(bag, x), busy)
  <2>1. \A c \in BagToSet(bag) : c.handler = "check" => c \in BagToSet(BagRemove(bag, x))
    BY <1>4, BagRemoveMembers
  <2>2. \A c \in BagToSet(BagRemove(bag, x)) : c.handler = "check" => BagRemove(bag, x)[c] = bag[c]
    BY <1>4, BagRemoveMembers
  <2> QED BY <2>1, <2>2, BagRemoveMembers DEF OneCheck
<1>5. ASSUME NEW x \in BagToSet(bag), x.handler = "check"
      PROVE  busy /\ OneCheck(BagRemove(bag, x), FALSE)
  BY <1>5, BagRemoveMembers DEF OneCheck
<1> QED BY <1>1, <1>2, <1>3, <1>4, <1>5

LEMMA NoChecks ==
    ASSUME NEW bag, \A c \in BagToSet(bag) : c.handler # "check"
    PROVE  OneCheck(bag, FALSE)
BY DEF OneCheck

-----------------------------------------------------------------------------
(* Selecting a version.                                                    *)

LEMMA SelectVersionEffects ==
    ASSUME NEW v, NEW now, NEW left, NEW harm, SelectVersion(v, now, left, harm)
    PROVE  /\ versionId' = v
           /\ disturbed' = IF v = versionId THEN harm ELSE harm \ VersionLists
           /\ v = versionId => shown' = now /\ calls' = left /\ triggering' = triggering
           /\ v = None /\ v # versionId =>
                 /\ shown' = Closed(VersionLists, now)
                 /\ BagToSet(calls') = {d \in BagToSet(left) : d.handler \notin PanelHandlers}
                 /\ triggering' = FALSE
           /\ v \notin {None, versionId} =>
                 /\ shown' = Closed({"detail"}, now)
                 /\ calls' = left (+) LoadVersion(v)
                 /\ BagToSet(calls') = BagToSet(left) \cup BagToSet(LoadVersion(v))
                 /\ triggering' = triggering
<1>1. v = None /\ v # versionId =>
          BagToSet(calls') = {d \in BagToSet(left) : d.handler \notin PanelHandlers}
  BY UnmountedMembers DEF SelectVersion
<1>2. v \notin {None, versionId} =>
          BagToSet(calls') = BagToSet(left) \cup BagToSet(LoadVersion(v))
  BY BagCupMembers DEF SelectVersion
<1> QED BY <1>1, <1>2 DEF SelectVersion, ResetDetail

LEMMA SelectVersionKeeps ==
    ASSUME RegistryTypeOK, apiKey \in Keys \cup {None},
           NEW v, NEW now, NEW left, NEW harm, SelectVersion(v, now, left, harm),
           v = None \/ VersionExists(v, stored), ShownExists(now, stored),
           CallsExist(left, keyOf, stored), PanelsAreThere(left, versionId, apiKey),
           OneCheck(left, triggering), harm \subseteq Lists
    PROVE  /\ ShownExists(shown', stored)
           /\ CallsExist(calls', keyOf, stored)
           /\ PanelsAreThere(calls', versionId', apiKey)
           /\ OneCheck(calls', triggering')
           /\ disturbed' \subseteq Lists
<1>1. v # None => v \in Versions
  BY DEF VersionExists
<1>2. CASE v = versionId
  <2>1. /\ versionId' = versionId /\ disturbed' = harm /\ shown' = now /\ calls' = left
        /\ triggering' = triggering
    BY <1>2, SelectVersionEffects
  <2>2. OneCheck(calls', triggering')
    BY <2>1, Zenon
  <2> QED BY <2>1, <2>2
<1>3. CASE v = None /\ v # versionId
  <2>1. /\ shown' = Closed(VersionLists, now) /\ versionId' = None
        /\ BagToSet(calls') = {d \in BagToSet(left) : d.handler \notin PanelHandlers}
        /\ triggering' = FALSE /\ disturbed' = harm \ VersionLists
    BY <1>3, SelectVersionEffects
  <2>2. OneCheck(calls', triggering')
    BY <2>1, NoChecks DEF PanelHandlers
  <2> QED BY <2>1, <2>2, ClosedExists DEF CallsExist, PanelsAreThere
<1>4. CASE v \notin {None, versionId}
  <2>1. /\ shown' = Closed({"detail"}, now) /\ versionId' = v
        /\ calls' = left (+) LoadVersion(v)
        /\ BagToSet(calls') = BagToSet(left) \cup BagToSet(LoadVersion(v))
        /\ triggering' = triggering /\ disturbed' = harm \ VersionLists
    BY <1>4, SelectVersionEffects
  <2>2. ASSUME NEW d \in BagToSet(LoadVersion(v))
        PROVE  /\ CallExists(d, keyOf, stored) /\ d.handler # "check" /\ d.live
               /\ d.handler \in PanelHandlers => apiKey # None
    BY <1>1, <1>4, LoadVersionExists DEF VersionLists, PanelLists, SignedIn
  <2>3. OneCheck(calls', triggering')
    BY <2>1, <2>2, ChecksInBags
  <2>4. CallsExist(calls', keyOf, stored)
    BY <2>1, <2>2 DEF CallsExist
  <2>5. PanelsAreThere(calls', versionId', apiKey)
    BY <1>4, <2>1, <2>2 DEF PanelsAreThere
  <2> QED BY <2>1, <2>3, <2>4, <2>5, ClosedExists
<1> QED BY <1>2, <1>3, <1>4

-----------------------------------------------------------------------------
(* Answers and failures.                                                   *)

\* What is shown, and what is disturbed, when c goes on.
Shows(c, now, harm) ==
    LET list == Head(c.awaits)
        owner == IF list = "models" THEN c.by ELSE c.of
    IN  \/ list = "reply" /\ now = shown /\ harm = disturbed
        \/ list \in Lists /\ ~c.live /\ now = shown /\ harm = disturbed
        \/ /\ list \in Lists /\ c.live /\ Granted(c)
           /\ \E upTo : /\ \/ list = "detail" /\ upTo = c.item
                           \/ list # "detail" /\ upTo \in c.from..Stored(list, c.by, c.of)
                        /\ now = [shown EXCEPT ![list] = [of |-> owner, upTo |-> upTo]]
                        /\ harm = IF Stale(list, owner, upTo) THEN disturbed \cup {list}
                                  ELSE disturbed
        \/ /\ list \in Lists \ {"detail", "features"} /\ c.live
           /\ now = shown /\ harm = disturbed \cup {list}
        \/ /\ list = "features"
           /\ now = Closed({"features"}, shown) /\ harm = disturbed \cup {"features"}

LEMMA FailureCases ==
    ASSUME NEW c, Failed(c)
    PROVE  \/ Throw(c) /\ Head(c.awaits) \in {"commit", "reply", "detail"}
           \/ \E now, harm : GoOn(c, now, harm) /\ Shows(c, now, harm)
<1>1. CASE Head(c.awaits) \in {"models", "panel", "runs", "alerts", "versions"}
  <2>1. Head(c.awaits) \in Lists \ {"detail", "features"}
    BY <1>1 DEF Lists, VersionLists, PanelLists, SelectorLists
  <2>2. GoOn(c, shown, IF c.live THEN disturbed \cup {Head(c.awaits)} ELSE disturbed)
    BY <1>1 DEF Failed
  <2>3. Shows(c, shown, IF c.live THEN disturbed \cup {Head(c.awaits)} ELSE disturbed)
    BY <2>1 DEF Shows
  <2> QED BY <2>2, <2>3
<1>2. CASE Head(c.awaits) = "features"
  <2>1. GoOn(c, Closed({"features"}, shown), disturbed \cup {"features"})
    BY <1>2 DEF Failed
  <2>2. Shows(c, Closed({"features"}, shown), disturbed \cup {"features"})
    BY <1>2 DEF Shows
  <2> QED BY <2>1, <2>2
<1> QED BY <1>1, <1>2 DEF Failed

LEMMA ShowCases ==
    ASSUME NEW c, NEW list, NEW owner, NEW upTo, Show(c, list, owner, upTo), list \in Lists,
           list = Head(c.awaits), Granted(c), owner = IF list = "models" THEN c.by ELSE c.of,
           \/ list = "detail" /\ upTo = c.item
           \/ list # "detail" /\ upTo \in c.from..Stored(list, c.by, c.of)
    PROVE  \E now, harm : GoOn(c, now, harm) /\ Shows(c, now, harm)
<1>1. CASE c.live
  <2> DEFINE now == [shown EXCEPT ![list] = [of |-> owner, upTo |-> upTo]]
             harm == IF Stale(list, owner, upTo) THEN disturbed \cup {list} ELSE disturbed
  <2>1. GoOn(c, now, harm)
    BY <1>1 DEF Show
  <2>2. Shows(c, now, harm)
    BY <1>1 DEF Shows
  <2> QED BY <2>1, <2>2
<1>2. CASE ~c.live
  <2>1. GoOn(c, shown, disturbed) /\ Shows(c, shown, disturbed)
    BY <1>2 DEF Show, Shows
  <2> QED BY <2>1
<1> QED BY <1>1, <1>2

LEMMA AnswerCases ==
    ASSUME NEW c, Answer(c)
    PROVE  \E now, harm : GoOn(c, now, harm) /\ Shows(c, now, harm)
<1>1. CASE Head(c.awaits) = "reply" /\ GoOn(c, shown, disturbed)
  <2>1. Shows(c, shown, disturbed)
    BY <1>1 DEF Shows
  <2> QED BY <1>1, <2>1
<1>2. CASE AnswerDetail(c)
  <2>1. "detail" \in Lists /\ "detail" # "models"
    BY DEF Lists, VersionLists, PanelLists
  <2> QED BY <1>2, <2>1, ShowCases DEF AnswerDetail
<1>3. CASE AnswerList(c)
  <2> DEFINE list == Head(c.awaits)
  <2>1. list \in Lists /\ list # "detail" /\ Granted(c)
    BY <1>3 DEF AnswerList
  <2>2. PICK upTo \in c.from..Stored(list, c.by, c.of) :
               Show(c, list, IF list = "models" THEN c.by ELSE c.of, upTo)
    BY <1>3 DEF AnswerList
  <2> QED BY <2>1, <2>2, ShowCases
<1> QED BY <1>1, <1>2, <1>3 DEF Answer

\* A step of a handler is a POST that takes effect, the handler's failure, or the end
\* of the await it is at.
LEMMA HandleCases ==
    ASSUME NEW c, Handle(c)
    PROVE  \/ CommitPost(c)
           \/ Throw(c) /\ Head(c.awaits) \in {"commit", "reply", "detail"}
           \/ \E now, harm : GoOn(c, now, harm) /\ Shows(c, now, harm)
BY FailureCases, AnswerCases DEF Handle, Fail, Refuse

LEMMA ShowsExist ==
    ASSUME TypeInv, NEW c \in BagToSet(calls), NEW now, NEW harm, Shows(c, now, harm)
    PROVE  ShownExists(now, stored) /\ harm \subseteq Lists /\ Head(c.awaits) # "commit"
<1> DEFINE list == Head(c.awaits)
           owner == IF list = "models" THEN c.by ELSE c.of
<1>1. /\ RegistryTypeOK /\ ShownExists(shown, stored) /\ disturbed \subseteq Lists
      /\ c \in Calls /\ c.handler \in Handlers /\ Remain(c.awaits, c.handler)
      /\ c.of \in OwnersOf(c.handler) /\ ItemExists(c, keyOf, stored)
  BY DEF TypeInv, CallsExist, CallExists, Calls
<1>2. "commit" \notin Lists
  BY DEF Lists, VersionLists, PanelLists, SelectorLists
<1>3. CASE list \in Lists /\ now = shown /\ harm \in {disturbed, disturbed \cup {list}}
  BY <1>1, <1>2, <1>3
<1>4. CASE list = "reply" /\ now = shown /\ harm = disturbed
  BY <1>1, <1>4
<1>5. CASE list = "features" /\ now = Closed({"features"}, shown)
           /\ harm = disturbed \cup {"features"}
  BY <1>1, <1>5, ClosedExists DEF Lists, VersionLists
<1>6. ASSUME list \in Lists, Granted(c), NEW upTo,
             \/ list = "detail" /\ upTo = c.item
             \/ list # "detail" /\ upTo \in c.from..Stored(list, c.by, c.of),
             now = [shown EXCEPT ![list] = [of |-> owner, upTo |-> upTo]],
             harm \in {disturbed, disturbed \cup {list}}
      PROVE  ShownExists(now, stored) /\ harm \subseteq Lists /\ list # "commit"
  <2>1. /\ list = "models" => c.by \in Users
        /\ list = "versions" => c.of \in Models
        /\ list \in VersionLists => c.of \in Versions
    <3>1. c.handler # "signup" /\ (list = "models" => c.by \in Users)
      BY <1>1, <1>6, AsksItsOwner DEF Granted, Calls
    <3>2. /\ list = "versions" => c.handler \in {"versions", "addVersion"}
          /\ list \in VersionLists => c.handler \in PanelHandlers \cup {"features"}
      BY <1>1, AsksItsOwner
    <3> QED BY <1>1, <3>1, <3>2 DEF OwnersOf, PanelHandlers, PanelLists
  <2>2. /\ list # "models" => owner = c.of
        /\ list = "models" => owner = c.by
        /\ owner \in Users \cup Models \cup Versions \cup {None}
    BY <1>1 DEF Calls
  <2>3. list = "detail" => upTo \in Nat /\ upTo <= ListDriftRuns(c.of)
    <3>1. list = "detail" => c.handler = "detail"
      BY <1>1, AsksItsOwner
    <3> QED BY <1>1, <1>6, <3>1 DEF ItemExists, ListDriftRuns
  <2>4. list # "detail" => upTo \in Nat /\ upTo <= Stored(list, c.by, c.of)
    <3>1. Stored(list, c.by, c.of) \in Nat /\ c.from \in Nat
      <4>1. list = "runs" => list \in VersionLists
        BY DEF VersionLists, PanelLists
      <4> QED BY <1>1, <2>1, <4>1, StoredIsNat DEF Calls
    <3> QED BY <1>6, <3>1
  <2>5. EntriesExist(list, owner, upTo, stored)
    <3>1. list = "models" => owner \in Users /\ upTo <= stored["models"][owner]
      BY <2>1, <2>2, <2>4, StoredOf, RegistryAssumption DEF ListModels
    <3>2. list = "versions" => owner \in Models /\ upTo <= stored["versions"][owner]
      BY <2>1, <2>2, <2>4, StoredOf DEF ListVersions
    <3>3. list \in VersionLists => list # "models"
      BY DEF VersionLists, PanelLists
    <3>4. list = "runs" => upTo <= stored["runs"][owner]
      BY <2>2, <2>4, StoredOf DEF ListDriftRuns
    <3>5. list = "detail" => upTo <= stored["runs"][owner]
      BY <2>2, <2>3 DEF ListDriftRuns
    <3> QED BY <2>1, <2>2, <3>1, <3>2, <3>3, <3>4, <3>5 DEF EntriesExist
  <2>6. upTo \in Nat
    BY <2>3, <2>4
  <2> HIDE DEF owner, list
  <2> QED BY <1>1, <1>2, <1>6, <2>2, <2>5, <2>6, ShowExists
<1> QED BY <1>3, <1>4, <1>5, <1>6 DEF Shows

-----------------------------------------------------------------------------
(* The steps.                                                              *)

\* What of the invariant a step on this side of the server has to restore.
Keeps ==
    /\ apiKey' \in Keys \cup {None}
    /\ SelectionExists(modelId', versionId', stored)
    /\ ShownExists(shown', stored)
    /\ CallsExist(calls', keyOf, stored)
    /\ PanelsAreThere(calls', versionId', apiKey')
    /\ OneCheck(calls', triggering')
    /\ disturbed' \subseteq Lists
    /\ switched' \in BOOLEAN

LEMMA CallsOfBags ==
    ASSUME NEW bag, NEW more, NEW keys, NEW entries, CallsExist(bag, keys, entries)
    PROVE  /\ CallsExist(more, keys, entries) => CallsExist(bag (+) more, keys, entries)
           /\ \A x : CallExists(x, keys, entries) => CallsExist(BagAdd(bag, x), keys, entries)
           /\ \A x : CallsExist(BagRemove(bag, x), keys, entries)
BY BagCupMembers, BagAddMembers, BagRemoveMembers DEF CallsExist

LEMMA PanelsOfBags ==
    ASSUME NEW bag, NEW more, NEW v, NEW k, PanelsAreThere(bag, v, k)
    PROVE  /\ PanelsAreThere(more, v, k) => PanelsAreThere(bag (+) more, v, k)
           /\ \A x : (x.handler \in PanelHandlers => v # None /\ k # None /\ x.live)
                  => PanelsAreThere(BagAdd(bag, x), v, k)
           /\ \A x : PanelsAreThere(BagRemove(bag, x), v, k)
BY BagCupMembers, BagAddMembers, BagRemoveMembers DEF PanelsAreThere

LEMMA LoadVersionsKeeps ==
    ASSUME RegistryTypeOK, apiKey \in Keys \cup {None}, NEW m, m = None \/ m \in Models,
           NEW bag, NEW v, NEW k, NEW busy
    PROVE  /\ CallsExist(bag, keyOf, stored) => CallsExist(bag (+) LoadVersions(m), keyOf, stored)
           /\ PanelsAreThere(bag, v, k) => PanelsAreThere(bag (+) LoadVersions(m), v, k)
           /\ OneCheck(bag, busy) => OneCheck(bag (+) LoadVersions(m), busy)
<1>1. ASSUME NEW d \in BagToSet(LoadVersions(m))
      PROVE  CallExists(d, keyOf, stored) /\ d.handler = "versions"
  BY LoadVersionsExists
<1>2. "versions" \notin PanelHandlers /\ "versions" # "check"
  BY DEF PanelHandlers, PanelLists
<1>3. CallsExist(LoadVersions(m), keyOf, stored) /\ PanelsAreThere(LoadVersions(m), v, k)
  BY <1>1, <1>2 DEF CallsExist, PanelsAreThere
<1> QED BY <1>1, <1>2, <1>3, CallsOfBags, PanelsOfBags, ChecksInBags

\* The loads of a dashboard that is entered.
LEMMA EnterKeeps ==
    ASSUME TypeInv, NEW k \in Keys, NEW left, Enter(k, left),
           CallsExist(left, keyOf, stored), PanelsAreThere(left, versionId, apiKey),
           OneCheck(left, triggering)
    PROVE  Keeps
<1>1. /\ RegistryTypeOK /\ SelectionExists(modelId, versionId, stored)
      /\ ShownExists(shown, stored) /\ disturbed \subseteq Lists /\ switched \in BOOLEAN
      /\ apiKey \in Keys \cup {None}
  BY DEF TypeInv
<1>2. /\ apiKey' = k /\ k # None /\ modelId' = modelId /\ versionId' = versionId
      /\ shown' = shown /\ triggering' = triggering
  BY RegistryAssumption DEF Enter
<1>3. CASE SignedIn
  <2>1. /\ calls' = left /\ disturbed' \in {disturbed, disturbed \cup {"models"}}
        /\ switched' \in BOOLEAN
    BY <1>1, <1>3 DEF Enter
  <2>2. "models" \in Lists
    BY DEF Lists, SelectorLists
  <2>3. PanelsAreThere(calls', versionId', apiKey')
    BY <1>2, <1>3, <2>1 DEF PanelsAreThere
  <2>4. OneCheck(calls', triggering')
    BY <1>2, <2>1, Zenon
  <2> QED BY <1>1, <1>2, <2>1, <2>2, <2>3, <2>4 DEF Keeps
<1>4. CASE ~SignedIn
  <2> DEFINE u == Authenticate(k)
             lost == Outlived({"signup"}, left)
             ofUser == Loads({"models"}, u, None)
             ofModel == IF modelId = None THEN EmptyBag ELSE Loads({"versions"}, u, modelId)
             ofVersion == IF versionId = None THEN EmptyBag
                          ELSE Loads(PanelLists \ {"detail"}, u, versionId)
  <2>1. /\ calls' = lost (+) ofUser (+) ofModel (+) ofVersion
        /\ switched' = switched /\ disturbed' = disturbed
    BY <1>4 DEF Enter
  <2>2. u \in Users \cup {None}
    BY <1>1, AuthenticatedUser
  <2>3. ASSUME NEW d \in BagToSet(lost)
        PROVE  CallExists(d, keyOf, stored) /\ d.handler \notin PanelHandlers
    <3>1. \A c \in BagToSet(left) : c.handler \notin PanelHandlers
      BY <1>4 DEF PanelsAreThere, SignedIn
    <3> QED BY <2>3, <3>1, OutlivedCall
  <2>4. ASSUME NEW d \in BagToSet(ofUser)
        PROVE  CallExists(d, keyOf, stored) /\ d.handler \notin PanelHandlers
    <3>1. {"models"} \in SUBSET Lists /\ None \in OwnersOf("models")
          /\ "models" \notin PanelHandlers
      BY DEF Lists, SelectorLists, OwnersOf, PanelHandlers, PanelLists
    <3> QED BY <1>1, <2>2, <2>4, <3>1, LoadExists
  <2>5. ASSUME NEW d \in BagToSet(ofModel)
        PROVE  CallExists(d, keyOf, stored) /\ d.handler \notin PanelHandlers
    <3>1. modelId \in Models /\ d \in BagToSet(Loads({"versions"}, u, modelId))
      BY <1>1, <2>5, NoMembers DEF SelectionExists, ModelExists
    <3>2. {"versions"} \in SUBSET Lists /\ modelId \in OwnersOf("versions")
          /\ "versions" \notin PanelHandlers
      BY <3>1 DEF Lists, SelectorLists, OwnersOf, PanelHandlers, PanelLists
    <3> QED BY <1>1, <2>2, <3>1, <3>2, LoadExists
  <2>6. ASSUME NEW d \in BagToSet(ofVersion)
        PROVE  CallExists(d, keyOf, stored) /\ versionId # None /\ d.live /\ d.handler # "check"
    <3>1. versionId \in Versions /\ versionId # None
          /\ d \in BagToSet(Loads(PanelLists \ {"detail"}, u, versionId))
      BY <1>1, <2>6, NoMembers DEF SelectionExists, VersionExists
    <3>2. PanelLists \ {"detail"} \in SUBSET Lists /\ "check" \notin PanelLists
          /\ \A list \in PanelLists \ {"detail"} : versionId \in OwnersOf(list)
      BY <3>1 DEF Lists, VersionLists, OwnersOf, PanelHandlers, PanelLists
    <3> QED BY <1>1, <2>2, <3>1, <3>2, LoadExists
  <2> HIDE DEF lost, ofUser, ofModel, ofVersion
  <2>7. BagToSet(calls') = BagToSet(lost) \cup BagToSet(ofUser)
                               \cup BagToSet(ofModel) \cup BagToSet(ofVersion)
    BY <2>1, BagCupMembers
  <2>8. CallsExist(calls', keyOf, stored)
    BY <2>3, <2>4, <2>5, <2>6, <2>7 DEF CallsExist
  <2>9. PanelsAreThere(calls', versionId', apiKey')
    BY <1>2, <2>3, <2>4, <2>5, <2>6, <2>7 DEF PanelsAreThere
  <2>10. OneCheck(calls', triggering')
    <3>1. "check" \in PanelHandlers
      BY DEF PanelHandlers
    <3>2. OneCheck(calls', FALSE)
      BY <2>3, <2>4, <2>5, <2>6, <2>7, <3>1, NoChecks
    <3>3. ~triggering
      BY <1>4, <3>1 DEF OneCheck, PanelsAreThere, SignedIn
    <3>4. triggering' = FALSE
      BY <1>2, <3>3 DEF OneCheck
    <3> QED BY <3>2, <3>4, Zenon
  <2> QED BY <1>1, <1>2, <2>1, <2>8, <2>9, <2>10 DEF Keeps
<1> QED BY <1>3, <1>4

LEMMA GoOnKeeps ==
    ASSUME TypeInv, NEW c \in BagToSet(calls), NEW now, NEW harm, GoOn(c, now, harm),
           ShownExists(now, stored), harm \subseteq Lists, Head(c.awaits) # "commit"
    PROVE  Keeps
<1> DEFINE left == BagRemove(calls, c)
           next == Resumed(c, Authenticate(apiKey))
<1>1. /\ RegistryTypeOK /\ SelectionExists(modelId, versionId, stored)
      /\ switched \in BOOLEAN /\ apiKey \in Keys \cup {None}
      /\ CallsExist(calls, keyOf, stored) /\ PanelsAreThere(calls, versionId, apiKey)
      /\ OneCheck(calls, triggering)
  BY DEF TypeInv
<1>2. /\ CallExists(c, keyOf, stored) /\ c \in Calls /\ c.of \in OwnersOf(c.handler)
      /\ ItemExists(c, keyOf, stored)
  BY <1>1 DEF CallsExist, CallExists
<1>3. CallsExist(left, keyOf, stored) /\ PanelsAreThere(left, versionId, apiKey)
  BY <1>1, CallsOfBags, PanelsOfBags
<1>4. /\ c.handler # "check" => OneCheck(left, triggering)
      /\ c.handler = "check" => OneCheck(left, FALSE) /\ triggering = TRUE
  <2>1. c.handler = "check" => triggering /\ OneCheck(left, FALSE)
    BY <1>1, ChecksInBags
  <2>2. triggering \in BOOLEAN
    BY <1>1 DEF OneCheck
  <2> QED BY <1>1, <2>1, <2>2, ChecksInBags
<1> HIDE DEF left
<1>5. CASE /\ Len(c.awaits) > 1
           /\ shown' = now /\ disturbed' = harm
           /\ calls' = BagAdd(left, next)
           /\ UNCHANGED <<apiKey, switched, modelId, versionId, triggering>>
  <2>1. CallExists(next, keyOf, stored) /\ next.handler = c.handler /\ next.live = c.live
    <3>1. Authenticate(apiKey) \in Users \cup {None}
      BY <1>1, AuthenticatedUser
    <3> QED BY <1>1, <1>2, <1>5, <3>1, NextAwait, NextAwaitExists
  <2> HIDE DEF next
  <2>2. CallsExist(calls', keyOf, stored)
    BY <1>3, <1>5, <2>1, CallsOfBags
  <2>3. PanelsAreThere(calls', versionId', apiKey')
    <3>1. c.handler \in PanelHandlers => versionId # None /\ apiKey # None /\ c.live
      BY <1>1 DEF PanelsAreThere
    <3>2. PanelsAreThere(BagAdd(left, next), versionId, apiKey)
      BY <1>3, <2>1, <3>1, PanelsOfBags
    <3> QED BY <1>5, <3>2
  <2>4. OneCheck(calls', triggering')
    <3>1. CASE c.handler = "check"
      <4>1. OneCheck(BagAdd(left, next), TRUE) /\ triggering' = TRUE
        BY <1>4, <1>5, <2>1, <3>1, ChecksInBags
      <4> QED BY <1>5, <4>1, Zenon
    <3>2. CASE c.handler # "check"
      <4>1. OneCheck(BagAdd(left, next), triggering) /\ triggering' = triggering
        BY <1>4, <1>5, <2>1, <3>2, ChecksInBags
      <4> QED BY <1>5, <4>1, Zenon
    <3> QED BY <3>1, <3>2
  <2> QED BY <1>1, <1>5, <2>2, <2>3, <2>4 DEF Keeps
<1>6. CASE /\ Len(c.awaits) = 1 /\ c.handler = "check"
           /\ shown' = [now EXCEPT !["detail"] = [of |-> c.of, upTo |-> c.item]]
           /\ disturbed' = IF c.of # versionId THEN harm \cup {"detail"} ELSE harm
           /\ calls' = left /\ triggering' = FALSE
           /\ UNCHANGED <<apiKey, switched, modelId, versionId>>
  <2>1. /\ "detail" \in Lists /\ "detail" \in VersionLists
        /\ "detail" \notin {"models", "versions"} /\ "check" \in PanelHandlers
    BY DEF Lists, VersionLists, PanelLists, PanelHandlers
  <2>2. /\ c.of \in Versions /\ c.item \in Nat
        /\ EntriesExist("detail", c.of, c.item, stored)
    BY <1>2, <1>6, <2>1 DEF OwnersOf, ItemExists, EntriesExist
  <2>3. ShownExists(shown', stored)
    BY <1>6, <2>1, <2>2, ShowExists
  <2>4. OneCheck(calls', triggering')
    BY <1>4, <1>6, Zenon
  <2> QED BY <1>1, <1>3, <1>6, <2>1, <2>3, <2>4 DEF Keeps
<1>7. CASE /\ Len(c.awaits) = 1 /\ c.handler = "addVersion"
           /\ SelectVersion(c.item, now, left, harm)
           /\ UNCHANGED <<apiKey, switched, modelId>>
  <2>1. VersionExists(c.item, stored)
    BY <1>2, <1>7 DEF ItemExists
  <2>2. /\ ShownExists(shown', stored) /\ CallsExist(calls', keyOf, stored)
        /\ PanelsAreThere(calls', versionId', apiKey) /\ OneCheck(calls', triggering')
        /\ disturbed' \subseteq Lists /\ versionId' = c.item
    BY <1>1, <1>3, <1>4, <1>7, <2>1, SelectVersionKeeps, SelectVersionEffects
  <2> QED BY <1>1, <1>7, <2>1, <2>2 DEF Keeps, SelectionExists
<1>8. CASE /\ Len(c.awaits) = 1 /\ c.handler = "addModel"
           /\ modelId' = c.item
           /\ shown' = now /\ calls' = left (+) LoadVersions(c.item)
           /\ disturbed' = IF c.item = modelId THEN harm ELSE harm \ {"versions"}
           /\ UNCHANGED <<apiKey, switched, versionId, triggering>>
  <2>1. ModelExists(c.item, stored) /\ c.item \in Models
    BY <1>2, <1>8 DEF ItemExists, ModelExists
  <2>2. CallsExist(calls', keyOf, stored) /\ PanelsAreThere(calls', versionId', apiKey')
    BY <1>1, <1>3, <1>8, <2>1, LoadVersionsKeeps
  <2>3. OneCheck(calls', triggering')
    <3>1. OneCheck(left (+) LoadVersions(c.item), triggering)
      BY <1>1, <1>4, <1>8, <2>1, LoadVersionsKeeps
    <3> QED BY <1>8, <3>1, Zenon
  <2> QED BY <1>1, <1>8, <2>1, <2>2, <2>3 DEF Keeps, SelectionExists
<1>9. CASE Len(c.awaits) = 1 /\ c.handler = "signup" /\ Enter(c.item, left)
  <2>1. c.item \in Keys
    BY <1>2, <1>9 DEF ItemExists
  <2> QED BY <1>3, <1>4, <1>9, <2>1, EnterKeeps
<1>10. CASE /\ Len(c.awaits) = 1 /\ c.handler \in Lists \cup {"addFeature"}
            /\ shown' = now /\ calls' = left /\ disturbed' = harm
            /\ UNCHANGED <<apiKey, switched, modelId, versionId, triggering>>
  <2>1. c.handler # "check"
    BY <1>10 DEF Lists, VersionLists, PanelLists, SelectorLists
  <2>2. OneCheck(calls', triggering')
    BY <1>4, <1>10, <2>1, Zenon
  <2> QED BY <1>1, <1>3, <1>10, <2>2 DEF Keeps
<1> QED BY <1>5, <1>6, <1>7, <1>8, <1>9, <1>10 DEF GoOn, left, Resumed

LEMMA ThrowKeeps ==
    ASSUME TypeInv, NEW c \in BagToSet(calls), Throw(c)
    PROVE  Keeps
<1>1. /\ RegistryTypeOK /\ SelectionExists(modelId, versionId, stored)
      /\ switched \in BOOLEAN /\ apiKey \in Keys \cup {None} /\ ShownExists(shown, stored)
      /\ CallsExist(calls, keyOf, stored) /\ PanelsAreThere(calls, versionId, apiKey)
      /\ OneCheck(calls, triggering) /\ disturbed \subseteq Lists
  BY DEF TypeInv
<1>2. CallsExist(calls', keyOf, stored) /\ PanelsAreThere(calls', versionId', apiKey')
  BY <1>1, CallsOfBags, PanelsOfBags DEF Throw
<1>3. OneCheck(calls', triggering')
  <2>1. CASE c.handler = "check"
    <3>1. OneCheck(BagRemove(calls, c), FALSE) /\ triggering' = FALSE
      BY <1>1, <2>1, ChecksInBags DEF Throw
    <3> QED BY <3>1, Zenon DEF Throw
  <2>2. CASE c.handler # "check"
    <3>1. OneCheck(BagRemove(calls, c), triggering) /\ triggering \in BOOLEAN
      BY <1>1, <2>2, ChecksInBags DEF OneCheck
    <3>2. triggering' = triggering
      BY <2>2, <3>1 DEF Throw
    <3> QED BY <3>1, <3>2, Zenon DEF Throw
  <2> QED BY <2>1, <2>2
<1> QED BY <1>1, <1>2, <1>3 DEF Keeps, Throw

LEMMA PickModelKeeps == ASSUME TypeInv, NEW m \in Models \cup {None}, PickModel(m) PROVE Keeps
<1> DEFINE now == IF m = None THEN Closed({"versions"}, shown) ELSE shown
           left == calls (+) LoadVersions(m)
<1>1. /\ RegistryTypeOK /\ SelectionExists(modelId, versionId, stored)
      /\ switched \in BOOLEAN /\ apiKey \in Keys \cup {None} /\ ShownExists(shown, stored)
      /\ CallsExist(calls, keyOf, stored) /\ PanelsAreThere(calls, versionId, apiKey)
      /\ OneCheck(calls, triggering) /\ disturbed \subseteq Lists
  BY DEF TypeInv
<1>2. /\ SelectVersion(None, now, left, disturbed \ {"versions"})
      /\ modelId' = m /\ apiKey' = apiKey /\ switched' = switched
  BY DEF PickModel, Choose
<1>3. m # None => ModelExists(m, stored)
  <2> SUFFICES ASSUME m # None PROVE ModelExists(m, stored)
    OBVIOUS
  <2>1. /\ m \in Models /\ m[1] \in Users /\ m[2] \in Nat
        /\ m[1] = shown["models"].of /\ m[2] <= shown["models"].upTo
    BY DEF Models, PickModel
  <2>2. "models" \in Lists /\ shown["models"] # Nobody
    BY <2>1, RegistryAssumption DEF Lists, SelectorLists, Nobody
  <2>3. /\ shown["models"].upTo \in Nat /\ stored["models"][m[1]] \in Nat
        /\ shown["models"].upTo <= stored["models"][m[1]]
    BY <1>1, <2>1, <2>2 DEF ShownExists, EntriesExist, RegistryTypeOK
  <2> QED BY <2>1, <2>3 DEF ModelExists
<1>4. ShownExists(now, stored)
  BY <1>1, ClosedExists
<1>5. /\ CallsExist(left, keyOf, stored) /\ PanelsAreThere(left, versionId, apiKey)
      /\ OneCheck(left, triggering)
  BY <1>1, LoadVersionsKeeps
<1> HIDE DEF now, left
<1>6. /\ ShownExists(shown', stored) /\ CallsExist(calls', keyOf, stored)
      /\ PanelsAreThere(calls', versionId', apiKey) /\ OneCheck(calls', triggering')
      /\ disturbed' \subseteq Lists /\ versionId' = None
  <2>1. disturbed \ {"versions"} \subseteq Lists
    BY <1>1
  <2> QED BY <1>1, <1>2, <1>4, <1>5, <2>1, SelectVersionKeeps, SelectVersionEffects
<1> QED BY <1>1, <1>2, <1>3, <1>6 DEF Keeps, SelectionExists

LEMMA PickVersionKeeps ==
    ASSUME TypeInv, NEW v \in Versions \cup {None}, PickVersion(v) PROVE Keeps
<1>1. /\ RegistryTypeOK /\ SelectionExists(modelId, versionId, stored)
      /\ switched \in BOOLEAN /\ apiKey \in Keys \cup {None} /\ ShownExists(shown, stored)
      /\ CallsExist(calls, keyOf, stored) /\ PanelsAreThere(calls, versionId, apiKey)
      /\ OneCheck(calls, triggering) /\ disturbed \subseteq Lists
  BY DEF TypeInv
<1>2. /\ SelectVersion(v, shown, calls, disturbed)
      /\ modelId' = modelId /\ apiKey' = apiKey /\ switched' = switched
  BY DEF PickVersion, Choose
<1>3. v = None \/ VersionExists(v, stored)
  <2> SUFFICES ASSUME v # None PROVE VersionExists(v, stored)
    OBVIOUS
  <2>1. /\ v \in Versions /\ v[1] \in Models /\ v[2] \in Nat
        /\ v[1] = shown["versions"].of /\ v[2] <= shown["versions"].upTo
    BY DEF Versions, PickVersion
  <2>2. "versions" \in Lists /\ shown["versions"] # Nobody
    BY <2>1, RegistryAssumption DEF Lists, SelectorLists, Nobody
  <2>3. /\ shown["versions"].upTo \in Nat /\ stored["versions"][v[1]] \in Nat
        /\ shown["versions"].upTo <= stored["versions"][v[1]]
    BY <1>1, <2>1, <2>2 DEF ShownExists, EntriesExist, RegistryTypeOK
  <2> QED BY <2>1, <2>3 DEF VersionExists
<1>4. /\ ShownExists(shown', stored) /\ CallsExist(calls', keyOf, stored)
      /\ PanelsAreThere(calls', versionId', apiKey) /\ OneCheck(calls', triggering')
      /\ disturbed' \subseteq Lists /\ versionId' = v
  BY <1>1, <1>2, <1>3, SelectVersionKeeps, SelectVersionEffects
<1> QED BY <1>1, <1>2, <1>3, <1>4 DEF Keeps, SelectionExists

\* The clicks that start a handler.
LEMMA StartKeeps ==
    ASSUME TypeInv, NEW h \in Handlers, NEW owner \in OwnersOf(h), NEW item \in Nat,
           Start(h, owner, item), h \in {"check", "detail"} => item <= ListDriftRuns(owner),
           h \in PanelHandlers => versionId # None,
           \/ h # "check" /\ triggering' = triggering
           \/ h = "check" /\ ~triggering /\ triggering' = TRUE
    PROVE  Keeps
<1> DEFINE c == Call(h, Authenticate(apiKey), owner, item)
<1>1. /\ RegistryTypeOK /\ SelectionExists(modelId, versionId, stored)
      /\ switched \in BOOLEAN /\ apiKey \in Keys \cup {None} /\ ShownExists(shown, stored)
      /\ CallsExist(calls, keyOf, stored) /\ PanelsAreThere(calls, versionId, apiKey)
      /\ OneCheck(calls, triggering) /\ disturbed \subseteq Lists
  BY DEF TypeInv
<1>2. /\ apiKey # None /\ calls' = BagAdd(calls, c)
      /\ UNCHANGED <<apiKey, switched, modelId, versionId, shown, disturbed>>
  BY DEF Start, Choose, SignedIn
<1>3. CallExists(c, keyOf, stored) /\ c.handler = h /\ c.live
  BY <1>1, AuthenticatedUser, NewCall, NewCallExists DEF Items
<1> HIDE DEF c
<1>4. CallsExist(calls', keyOf, stored) /\ PanelsAreThere(calls', versionId', apiKey')
  BY <1>1, <1>2, <1>3, CallsOfBags, PanelsOfBags
<1>5. OneCheck(calls', triggering')
  <2>1. CASE h # "check" /\ triggering' = triggering
    <3>1. OneCheck(BagAdd(calls, c), triggering)
      BY <1>1, <1>3, <2>1, ChecksInBags
    <3> QED BY <1>2, <2>1, <3>1, Zenon
  <2>2. CASE h = "check" /\ ~triggering /\ triggering' = TRUE
    <3>1. OneCheck(BagAdd(calls, c), TRUE)
      <4>1. triggering = FALSE
        BY <1>1, <2>2 DEF OneCheck
      <4>2. OneCheck(calls, FALSE)
        BY <1>1, <4>1, Zenon
      <4> QED BY <1>3, <2>2, <4>2, ChecksInBags
    <3> QED BY <1>2, <2>2, <3>1, Zenon
  <2> QED BY <2>1, <2>2
<1> QED BY <1>1, <1>2, <1>4, <1>5 DEF Keeps

LEMMA ClicksKeep ==
    ASSUME TypeInv,
           \/ TriggerCheck \/ AddFeature \/ AddVersion \/ AddModel
           \/ \E n \in 1..shown["runs"].upTo : OpenRun(n)
    PROVE  Keeps
<1>1. /\ RegistryTypeOK /\ SelectionExists(modelId, versionId, stored)
      /\ ShownExists(shown, stored)
  BY DEF TypeInv
<1>2. /\ {"check", "addFeature", "addVersion", "addModel", "detail"} \subseteq Handlers
      /\ \A h \in {"check", "addFeature", "detail"} : OwnersOf(h) = Versions
      /\ OwnersOf("addVersion") = Models /\ OwnersOf("addModel") = {None}
      /\ "addVersion" \notin PanelHandlers /\ "addModel" \notin PanelHandlers
  BY DEF Handlers, PanelHandlers, PanelLists, SelectorHandlers, OwnersOf
<1>3. /\ versionId # None => versionId \in Versions /\ 0 <= ListDriftRuns(versionId)
      /\ modelId # None => modelId \in Models
  BY <1>1 DEF SelectionExists, VersionExists, ModelExists, RegistryTypeOK, ListDriftRuns
<1>4. CASE TriggerCheck
  BY <1>2, <1>3, <1>4, StartKeeps DEF TriggerCheck
<1>5. CASE AddFeature
  BY <1>2, <1>3, <1>5, StartKeeps DEF AddFeature
<1>6. CASE AddVersion
  BY <1>2, <1>3, <1>6, StartKeeps DEF AddVersion
<1>7. CASE AddModel
  BY <1>2, <1>7, StartKeeps DEF AddModel
<1>8. ASSUME NEW n \in 1..shown["runs"].upTo, OpenRun(n) PROVE Keeps
  <2>1. "runs" \in Lists /\ "runs" \in VersionLists
    BY DEF Lists, VersionLists, PanelLists
  <2>2. shown["runs"].upTo \in Nat /\ n \in Nat /\ shown["runs"] # Nobody
    BY <1>1, <1>8, <2>1 DEF ShownExists, Nobody
  <2>3. shown["runs"].of \in Versions
        /\ shown["runs"].upTo <= stored["runs"][shown["runs"].of]
    BY <1>1, <2>1, <2>2 DEF ShownExists, EntriesExist
  <2>4. n <= ListDriftRuns(shown["runs"].of)
    BY <1>1, <1>8, <2>2, <2>3 DEF ListDriftRuns, RegistryTypeOK
  <2> QED BY <1>2, <1>8, <2>2, <2>3, <2>4, StartKeeps DEF OpenRun
<1> QED BY <1>4, <1>5, <1>6, <1>7, <1>8

LEMMA SessionsKeep ==
    ASSUME TypeInv,
           \/ \E k \in Keys : UseExistingKey(k)
           \/ \E u \in Users : SignUp(u)
           \/ Logout \/ Reload
    PROVE  Keeps
<1>1. /\ RegistryTypeOK /\ SelectionExists(modelId, versionId, stored)
      /\ switched \in BOOLEAN /\ apiKey \in Keys \cup {None} /\ ShownExists(shown, stored)
      /\ CallsExist(calls, keyOf, stored) /\ PanelsAreThere(calls, versionId, apiKey)
      /\ OneCheck(calls, triggering) /\ disturbed \subseteq Lists
  BY DEF TypeInv
<1>2. ASSUME NEW k \in Keys, UseExistingKey(k) PROVE Keeps
  BY <1>1, <1>2, EnterKeeps DEF UseExistingKey
<1>3. ASSUME NEW u \in Users, SignUp(u) PROVE Keeps
  <2> DEFINE c == Call("signup", None, u, None)
  <2>1. calls' = BagAdd(calls, c) /\ UNCHANGED view
    BY <1>3 DEF SignUp
  <2>2. "signup" \in Handlers /\ u \in OwnersOf("signup") /\ "signup" \notin PanelHandlers
    BY DEF Handlers, OwnersOf, PanelHandlers, PanelLists
  <2>3. CallExists(c, keyOf, stored) /\ c.handler = "signup"
    <3>1. None \in Users \cup {None} /\ None \in Items /\ "signup" \notin {"check", "detail"}
      BY DEF Items
    <3>2. CallExists(c, keyOf, stored)
      BY <1>1, <2>2, <3>1, NewCallExists
    <3> QED BY <3>2, NewCall
  <2> HIDE DEF c
  <2>4. CallsExist(calls', keyOf, stored) /\ PanelsAreThere(calls', versionId', apiKey')
    BY <1>1, <2>1, <2>2, <2>3, CallsOfBags, PanelsOfBags DEF view
  <2>5. OneCheck(calls', triggering')
    <3>1. OneCheck(BagAdd(calls, c), triggering)
      BY <1>1, <2>3, ChecksInBags
    <3> QED BY <2>1, <3>1, Zenon DEF view
  <2> QED BY <1>1, <2>1, <2>4, <2>5 DEF Keeps, view
<1>4. CASE Logout
  <2> DEFINE now == Closed(PanelLists \cup SelectorLists, shown)
             left == Outlived(SelectorHandlers, calls)
             harm == disturbed \ SelectorLists
  <2>1. /\ apiKey' = None /\ modelId' = None /\ switched' = FALSE
        /\ SelectVersion(None, now, left, harm)
    BY <1>4 DEF Logout
  <2>2. ShownExists(now, stored) /\ harm \subseteq Lists
    BY <1>1, ClosedExists
  <2>3. \A d \in BagToSet(left) : CallExists(d, keyOf, stored)
    BY <1>1, OutlivedCall
  <2>4. versionId = None => ~triggering /\ \A d \in BagToSet(left) : d.handler \notin PanelHandlers
    <3> SUFFICES ASSUME versionId = None
                 PROVE  ~triggering /\ \A d \in BagToSet(left) : d.handler \notin PanelHandlers
      OBVIOUS
    <3>1. \A c \in BagToSet(calls) : c.handler \notin PanelHandlers
      BY <1>1 DEF PanelsAreThere
    <3> QED BY <1>1, <3>1, OutlivedCall DEF OneCheck, PanelHandlers
  <2> HIDE DEF now, left, harm
  <2>5. /\ versionId' = None /\ disturbed' \subseteq Lists /\ ShownExists(shown', stored)
        /\ triggering' = FALSE
        /\ BagToSet(calls') \subseteq BagToSet(left)
        /\ \A d \in BagToSet(calls') : d.handler \notin PanelHandlers
    <3>1. CASE versionId = None
      <4>1. versionId' = None /\ disturbed' = harm /\ shown' = now /\ calls' = left
            /\ triggering' = triggering
        BY <2>1, <3>1, SelectVersionEffects
      <4>2. triggering' = FALSE
        BY <1>1, <2>4, <3>1, <4>1 DEF OneCheck
      <4> QED BY <2>2, <2>4, <3>1, <4>1, <4>2
    <3>2. CASE versionId # None
      <4>1. versionId' = None /\ disturbed' = harm \ VersionLists /\ triggering' = FALSE
            /\ shown' = Closed(VersionLists, now)
            /\ BagToSet(calls') = {d \in BagToSet(left) : d.handler \notin PanelHandlers}
        BY <2>1, <3>2, SelectVersionEffects
      <4> QED BY <2>2, <4>1, ClosedExists
    <3> QED BY <3>1, <3>2
  <2>6. OneCheck(calls', triggering')
    <3>1. OneCheck(calls', FALSE)
      BY <2>5, NoChecks DEF PanelHandlers
    <3> QED BY <2>5, <3>1, Zenon
  <2>7. CallsExist(calls', keyOf, stored) /\ PanelsAreThere(calls', versionId', apiKey')
    BY <2>3, <2>5 DEF CallsExist, PanelsAreThere
  <2> QED BY <2>1, <2>5, <2>6, <2>7 DEF Keeps, SelectionExists
<1>5. CASE Reload
  <2>1. /\ modelId' = None /\ versionId' = None /\ shown' = Closed(Lists, shown)
        /\ triggering' = FALSE /\ disturbed' = {} /\ switched' = FALSE /\ apiKey' = apiKey
        /\ calls' = IF SignedIn THEN Loads({"models"}, Authenticate(apiKey), None) ELSE EmptyBag
    BY <1>5 DEF Reload
  <2>2. ASSUME NEW d \in BagToSet(calls')
        PROVE  CallExists(d, keyOf, stored) /\ d.handler = "models"
    <3>1. {"models"} \in SUBSET Lists /\ None \in OwnersOf("models")
      BY DEF Lists, SelectorLists, OwnersOf, PanelHandlers, PanelLists
    <3>2. d \in BagToSet(Loads({"models"}, Authenticate(apiKey), None))
      BY <2>1, <2>2, NoMembers
    <3> QED BY <1>1, <3>1, <3>2, LoadExists, AuthenticatedUser
  <2>3. CallsExist(calls', keyOf, stored) /\ PanelsAreThere(calls', versionId', apiKey')
    BY <2>2 DEF CallsExist, PanelsAreThere, PanelHandlers, PanelLists
  <2>4. OneCheck(calls', triggering')
    <3>1. OneCheck(calls', FALSE)
      BY <2>2, NoChecks
    <3> QED BY <2>1, <3>1, Zenon
  <2>5. ShownExists(shown', stored)
    BY <1>1, <2>1, ClosedExists
  <2> QED BY <1>1, <2>1, <2>3, <2>4, <2>5 DEF Keeps, SelectionExists
<1> QED BY <1>2, <1>3, <1>4, <1>5

\* A POST is answered with what it made.
LEMMA CommitKeeps ==
    ASSUME TypeInv, NEW c \in BagToSet(calls), CommitPost(c)
    PROVE  /\ ServerGrows
           /\ CallsExist(calls', keyOf', stored')
           /\ PanelsAreThere(calls', versionId, apiKey)
           /\ OneCheck(calls', triggering)
           /\ \E made : Posted(c, made) /\ LET d == [c EXCEPT !.awaits = Tail(@), !.item = made]
                                           IN  CallExists(d, keyOf', stored')
<1>1. /\ RegistryTypeOK /\ CallsExist(calls, keyOf, stored) /\ OneCheck(calls, triggering)
      /\ PanelsAreThere(calls, versionId, apiKey)
      /\ CallExists(c, keyOf, stored) /\ c \in Calls /\ c.of \in OwnersOf(c.handler)
      /\ Head(c.awaits) = "commit" /\ Granted(c) /\ ItemExists(c, keyOf, stored)
  BY DEF TypeInv, CallsExist, CallExists, CommitPost
<1>2. ASSUME NEW made \in Items, Posted(c, made), ServerGrows,
             c.handler = "check" => made \in Nat /\ made <= stored'["runs"][c.of],
             c.handler = "addVersion" => VersionExists(made, stored'),
             c.handler = "addModel" => ModelExists(made, stored'),
             c.handler = "signup" => made \in Keys /\ keyOf'[made] = c.of
      PROVE  /\ CallsExist(calls', keyOf', stored')
             /\ PanelsAreThere(calls', versionId, apiKey)
             /\ OneCheck(calls', triggering)
             /\ CallExists([c EXCEPT !.awaits = Tail(@), !.item = made], keyOf', stored')
  <2> DEFINE d == [c EXCEPT !.awaits = Tail(@), !.item = made]
             left == BagRemove(calls, c)
  <2>1. CallExists(c, keyOf', stored') /\ CallsExist(calls, keyOf', stored')
    BY <1>1, <1>2, StillThere
  <2>2. CallExists(d, keyOf', stored') /\ d.handler = c.handler /\ d.live = c.live
    <3> HIDE DEF d
    <3>1. CallExists(d, keyOf', stored')
      BY <1>1, <1>2, <2>1, PostedExists DEF d
    <3>2. d.handler = c.handler /\ d.live = c.live
      BY <1>1 DEF d, Calls
    <3> QED BY <3>1, <3>2
  <2>3. calls' = BagAdd(left, d)
    BY <1>2 DEF Posted
  <2>4. CallsExist(left, keyOf', stored') /\ PanelsAreThere(left, versionId, apiKey)
    BY <1>1, <2>1, CallsOfBags, PanelsOfBags
  <2>5. c.handler \in PanelHandlers => versionId # None /\ apiKey # None /\ c.live
    BY <1>1 DEF PanelsAreThere
  <2>6. /\ c.handler = "check" => triggering /\ OneCheck(left, FALSE)
        /\ c.handler # "check" => OneCheck(left, triggering)
    BY <1>1, ChecksInBags
  <2> HIDE DEF d, left
  <2>7. OneCheck(calls', triggering)
    <3>1. CASE c.handler = "check"
      <4>1. OneCheck(BagAdd(left, d), TRUE) /\ triggering = TRUE
        BY <1>1, <2>2, <2>6, <3>1, ChecksInBags DEF OneCheck
      <4> QED BY <2>3, <4>1, Zenon
    <3>2. CASE c.handler # "check"
      <4>1. OneCheck(BagAdd(left, d), triggering)
        BY <2>2, <2>6, <3>2, ChecksInBags
      <4> QED BY <2>3, <4>1, Zenon
    <3> QED BY <3>1, <3>2
  <2>8. CallsExist(calls', keyOf', stored') /\ PanelsAreThere(calls', versionId, apiKey)
    BY <2>2, <2>3, <2>4, <2>5, CallsOfBags, PanelsOfBags
  <2> QED BY <2>2, <2>7, <2>8 DEF d
<1>3. CASE CommitCheck(c)
  <2>1. c.handler = "check" /\ c.of \in Versions
    BY <1>1, <1>3 DEF CommitCheck, OwnersOf, PanelHandlers
  <2>2. /\ ServerGrows /\ ListDriftRuns(c.of) + 1 \in Nat
        /\ ListDriftRuns(c.of) + 1 <= stored'["runs"][c.of]
    BY <1>1, <1>3, <2>1, CreateDriftRunStep DEF CommitCheck
  <2> QED BY <1>2, <1>3, <2>1, <2>2 DEF CommitCheck, Items
<1>4. CASE CommitFeature(c)
  <2>1. ServerGrows
    BY <1>1, <1>4, ServerStays DEF CommitFeature
  <2> QED BY <1>2, <1>4, <2>1 DEF CommitFeature, Items
<1>5. CASE CommitVersion(c)
  <2>1. c.handler = "addVersion" /\ c.of \in Models
    BY <1>1, <1>5 DEF CommitVersion, OwnersOf, PanelHandlers, PanelLists
  <2>2. ServerGrows /\ VersionExists(<<c.of, ListVersions(c.of) + 1>>, stored')
    BY <1>1, <1>5, <2>1, CreateVersionStep DEF CommitVersion
  <2> QED BY <1>2, <1>5, <2>1, <2>2 DEF CommitVersion, Items, VersionExists
<1>6. CASE CommitModel(c)
  <2>1. c.handler = "addModel" /\ c.by \in Users
    BY <1>1, <1>6 DEF CommitModel, Calls, Granted
  <2>2. ServerGrows /\ ModelExists(<<c.by, ListModels(c.by) + 1>>, stored')
    BY <1>1, <1>6, <2>1, CreateModelStep DEF CommitModel
  <2> QED BY <1>2, <1>6, <2>1, <2>2 DEF CommitModel, Items, ModelExists
<1>7. CASE CommitUser(c)
  <2>1. c.handler = "signup" /\ c.of \in Users
    BY <1>1, <1>7 DEF CommitUser, OwnersOf, PanelHandlers, PanelLists
  <2>2. PICK k \in Keys : NewKey(k) /\ CreateUser(c.of, k) /\ Posted(c, k)
    BY <1>7 DEF CommitUser
  <2>3. ServerGrows
    BY <1>1, <2>1, <2>2, IssueKeyStep DEF CreateUser
  <2>4. keyOf'[k] = c.of
    BY <1>1, <2>2 DEF CreateUser, IssueKey, RegistryTypeOK
  <2> QED BY <1>2, <2>1, <2>2, <2>3, <2>4 DEF Items
<1> QED BY <1>3, <1>4, <1>5, <1>6, <1>7 DEF CommitPost

LEMMA TypeInvInit == Init => TypeInv
<1> SUFFICES ASSUME Init PROVE TypeInv
  OBVIOUS
<1>1. RegistryTypeOK
  <2>1. PICK first \in AtFirst :
            /\ keyOf = first.keyOf
            /\ revoked = {}
            /\ stored = [models |-> first.models, versions |-> first.versions,
                         runs |-> [v \in Versions |-> 0]]
    BY DEF Init, RegistryInit
  <2>2. first \in [keyOf: [Keys -> Users \cup {None}], models: [Users -> 0..MaxModels],
                   versions: [Models -> 0..MaxVersions]]
    BY RegistryAssumption
  <2> QED BY <2>1, <2>2 DEF RegistryTypeOK
<1>2. /\ apiKey \in Keys \cup {None} /\ modelId = None /\ versionId = None
      /\ shown = [list \in Lists |-> Nobody] /\ triggering = FALSE /\ acts = 0
      /\ disturbed = {} /\ switched = FALSE
      /\ calls = IF SignedIn THEN Loads({"models"}, Authenticate(apiKey), None) ELSE EmptyBag
  BY DEF Init
<1>3. ASSUME NEW d \in BagToSet(calls)
      PROVE  CallExists(d, keyOf, stored) /\ d.handler = "models"
  <2>1. {"models"} \in SUBSET Lists /\ None \in OwnersOf("models")
    BY DEF Lists, SelectorLists, OwnersOf, PanelHandlers, PanelLists
  <2>2. d \in BagToSet(Loads({"models"}, Authenticate(apiKey), None))
    BY <1>2, <1>3, NoMembers
  <2> QED BY <1>1, <1>2, <2>1, <2>2, LoadExists, AuthenticatedUser
<1>4. CallsExist(calls, keyOf, stored) /\ PanelsAreThere(calls, versionId, apiKey)
  BY <1>3 DEF CallsExist, PanelsAreThere, PanelHandlers, PanelLists
<1>5. OneCheck(calls, triggering)
  <2>1. OneCheck(calls, FALSE)
    BY <1>3, NoChecks
  <2> QED BY <1>2, <2>1, Zenon
<1>6. ShownExists(shown, stored)
  BY <1>2 DEF ShownExists, Nobody
<1>7. acts \in 0..MaxActs
  BY <1>2, BoundsAssumption
<1>8. SelectionExists(modelId, versionId, stored)
  BY <1>2 DEF SelectionExists
<1>9. disturbed \subseteq Lists /\ switched \in BOOLEAN
  BY <1>2
<1> QED BY <1>1, <1>2, <1>4, <1>5, <1>6, <1>7, <1>8, <1>9 DEF TypeInv

\* Acts are counted up to their bound.
LEMMA ActsAreBounded == ASSUME acts \in 0..MaxActs, acts' = acts \/ Act PROVE acts' \in 0..MaxActs
BY BoundsAssumption DEF Act

LEMMA KeepsTypeInv ==
    ASSUME TypeInv, Keeps, UNCHANGED server, acts' = acts \/ Act PROVE TypeInv'
<1>1. keyOf' = keyOf /\ stored' = stored /\ revoked' = revoked
  BY DEF server
<1>2. RegistryTypeOK'
  BY <1>1 DEF TypeInv, RegistryTypeOK
<1>3. acts' \in 0..MaxActs
  BY ActsAreBounded DEF TypeInv
<1> QED BY <1>1, <1>2, <1>3 DEF TypeInv, Keeps

\* A step of the dashboard leaves the server alone, and the server's the dashboard.
LEMMA StepCases ==
    ASSUME TypeInv, Next
    PROVE  \/ UNCHANGED server /\ Keeps /\ (acts' = acts \/ Act)
           \/ Elsewhere
           \/ \E c \in BagToSet(calls) : CommitPost(c)
<1>1. ASSUME NEW m \in Models \cup {None}, PickModel(m)
      PROVE  UNCHANGED server /\ Keeps /\ (acts' = acts \/ Act)
  BY <1>1, PickModelKeeps DEF PickModel, Choose, Do
<1>2. ASSUME NEW v \in Versions \cup {None}, PickVersion(v)
      PROVE  UNCHANGED server /\ Keeps /\ (acts' = acts \/ Act)
  BY <1>2, PickVersionKeeps DEF PickVersion, Choose, Do
<1>3. CASE \/ TriggerCheck \/ AddFeature \/ AddVersion \/ AddModel
           \/ \E n \in 1..shown["runs"].upTo : OpenRun(n)
  BY <1>3, ClicksKeep
     DEF TriggerCheck, AddFeature, AddVersion, AddModel, OpenRun, Start, Choose, Do
<1>4. CASE \/ \E k \in Keys : UseExistingKey(k)
           \/ \E u \in Users : SignUp(u)
           \/ Logout \/ Reload
  BY <1>4, SessionsKeep DEF UseExistingKey, SignUp, Logout, Reload, Do
<1>5. ASSUME NEW c \in BagToSet(calls), Handle(c), ~CommitPost(c)
      PROVE  UNCHANGED server /\ Keeps /\ (acts' = acts \/ Act)
  <2>1. acts' = acts \/ Act
    BY <1>5 DEF Handle, Answer, Refuse, Fail
  <2>2. CASE Throw(c)
    BY <2>1, <2>2, ThrowKeeps DEF Throw
  <2>3. ASSUME NEW now, NEW harm, GoOn(c, now, harm), Shows(c, now, harm)
        PROVE  UNCHANGED server /\ Keeps
    BY <2>3, ShowsExist, GoOnKeeps DEF GoOn
  <2> QED BY <1>5, <2>1, <2>2, <2>3, HandleCases
<1> QED BY <1>1, <1>2, <1>3, <1>4, <1>5 DEF Next

LEMMA TypeInvStep == TypeInv /\ [Next]_vars => TypeInv'
<1> SUFFICES ASSUME TypeInv, [Next]_vars PROVE TypeInv'
  OBVIOUS
<1>1. CASE UNCHANGED server /\ Keeps /\ (acts' = acts \/ Act)
  BY <1>1, KeepsTypeInv
<1>2. CASE Elsewhere
  <2>1. ServerGrows
    BY <1>2, ElsewhereGrows DEF TypeInv
  <2>2. UNCHANGED <<view, calls>> /\ acts' \in 0..MaxActs
    BY <1>2, ActsAreBounded DEF Elsewhere, TypeInv
  <2>3. /\ SelectionExists(modelId, versionId, stored') /\ ShownExists(shown, stored')
        /\ CallsExist(calls, keyOf', stored')
    BY <2>1, StillThere DEF TypeInv, SelectionExists
  <2> QED BY <2>1, <2>2, <2>3 DEF TypeInv, ServerGrows, view
<1>3. ASSUME NEW c \in BagToSet(calls), CommitPost(c) PROVE TypeInv'
  <2>1. /\ ServerGrows /\ CallsExist(calls', keyOf', stored')
        /\ PanelsAreThere(calls', versionId, apiKey) /\ OneCheck(calls', triggering)
    BY <1>3, CommitKeeps
  <2>2. UNCHANGED <<view, acts>>
    BY <1>3 DEF CommitPost
  <2>3. SelectionExists(modelId, versionId, stored') /\ ShownExists(shown, stored')
    BY <2>1, StillThere DEF TypeInv, SelectionExists
  <2>4. OneCheck(calls', triggering')
    BY <2>1, <2>2, Zenon DEF view
  <2> QED BY <2>1, <2>2, <2>3, <2>4 DEF TypeInv, ServerGrows, view
<1>4. CASE UNCHANGED vars
  BY <1>4 DEF vars, view, server, TypeInv, RegistryTypeOK
<1> QED BY <1>1, <1>2, <1>3, <1>4, StepCases

\* The inductive invariant: besides what TypeOK says, every handler under way is about
\* entries that are there, asks whose entries its requests are about, and has shown or
\* made what exists, whatever was selected, refused or answered late in between.
THEOREM TypeInvariance == Spec => []TypeInv
BY TypeInvInit, TypeInvStep, PTL DEF Spec

\* What is selected exists on the server, the awaits of a handler come in their order, the
\* button is disabled exactly while a check is under way, and the handlers of the panels
\* are there only while the panels are.
THEOREM TypeCorrect == Spec => []TypeOK
BY TypeInvariance, TypeInvImpliesTypeOK, PTL
================================================================================
