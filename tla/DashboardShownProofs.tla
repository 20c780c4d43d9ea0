------------------------- MODULE DashboardShownProofs -------------------------
(***************************************************************************)
(* What the dashboard shows is about what is selected and belongs to who   *)
(* is signed in, unless an answer was lost, late or overtaken.             *)
(*                                                                         *)
(* None of the three properties is inductive: that a list is about the     *)
(* selection once it is loaded rests on what is asked for while it is      *)
(* not, that nothing is shown of a session that has ended on what its      *)
(* handlers may still do, and that the run in detail is in the history on  *)
(* the requests for the history that are under way. ShownInv says all of   *)
(* this of the state, and Fits says it of a state half-way through a step. *)
(***************************************************************************)
EXTENDS DashboardProofs

-----------------------------------------------------------------------------
(* The inductive invariants. A handler's step first shows an answer, or the *)
(* failure, and then goes on: the parts take what is shown, and the calls,  *)
(* as arguments, so that they can be followed from the one to the other.    *)

\* Selected, of the selection u, m, v.
SelectedIn(list, u, m, v) == IF list = "models" THEN u ELSE IF list = "versions" THEN m ELSE v

AsksFor(bag, list) == \E d \in BagToSet(bag) : d.live /\ Head(d.awaits) = list

ListsFollow(now, bag, harm, u, m, v, in) ==
    \A list \in Lists \ {"detail"} :
        (in \/ list = "features") /\ list \notin harm /\ ~AsksFor(bag, list) =>
            now[list].of = SelectedIn(list, u, m, v)

\* A selected version has no run in detail until one is opened or made.
DetailFollows(now, harm, v) ==
    "detail" \notin harm => now["detail"] = Nobody \/ now["detail"].of = v

\* Nothing is left of a session that has ended, and nothing of it is still to come.
Emptied(now, bag) ==
    /\ \A list \in Lists \ {"features"} : now[list] = Nobody
    /\ \A d \in BagToSet(bag) : d.live => d.handler \in {"features", "signup"}

SelectionInv ==
    /\ ListsFollow(shown, calls, disturbed, User, modelId, versionId, SignedIn)
    /\ DetailFollows(shown, disturbed, versionId)
    /\ ~SignedIn => Emptied(shown, calls)

\* What is shown is u's, what is asked for is asked for by u, and the check that is under
\* way is about u's version: its run is shown without asking again.
Own(now, bag, u) ==
    /\ \A list \in Lists \ {"features"} : OwnedBy(u, now[list].of)
    /\ \A d \in BagToSet(bag) :
          d.live /\ d.handler \notin {"features", "signup"} => d.by \in {None, u}
    /\ \A d \in BagToSet(bag) :
          d.handler = "check" /\ Head(d.awaits) # "commit" => OwnedBy(u, d.of)

OwnInv == SignedIn /\ ~switched => Own(shown, calls, User)

\* The history has v's n-th run, or the answer to a request that is under way has.
Listed(n, now, bag, v) ==
    \/ now["runs"].of = v /\ n <= now["runs"].upTo
    \/ \E d \in BagToSet(bag) : d.live /\ Head(d.awaits) = "runs" /\ d.of = v /\ n <= d.from

\* What c opens, or the run it has made, is shown next, and nothing else is loaded first.
ShowsNext(c) == c.handler = "detail" \/ (c.handler = "check" /\ Len(c.awaits) = 1)

HistoryFollows(now, bag, harm, v) ==
    /\ "runs" \notin harm /\ v # None =>
          /\ "detail" \notin harm /\ now["detail"] # Nobody =>
                Listed(now["detail"].upTo, now, bag, v)
          /\ \A c \in BagToSet(bag) : ShowsNext(c) /\ c.of = v => Listed(c.item, now, bag, v)
    /\ \A c \in BagToSet(bag) :
          c.handler = "check" /\ Len(c.awaits) = 2 => c.item <= c.from

HistoryInv == HistoryFollows(shown, calls, disturbed, versionId)

\* Everything the dashboard shows, and everything under way, fits the invariants.
ShownInv == SelectionInv /\ OwnInv /\ HistoryInv

Fits(now, bag, harm) ==
    /\ ListsFollow(now, bag, harm, User, modelId, versionId, SignedIn)
    /\ DetailFollows(now, harm, versionId)
    /\ ~SignedIn => Emptied(now, bag)
    /\ SignedIn /\ ~switched => Own(now, bag, User)
    /\ HistoryFollows(now, bag, harm, versionId)

LEMMA ShownFits == ShownInv <=> Fits(shown, calls, disturbed)
BY DEF ShownInv, SelectionInv, OwnInv, HistoryInv, Fits

-----------------------------------------------------------------------------
(* What stays asked for.                                                   *)

LEMMA AsksInBags ==
    ASSUME NEW bag, NEW list
    PROVE  /\ \A more : AsksFor(bag (+) more, list) <=> AsksFor(bag, list) \/ AsksFor(more, list)
           /\ \A x : AsksFor(bag, list) => AsksFor(BagAdd(bag, x), list)
           /\ \A x : AsksFor(bag, list) /\ ~(x.live /\ Head(x.awaits) = list) =>
                         AsksFor(BagRemove(bag, x), list)
BY BagCupMembers, BagAddMembers, BagRemoveMembers DEF AsksFor

LEMMA ListedInBags ==
    ASSUME NEW bag, NEW now, NEW n, NEW v, Listed(n, now, bag, v)
    PROVE  /\ \A more : Listed(n, now, bag (+) more, v)
           /\ \A x : Listed(n, now, BagAdd(bag, x), v)
           /\ \A x : ~(x.live /\ Head(x.awaits) = "runs") => Listed(n, now, BagRemove(bag, x), v)
BY BagCupMembers, BagAddMembers, BagRemoveMembers DEF Listed

\* A list that is loaded is asked for.
LEMMA LoadAsks ==
    ASSUME RegistryTypeOK, NEW lists \in SUBSET Lists, NEW u \in Users \cup {None}, NEW owner,
           \A list \in lists : list # "detail" /\ owner \in OwnersOf(list), NEW list \in lists
    PROVE  /\ AsksFor(Loads(lists, u, owner), list)
           /\ list = "runs" => \A now, n : n <= ListDriftRuns(owner) =>
                                  Listed(n, now, Loads(lists, u, owner), owner)
<1>1. PICK d \in BagToSet(Loads(lists, u, owner)) : d = Call(list, u, owner, 0)
  BY LoadsMembers
<1>2. list \in Handlers
  BY DEF Lists, VersionLists, PanelLists, SelectorLists, Handlers, PanelHandlers, SelectorHandlers
<1>3. /\ d.handler = list /\ d.of = owner /\ d.live
      /\ d.awaits = Awaits(list) /\ d.from = Stored(Head(Awaits(list)), u, owner)
  BY <1>1, NewCall
<1>4. Head(Awaits(list)) = list
  BY <1>2, AllRemain, WhatRemains
<1>5. AsksFor(Loads(lists, u, owner), list)
  BY <1>3, <1>4 DEF AsksFor
<1>6. ASSUME list = "runs", NEW now, NEW n, n <= ListDriftRuns(owner)
      PROVE  Listed(n, now, Loads(lists, u, owner), owner)
  <2>1. owner \in Versions
    BY <1>6 DEF OwnersOf, PanelHandlers, PanelLists
  <2>2. d.from = ListDriftRuns(owner)
    BY <1>3, <1>4, <1>6, <2>1, StoredOf
  <2> QED BY <1>3, <1>4, <1>6, <2>2 DEF Listed
<1> QED BY <1>5, <1>6

-----------------------------------------------------------------------------
(* An answer, or a failure, is shown.                                      *)

\* What is shown of c's answer: it is about what c asks for, granted to c's user, and
\* neither stale nor older than c's request, or it is noted.
LEMMA ShowsEffects ==
    ASSUME TypeInv, NEW c \in BagToSet(calls), NEW now, NEW harm, Shows(c, now, harm)
    PROVE  LET list == Head(c.awaits)
               owner == IF list = "models" THEN c.by ELSE c.of
           IN  /\ disturbed \subseteq harm /\ harm \subseteq disturbed \cup {list}
               /\ \A l \in Lists \ {list} : now[l] = shown[l]
               /\ list \in Lists =>
                     \/ ~c.live /\ now[list] = shown[list]
                     \/ c.live /\ list \in harm /\ list # "detail" /\ now[list] = shown[list]
                     \/ list \in harm /\ list = "features"
                     \/ /\ c.live /\ Granted(c) /\ now[list].of = owner
                        /\ list = "detail" => now[list].upTo = c.item
                        /\ list # "detail" => c.from <= now[list].upTo
                        /\ list \in harm \/ ~Stale(list, owner, now[list].upTo)
<1> DEFINE list == Head(c.awaits)
           owner == IF list = "models" THEN c.by ELSE c.of
<1>1. /\ ShownExists(shown, stored) /\ CallExists(c, keyOf, stored) /\ RegistryTypeOK
  BY DEF TypeInv, CallsExist
<1>2. c \in Calls /\ "reply" \notin Lists
  BY <1>1 DEF CallExists, Lists, VersionLists, PanelLists, SelectorLists
<1>3. shown \in [Lists -> [of: Users \cup Models \cup Versions \cup {None}, upTo: Nat]]
  BY <1>1 DEF ShownExists
<1>4. CASE list = "reply" /\ now = shown /\ harm = disturbed
  BY <1>2, <1>4
<1>5. CASE list \in Lists /\ ~c.live /\ now = shown /\ harm = disturbed
  BY <1>5
<1>6. CASE list \in Lists \ {"detail", "features"} /\ c.live /\ now = shown /\ harm = disturbed \cup {list}
  BY <1>6
<1>7. CASE /\ list = "features"
           /\ now = Closed({"features"}, shown) /\ harm = disturbed \cup {"features"}
  BY <1>7 DEF Closed
<1>8. ASSUME NEW upTo, list \in Lists, c.live, Granted(c),
             \/ list = "detail" /\ upTo = c.item
             \/ list # "detail" /\ upTo \in c.from..Stored(list, c.by, c.of),
             now = [shown EXCEPT ![list] = [of |-> owner, upTo |-> upTo]],
             harm = IF Stale(list, owner, upTo) THEN disturbed \cup {list} ELSE disturbed
      PROVE  /\ disturbed \subseteq harm /\ harm \subseteq disturbed \cup {list}
             /\ \A l \in Lists \ {list} : now[l] = shown[l]
             /\ now[list].of = owner
             /\ list = "detail" => now[list].upTo = c.item
             /\ list # "detail" => c.from <= now[list].upTo
             /\ list \in harm \/ ~Stale(list, owner, now[list].upTo)
  <2> HIDE DEF list, owner
  <2>1. /\ now[list].of = owner /\ now[list].upTo = upTo
        /\ \A l \in Lists \ {list} : now[l] = shown[l]
    BY <1>3, <1>8
  <2>2. list \in harm \/ ~Stale(list, owner, now[list].upTo)
    BY <1>8, <2>1
  <2>3. list # "detail" => c.from <= now[list].upTo
    BY <1>8, <2>1
  <2> QED BY <1>8, <2>1, <2>2, <2>3
<1>9. \/ list = "reply" /\ now = shown /\ harm = disturbed
      \/ list \in Lists /\ ~c.live /\ now = shown /\ harm = disturbed
      \/ /\ list \in Lists /\ c.live /\ Granted(c)
         /\ \E upTo : /\ \/ list = "detail" /\ upTo = c.item
                         \/ list # "detail" /\ upTo \in c.from..Stored(list, c.by, c.of)
                      /\ now = [shown EXCEPT ![list] = [of |-> owner, upTo |-> upTo]]
                      /\ harm = IF Stale(list, owner, upTo) THEN disturbed \cup {list}
                                ELSE disturbed
      \/ /\ list \in Lists \ {"detail", "features"} /\ c.live
         /\ now = shown /\ harm = disturbed \cup {list}
      \/ /\ list = "features"
         /\ now = Closed({"features"}, shown) /\ harm = disturbed \cup {"features"}
  BY DEF Shows
<1> QED BY <1>4, <1>5, <1>6, <1>7, <1>8, <1>9

LEMMA ShowsFollow ==
    ASSUME TypeInv, SelectionInv, NEW c \in BagToSet(calls), NEW now, NEW harm,
           Shows(c, now, harm)
    PROVE  LET left == BagRemove(calls, c)
           IN  /\ ListsFollow(now, left, harm, User, modelId, versionId, SignedIn)
               /\ DetailFollows(now, harm, versionId)
               /\ ~SignedIn => Emptied(now, left)
<1> DEFINE left == BagRemove(calls, c)
           list == Head(c.awaits)
           owner == IF list = "models" THEN c.by ELSE c.of
<1>1. /\ disturbed \subseteq harm /\ harm \subseteq disturbed \cup {list}
      /\ \A l \in Lists \ {list} : now[l] = shown[l]
      /\ list \in Lists =>
            \/ ~c.live /\ now[list] = shown[list]
            \/ c.live /\ list \in harm /\ list # "detail" /\ now[list] = shown[list]
            \/ list \in harm /\ list = "features"
            \/ /\ c.live /\ Granted(c) /\ now[list].of = owner
               /\ list = "detail" => now[list].upTo = c.item
               /\ list # "detail" => c.from <= now[list].upTo
               /\ list \in harm \/ ~Stale(list, owner, now[list].upTo)
  BY ShowsEffects
<1>2. c.handler \in Handlers /\ Remain(c.awaits, c.handler)
  BY DEF TypeInv, CallsExist, CallExists, Calls
<1>3. ASSUME NEW upTo, list \in Lists, ~Stale(list, owner, upTo)
      PROVE  owner = SelectedIn(list, User, modelId, versionId)
  <2>1. owner = Selected(list)
    BY <1>3 DEF Stale
  <2>2. list \in VersionLists => list \notin {"models", "versions"}
    BY DEF VersionLists, PanelLists
  <2> QED BY <1>3, <2>1, <2>2, SelectedOf DEF SelectedIn, Lists, SelectorLists
<1> HIDE DEF owner
<1>4. ASSUME NEW l \in Lists \ {"detail"}, SignedIn \/ l = "features", l \notin harm, ~AsksFor(left, l)
      PROVE  now[l].of = SelectedIn(l, User, modelId, versionId)
  <2>1. CASE l = list /\ c.live
    BY <1>1, <1>3, <1>4, <2>1
  <2>2. CASE ~(l = list /\ c.live)
    <3>1. ~AsksFor(calls, l)
      BY <1>4, <2>2, AsksInBags
    <3>2. shown[l].of = SelectedIn(l, User, modelId, versionId)
      BY <1>1, <1>4, <3>1 DEF SelectionInv, ListsFollow
    <3> QED BY <1>1, <1>4, <2>2, <3>2
  <2> QED BY <2>1, <2>2
<1>5. DetailFollows(now, harm, versionId)
  <2>1. "detail" \in Lists /\ SelectedIn("detail", User, modelId, versionId) = versionId
    BY DEF Lists, VersionLists, PanelLists, SelectedIn
  <2>2. DetailFollows(shown, disturbed, versionId)
    BY DEF SelectionInv
  <2>3. CASE list = "detail" /\ "detail" \notin harm
    BY <1>1, <1>3, <2>1, <2>2, <2>3 DEF DetailFollows
  <2> QED BY <1>1, <2>1, <2>2, <2>3 DEF DetailFollows
<1>6. ASSUME ~SignedIn PROVE Emptied(now, left)
  <2>1. Emptied(shown, calls)
    BY <1>6 DEF SelectionInv
  <2>2. c.live => c.handler \in {"features", "signup"}
    BY <2>1 DEF Emptied
  <2>3. c.live /\ list \in Lists => list = "features"
    BY <1>2, <2>2, AsksItsOwner, WhatRemains DEF Lists, VersionLists
  <2>4. \A l \in Lists \ {"features"} : now[l] = Nobody
    BY <1>1, <2>1, <2>3 DEF Emptied
  <2>5. \A d \in BagToSet(left) : d.live => d.handler \in {"features", "signup"}
    BY <2>1, BagRemoveMembers DEF Emptied
  <2> QED BY <2>4, <2>5 DEF Emptied
<1> QED BY <1>4, <1>5, <1>6 DEF ListsFollow

LEMMA ShowsOwn ==
    ASSUME TypeInv, NEW u, u = User, Own(shown, calls, u), NEW c \in BagToSet(calls),
           NEW now, NEW harm, Shows(c, now, harm)
    PROVE  Own(now, BagRemove(calls, c), u)
<1> DEFINE list == Head(c.awaits)
           owner == IF list = "models" THEN c.by ELSE c.of
<1>1. /\ \A l \in Lists \ {list} : now[l] = shown[l]
      /\ list \in Lists => \/ now[list] = shown[list]
                           \/ list = "features"
                           \/ c.live /\ Granted(c) /\ now[list].of = owner
  BY ShowsEffects
<1>2. c.handler \in Handlers /\ Remain(c.awaits, c.handler)
  BY DEF TypeInv, CallsExist, CallExists, Calls
<1>3. ASSUME list \in Lists, list # "features", c.live, Granted(c)
      PROVE  OwnedBy(u, owner)
  <2>1. c.handler \notin {"features", "signup"}
    BY <1>2, <1>3, AsksItsOwner, WhatRemains DEF Lists, VersionLists
  <2>2. /\ c.by # None
        /\ c.of \in Models => OwnsModel(c.by, c.of)
        /\ c.of \in Versions => OwnsVersion(c.by, c.of)
    BY <1>3, <2>1 DEF Granted
  <2>3. c.by = u
    BY <1>3, <2>1, <2>2 DEF Own
  <2>4. list # "models" => c.of \in Models \cup Versions
    BY <1>2, <1>3, AsksItsOwner DEF TypeInv, CallsExist, CallExists, OwnersOf, Lists,
       VersionLists, SelectorLists
  <2> QED BY <2>2, <2>3, <2>4 DEF OwnedBy
<1>4. \A l \in Lists \ {"features"} : OwnedBy(u, now[l].of)
  BY <1>1, <1>3 DEF Own
<1> QED BY <1>4, BagRemoveMembers DEF Own

LEMMA ShowsListed ==
    ASSUME TypeInv, NEW c \in BagToSet(calls), NEW now, NEW harm, Shows(c, now, harm),
           "runs" \notin harm, NEW n \in Nat, Listed(n, shown, calls, versionId)
    PROVE  Listed(n, now, BagRemove(calls, c), versionId)
<1> DEFINE list == Head(c.awaits)
           left == BagRemove(calls, c)
<1>1. "runs" \in Lists /\ "runs" \notin {"models", "features", "detail"} /\ "runs" \in VersionLists
  BY DEF Lists, VersionLists, PanelLists
<1>2. CASE c.live /\ list = "runs"
  <2>1. /\ now["runs"].of = c.of /\ c.from <= now["runs"].upTo
        /\ ~Stale("runs", c.of, now["runs"].upTo)
    BY <1>1, <1>2, ShowsEffects
  <2>2. c.of = versionId /\ (c.of = shown["runs"].of => ~(now["runs"].upTo < shown["runs"].upTo))
    BY <1>1, <2>1, SelectedOf DEF Stale
  <2>3. now["runs"].upTo \in Nat /\ shown["runs"].upTo \in Nat
    BY <1>1, ShowsExist DEF TypeInv, ShownExists
  <2>4. c.from \in Nat
    BY DEF TypeInv, CallsExist, CallExists, Calls
  <2>5. CASE shown["runs"].of = versionId /\ n <= shown["runs"].upTo
    <3>1. n <= now["runs"].upTo
      BY <2>2, <2>3, <2>5
    <3> QED BY <2>1, <2>2, <3>1 DEF Listed
  <2>6. ASSUME NEW d \in BagToSet(calls), d.live, Head(d.awaits) = "runs", d.of = versionId,
               n <= d.from
        PROVE  Listed(n, now, left, versionId)
    <3>1. CASE d = c
      <4>1. n <= now["runs"].upTo
        BY <2>1, <2>3, <2>4, <2>6, <3>1
      <4> QED BY <2>1, <2>2, <4>1 DEF Listed
    <3>2. CASE d # c
      <4>1. d \in BagToSet(left)
        BY <3>2, BagRemoveMembers
      <4> QED BY <2>6, <4>1 DEF Listed
    <3> QED BY <3>1, <3>2
  <2> QED BY <2>5, <2>6 DEF Listed
<1>3. CASE ~(c.live /\ list = "runs")
  <2>1. now["runs"] = shown["runs"]
    BY <1>1, <1>3, ShowsEffects
  <2>2. Listed(n, shown, left, versionId)
    BY <1>3, ListedInBags
  <2> QED BY <2>1, <2>2 DEF Listed
<1> QED BY <1>2, <1>3

LEMMA ItemsAreNumbers ==
    ASSUME TypeInv, NEW c \in BagToSet(calls), c.handler \in {"check", "detail"}
    PROVE  c.item \in Nat /\ c.item <= ListDriftRuns(c.of) /\ c.of \in Versions
BY DEF TypeInv, CallsExist, CallExists, ItemExists, ListDriftRuns, OwnersOf, PanelHandlers, PanelLists

\* A check that has loaded the history has its run in it, unless that is noted.
LEMMA ShowsHistory ==
    ASSUME TypeInv, HistoryInv, NEW c \in BagToSet(calls), NEW now, NEW harm,
           Shows(c, now, harm)
    PROVE  LET left == BagRemove(calls, c)
           IN  /\ HistoryFollows(now, left, harm, versionId)
               /\ "runs" \notin harm /\ c.of = versionId /\ versionId # None
                  /\ (ShowsNext(c) \/ (c.handler = "check" /\ Len(c.awaits) = 2)) =>
                      Listed(c.item, now, left, versionId)
<1> DEFINE left == BagRemove(calls, c)
           list == Head(c.awaits)
           owner == IF list = "models" THEN c.by ELSE c.of
<1>1. /\ disturbed \subseteq harm
      /\ \A l \in Lists \ {list} : now[l] = shown[l]
      /\ list \in Lists =>
            \/ ~c.live /\ now[list] = shown[list]
            \/ c.live /\ list \in harm /\ list # "detail" /\ now[list] = shown[list]
            \/ list \in harm /\ list = "features"
            \/ /\ c.live /\ Granted(c) /\ now[list].of = owner
               /\ list = "detail" => now[list].upTo = c.item
               /\ list # "detail" => c.from <= now[list].upTo
               /\ list \in harm \/ ~Stale(list, owner, now[list].upTo)
  BY ShowsEffects
<1> HIDE DEF owner
<1>2. c.handler \in Handlers /\ Remain(c.awaits, c.handler) /\ ShownExists(shown, stored)
  BY DEF TypeInv, CallsExist, CallExists, Calls
<1>3. "runs" \in Lists /\ "detail" \in Lists /\ "runs" \notin {"models", "detail", "features"}
      /\ "detail" \notin {"models", "features"} /\ "detail" \in VersionLists
  BY DEF Lists, VersionLists, PanelLists
<1>4. ASSUME "runs" \notin harm, versionId # None, NEW d \in BagToSet(calls), ShowsNext(d), d.of = versionId
      PROVE  Listed(d.item, now, left, versionId)
  <2>1. d.item \in Nat
    BY <1>4, ItemsAreNumbers DEF ShowsNext
  <2>2. Listed(d.item, shown, calls, versionId)
    BY <1>1, <1>4 DEF HistoryInv, HistoryFollows
  <2> QED BY <1>4, <2>1, <2>2, ShowsListed
<1>5. ASSUME "runs" \notin harm, versionId # None, "detail" \notin harm, now["detail"] # Nobody
      PROVE  Listed(now["detail"].upTo, now, left, versionId)
  <2>1. CASE now["detail"] = shown["detail"]
    <3>1. shown["detail"].upTo \in Nat
      BY <1>2, <1>3 DEF ShownExists
    <3>2. Listed(shown["detail"].upTo, shown, calls, versionId)
      BY <1>1, <1>5, <2>1 DEF HistoryInv, HistoryFollows
    <3> QED BY <1>5, <2>1, <3>1, <3>2, ShowsListed
  <2>2. CASE now["detail"] # shown["detail"]
    <3>1. list = "detail" /\ now["detail"].upTo = c.item
      BY <1>1, <1>3, <2>2
    <3>2. c.handler = "detail"
      BY <1>2, <3>1, AsksItsOwner
    <3>3. ~Stale(list, owner, now[list].upTo)
      BY <1>1, <1>3, <1>5, <2>2, <3>1
    <3>4. owner = c.of
      BY <1>3, <3>1 DEF owner
    <3>5. c.of = Selected("detail")
      BY <3>1, <3>3, <3>4 DEF Stale
    <3>6. c.of = versionId
      BY <1>3, <3>5, SelectedOf
    <3> QED BY <1>4, <1>5, <3>1, <3>2, <3>6 DEF ShowsNext
  <2> QED BY <2>1, <2>2
<1>6. HistoryFollows(now, left, harm, versionId)
  <2>1. \A d \in BagToSet(left) : d \in BagToSet(calls)
    BY BagRemoveMembers
  <2>2. \A d \in BagToSet(left) :
            d.handler = "check" /\ Len(d.awaits) = 2 => d.item <= d.from
    BY <2>1 DEF HistoryInv, HistoryFollows
  <2> QED BY <1>4, <1>5, <2>1, <2>2 DEF HistoryFollows
<1>7. ASSUME "runs" \notin harm, c.of = versionId, c.handler = "check", Len(c.awaits) = 2
      PROVE  Listed(c.item, now, left, versionId)
  <2>1. list = "runs"
    BY <1>2, <1>7, WhatRemains
  <2>2. c.live
    BY <1>7 DEF TypeInv, PanelsAreThere, PanelHandlers
  <2>3. now["runs"].of = c.of /\ c.from <= now["runs"].upTo
    BY <1>1, <1>3, <1>7, <2>1, <2>2 DEF owner
  <2>4. c.item <= c.from
    BY <1>7 DEF HistoryInv, HistoryFollows
  <2>5. c.item \in Nat /\ c.from \in Nat /\ now["runs"].upTo \in Nat
    <3>1. ShownExists(now, stored)
      BY ShowsExist
    <3> QED BY <1>3, <1>7, <3>1, ItemsAreNumbers DEF ShownExists, TypeInv, CallsExist, CallExists, Calls
  <2>6. c.item <= now["runs"].upTo
    BY <2>3, <2>4, <2>5
  <2> QED BY <1>7, <2>3, <2>6 DEF Listed
<1> QED BY <1>4, <1>6, <1>7

-----------------------------------------------------------------------------
(* The selection changes.                                                  *)

LEMMA ClosedLists ==
    ASSUME NEW lists, NEW now, NEW list \in Lists
    PROVE  Closed(lists, now)[list] = IF list \in lists THEN Nobody ELSE now[list]
BY DEF Closed

LEMMA SelectVersionShows ==
    ASSUME NEW v, NEW now, NEW left, NEW harm, SelectVersion(v, now, left, harm), NEW list \in Lists
    PROVE  shown'[list] \in {Nobody, now[list]}
<1>1. CASE v = versionId
  BY <1>1, SelectVersionEffects
<1>2. CASE v = None /\ v # versionId
  <2>1. shown' = Closed(VersionLists, now)
    BY <1>2, SelectVersionEffects
  <2> QED BY <2>1, ClosedLists
<1>3. CASE v \notin {None, versionId}
  <2>1. shown' = Closed({"detail"}, now)
    BY <1>3, SelectVersionEffects
  <2> QED BY <2>1, ClosedLists
<1> QED BY <1>1, <1>2, <1>3

LEMMA SelectVersionFollows ==
    ASSUME RegistryTypeOK, apiKey \in Keys \cup {None}, NEW v, v = None \/ v \in Versions,
           NEW now, NEW left, NEW harm, SelectVersion(v, now, left, harm),
           CallsExist(left, keyOf, stored), NEW u, NEW m, NEW in \in BOOLEAN, in => SignedIn,
           ListsFollow(now, left, harm, u, m, versionId, in), DetailFollows(now, harm, versionId)
    PROVE  /\ ListsFollow(shown', calls', disturbed', u, m, v, in)
           /\ DetailFollows(shown', disturbed', v)
<1>1. "detail" \in Lists /\ "detail" \in VersionLists /\ VersionLists \subseteq Lists
  BY DEF Lists, VersionLists, PanelLists
<1>2. CASE v = versionId
  <2>1. shown' = now /\ calls' = left /\ disturbed' = harm
    BY <1>2, SelectVersionEffects
  <2> QED BY <1>2, <2>1
<1>3. CASE v = None /\ v # versionId
  <2>1. /\ shown' = Closed(VersionLists, now) /\ disturbed' = harm \ VersionLists
        /\ BagToSet(calls') = {d \in BagToSet(left) : d.handler \notin PanelHandlers}
    BY <1>3, SelectVersionEffects
  <2>2. ASSUME NEW list \in VersionLists
        PROVE  shown'[list] = Nobody /\ Nobody.of = None /\ SelectedIn(list, u, m, v) = v
    <3>1. list \notin {"models", "versions"}
      BY DEF VersionLists, PanelLists
    <3> QED BY <1>1, <2>1, <3>1, ClosedLists DEF Nobody, SelectedIn
  <2>3. ASSUME NEW list \in Lists \ VersionLists, in, list \notin disturbed', ~AsksFor(calls', list)
        PROVE  shown'[list].of = SelectedIn(list, u, m, v)
    <3>1. list \in {"models", "versions"}
      BY DEF Lists, SelectorLists
    <3>2. ~AsksFor(left, list)
      <4> SUFFICES ASSUME NEW d \in BagToSet(left), d.live, Head(d.awaits) = list PROVE FALSE
        BY DEF AsksFor
      <4>1. d.handler \in Handlers /\ Remain(d.awaits, d.handler)
        BY DEF CallsExist, CallExists, Calls
      <4>2. d.handler \notin PanelHandlers
        BY <3>1, <4>1, AsksItsOwner DEF PanelHandlers, PanelLists
      <4> QED BY <2>1, <2>3, <4>2 DEF AsksFor
    <3>3. now[list].of = SelectedIn(list, u, m, versionId)
      BY <1>1, <2>1, <2>3, <3>1, <3>2 DEF ListsFollow
    <3> QED BY <2>1, <2>3, <3>1, <3>3, ClosedLists DEF SelectedIn
  <2>4. "features" \in VersionLists
    BY DEF VersionLists
  <2> QED BY <1>1, <1>3, <2>2, <2>3, <2>4 DEF ListsFollow, DetailFollows
<1>4. CASE v \notin {None, versionId}
  <2>1. /\ shown' = Closed({"detail"}, now) /\ disturbed' = harm \ VersionLists
        /\ calls' = left (+) LoadVersion(v) /\ v \in Versions
    BY <1>4, SelectVersionEffects
  <2>2. shown'["detail"] = Nobody
    BY <1>1, <2>1, ClosedLists
  <2>3. ASSUME NEW list \in VersionLists \ {"detail"}, in \/ list = "features"
        PROVE  AsksFor(calls', list)
    <3> DEFINE lists == IF SignedIn THEN VersionLists \ {"detail"} ELSE {"features"}
    <3>1. list \in lists
      BY <2>3
    <3>2. lists \in SUBSET Lists
      BY <1>1 DEF VersionLists
    <3>3. \A l \in lists : l # "detail" /\ v \in OwnersOf(l)
      BY <2>1 DEF OwnersOf, VersionLists, PanelHandlers
    <3>4. Authenticate(apiKey) \in Users \cup {None}
      BY AuthenticatedUser
    <3>5. AsksFor(Loads(lists, Authenticate(apiKey), v), list)
      <4> HIDE DEF lists
      <4> QED BY <3>1, <3>2, <3>3, <3>4, LoadAsks
    <3> QED BY <2>1, <3>5, AsksInBags DEF LoadVersion
  <2>4. ASSUME NEW list \in Lists \ VersionLists, in, list \notin disturbed', ~AsksFor(calls', list)
        PROVE  shown'[list].of = SelectedIn(list, u, m, v)
    <3>1. list \in {"models", "versions"}
      BY DEF Lists, SelectorLists
    <3>2. now[list].of = SelectedIn(list, u, m, versionId)
      BY <1>1, <2>1, <2>4, <3>1, AsksInBags DEF ListsFollow
    <3> QED BY <1>1, <2>1, <2>4, <3>1, <3>2, ClosedLists DEF SelectedIn
  <2>5. "features" \in VersionLists
    BY DEF VersionLists
  <2> QED BY <2>2, <2>3, <2>4, <2>5 DEF ListsFollow, DetailFollows
<1> QED BY <1>2, <1>3, <1>4

LEMMA SelectVersionEmptied ==
    ASSUME RegistryTypeOK, apiKey \in Keys \cup {None}, NEW v, v = None \/ v \in Versions,
           NEW now, NEW left, NEW harm, SelectVersion(v, now, left, harm),
           v = None \/ ~SignedIn, Emptied(now, left)
    PROVE  Emptied(shown', calls')
<1>1. ASSUME NEW list \in Lists \ {"features"} PROVE shown'[list] = Nobody
  <2>1. shown'[list] \in {Nobody, now[list]}
    BY SelectVersionShows
  <2> QED BY <2>1 DEF Emptied
<1>2. ASSUME NEW d \in BagToSet(calls'), d.live PROVE d.handler \in {"features", "signup"}
  <2>1. CASE d \in BagToSet(left)
    BY <1>2, <2>1 DEF Emptied
  <2>2. CASE d \notin BagToSet(left)
    <3>1. v \notin {None, versionId} /\ d \in BagToSet(LoadVersion(v)) /\ ~SignedIn
      BY <1>2, <2>2, SelectVersionEffects
    <3>2. d.handler \in VersionLists \ {"detail"} /\ d.handler \notin PanelHandlers
      BY <3>1, LoadVersionExists
    <3> QED BY <3>2 DEF VersionLists, PanelHandlers
  <2> QED BY <2>1, <2>2
<1> QED BY <1>1, <1>2 DEF Emptied

LEMMA NothingIsOwned == ASSUME NEW u PROVE OwnedBy(u, Nobody.of)
BY DEF OwnedBy, Nobody

\* Whoever is authenticated by the browser's key is its user.
LEMMA AsksAsUser ==
    ASSUME RegistryTypeOK, apiKey \in Keys \cup {None}
    PROVE  Authenticate(apiKey) \in {None, User} /\ Authenticate(apiKey) \in Users \cup {None}
BY AuthenticatedUser DEF User

LEMMA SelectVersionOwn ==
    ASSUME RegistryTypeOK, apiKey \in Keys \cup {None}, NEW v, v = None \/ v \in Versions,
           NEW now, NEW left, NEW harm, SelectVersion(v, now, left, harm),
           NEW u, u = User, Own(now, left, u)
    PROVE  Own(shown', calls', u)
<1>1. ASSUME NEW list \in Lists \ {"features"} PROVE OwnedBy(u, shown'[list].of)
  <2>1. shown'[list] \in {Nobody, now[list]}
    BY SelectVersionShows
  <2> QED BY <2>1, NothingIsOwned DEF Own
<1>2. ASSUME NEW d \in BagToSet(calls'), d \notin BagToSet(left)
      PROVE  d.by \in {None, u} /\ d.handler # "check"
  <2>1. v \notin {None, versionId} /\ d \in BagToSet(LoadVersion(v))
    BY <1>2, SelectVersionEffects
  <2>2. d.by = Authenticate(apiKey) /\ d.handler \in VersionLists
    BY <2>1, LoadVersionExists
  <2> QED BY <2>2, AsksAsUser DEF VersionLists, PanelLists
<1> QED BY <1>1, <1>2 DEF Own

LEMMA SelectVersionHistory ==
    ASSUME RegistryTypeOK, apiKey \in Keys \cup {None}, NEW v, v = None \/ v \in Versions,
           NEW now, NEW left, NEW harm, SelectVersion(v, now, left, harm),
           CallsExist(left, keyOf, stored), PanelsAreThere(left, versionId, apiKey),
           HistoryFollows(now, left, harm, versionId)
    PROVE  HistoryFollows(shown', calls', disturbed', v)
<1>1. CASE v = versionId
  BY <1>1, SelectVersionEffects
<1>2. CASE v = None /\ v # versionId
  <2>1. BagToSet(calls') \subseteq BagToSet(left)
    BY <1>2, SelectVersionEffects
  <2> QED BY <1>2, <2>1 DEF HistoryFollows
<1>3. CASE v \notin {None, versionId}
  <2>1. /\ shown' = Closed({"detail"}, now)
        /\ calls' = left (+) LoadVersion(v) /\ v \in Versions
        /\ BagToSet(calls') = BagToSet(left) \cup BagToSet(LoadVersion(v))
    BY <1>3, SelectVersionEffects
  <2>2. shown'["detail"] = Nobody
    BY <2>1, ClosedLists DEF Lists, VersionLists, PanelLists
  <2>3. \A d \in BagToSet(LoadVersion(v)) : d.handler \notin {"check", "detail"}
    BY <2>1, LoadVersionExists DEF VersionLists, PanelLists
  <2>4. ASSUME NEW d \in BagToSet(left), ShowsNext(d), d.of = v
        PROVE  Listed(d.item, shown', calls', v)
    <3>1. SignedIn
      BY <1>3, <2>4 DEF ShowsNext, PanelsAreThere, PanelHandlers, PanelLists, SignedIn
    <3> DEFINE lists == VersionLists \ {"detail"}
    <3>2. lists \in SUBSET Lists /\ "runs" \in lists
      BY DEF Lists, VersionLists, PanelLists
    <3>3. \A l \in lists : l # "detail" /\ v \in OwnersOf(l)
      BY <2>1 DEF OwnersOf, VersionLists, PanelHandlers
    <3>4. LoadVersion(v) = Loads(lists, Authenticate(apiKey), v)
      BY <3>1 DEF LoadVersion
    <3>5. d.item <= ListDriftRuns(v)
      BY <2>4 DEF ShowsNext, CallsExist, CallExists, ItemExists, ListDriftRuns
    <3>6. Listed(d.item, shown', LoadVersion(v), v)
      <4> HIDE DEF lists
      <4> QED BY <3>2, <3>3, <3>4, <3>5, LoadAsks, AsksAsUser
    <3> QED BY <2>1, <3>6 DEF Listed
  <2>5. \A d \in BagToSet(left) :
            d.handler = "check" /\ Len(d.awaits) = 2 => d.item <= d.from
    BY DEF HistoryFollows
  <2> QED BY <2>1, <2>2, <2>3, <2>4, <2>5 DEF HistoryFollows, ShowsNext
<1> QED BY <1>1, <1>2, <1>3

-----------------------------------------------------------------------------
(* Signing in.                                                             *)

LEMMA FeaturesOutlive ==
    ASSUME NEW bag, NEW handlers, "features" \notin handlers, CallsExist(bag, keyOf, stored),
           AsksFor(bag, "features")
    PROVE  AsksFor(Outlived(handlers, bag), "features")
<1>1. PICK c \in BagToSet(bag) : c.live /\ Head(c.awaits) = "features"
  BY DEF AsksFor
<1>2. c \in Calls /\ Remain(c.awaits, c.handler)
  BY DEF CallsExist, CallExists
<1>3. c.handler = "features"
  BY <1>1, <1>2, AsksItsOwner DEF Calls
<1> DEFINE d == [c EXCEPT !.live = @ /\ c.handler \notin handlers]
<1>4. d.live /\ Head(d.awaits) = "features"
  BY <1>1, <1>2, <1>3 DEF Calls
<1>5. d \in BagToSet(Outlived(handlers, bag))
  BY <1>3, OutlivedMembers
<1> QED BY <1>4, <1>5 DEF AsksFor

LEMMA EnterShown ==
    ASSUME TypeInv, NEW k \in Keys, NEW left, Enter(k, left), UNCHANGED server,
           CallsExist(left, keyOf, stored), PanelsAreThere(left, versionId, apiKey),
           Fits(shown, left, disturbed)
    PROVE  ShownInv'
<1>1. /\ RegistryTypeOK /\ SelectionExists(modelId, versionId, stored)
      /\ CallsExist(left, keyOf, stored) /\ apiKey \in Keys \cup {None}
  BY DEF TypeInv
<1>2. /\ modelId' = modelId /\ versionId' = versionId /\ shown' = shown
      /\ keyOf' = keyOf /\ stored' = stored
      /\ User' = keyOf[k] /\ SignedIn'
  BY RegistryAssumption DEF Enter, server, User, SignedIn
<1>3. CASE SignedIn
  <2>1. /\ calls' = left
        /\ switched' = (switched \/ keyOf[k] # User)
        /\ disturbed' = IF keyOf[k] # User THEN disturbed \cup {"models"} ELSE disturbed
    BY <1>3 DEF Enter
  <2>2. "runs" \in disturbed <=> "runs" \in disturbed'
    BY <2>1
  <2>3. "detail" \in disturbed <=> "detail" \in disturbed'
    BY <2>1
  <2>4. ListsFollow(shown, left, disturbed', keyOf[k], modelId, versionId, TRUE)
    BY <1>3, <2>1 DEF Fits, ListsFollow, SelectedIn
  <2>5. ~switched' => Own(shown, left, keyOf[k])
    BY <1>3, <2>1 DEF Fits
  <2>6. DetailFollows(shown, disturbed', versionId) /\ HistoryFollows(shown, left, disturbed', versionId)
    BY <2>2, <2>3 DEF Fits, DetailFollows, HistoryFollows
  <2> QED BY <1>2, <2>1, <2>4, <2>5, <2>6 DEF ShownInv, SelectionInv, OwnInv, HistoryInv
<1>4. CASE ~SignedIn
  <2> DEFINE u == Authenticate(k)
             mine == Loads({"models"}, u, None)
             models == IF modelId = None THEN EmptyBag ELSE Loads({"versions"}, u, modelId)
             panels == IF versionId = None THEN EmptyBag ELSE Loads(PanelLists \ {"detail"}, u, versionId)
             over == Outlived({"signup"}, left)
  <2>1. calls' = over (+) mine (+) models (+) panels /\ switched' = switched /\ disturbed' = disturbed
    BY <1>4 DEF Enter
  <2>2. u \in Users \cup {None} /\ u \in {None, keyOf[k]}
    BY <1>1, AuthenticatedUser
  <2>3. AsksFor(mine, "models")
    <3>1. {"models"} \in SUBSET Lists /\ None \in OwnersOf("models")
      BY DEF Lists, SelectorLists, OwnersOf, PanelHandlers, PanelLists
    <3> QED BY <1>1, <2>2, <3>1, LoadAsks
  <2>4. modelId # None => AsksFor(models, "versions")
    <3>1. {"versions"} \in SUBSET Lists /\ OwnersOf("versions") = Models
      BY DEF Lists, SelectorLists, OwnersOf, PanelHandlers, PanelLists
    <3> QED BY <1>1, <2>2, <3>1, LoadAsks DEF SelectionExists, ModelExists
  <2>5. ASSUME NEW list \in PanelLists \ {"detail"}, versionId # None PROVE AsksFor(panels, list)
    <3>1. PanelLists \ {"detail"} \in SUBSET Lists /\ \A l \in PanelLists : OwnersOf(l) = Versions
      BY DEF Lists, VersionLists, OwnersOf, PanelHandlers
    <3> QED BY <1>1, <2>2, <2>5, <3>1, LoadAsks DEF SelectionExists, VersionExists
  <2>6. AsksFor(left, "features") => AsksFor(over, "features")
    BY FeaturesOutlive
  <2> HIDE DEF mine, models, panels, over
  <2>7. \A list : AsksFor(calls', list) <=>
            AsksFor(over, list) \/ AsksFor(mine, list) \/ AsksFor(models, list) \/ AsksFor(panels, list)
    <3> TAKE list
    <3>1. AsksFor(over (+) mine, list) <=> AsksFor(over, list) \/ AsksFor(mine, list)
      BY AsksInBags
    <3>2. AsksFor(over (+) mine (+) models, list) <=>
              AsksFor(over (+) mine, list) \/ AsksFor(models, list)
      BY AsksInBags
    <3>3. AsksFor(calls', list) <=> AsksFor(over (+) mine (+) models, list) \/ AsksFor(panels, list)
      BY <2>1, AsksInBags
    <3> QED BY <3>1, <3>2, <3>3
  <2>8. Emptied(shown, left)
    BY <1>4 DEF Fits
  <2>9. ListsFollow(shown, calls', disturbed, keyOf[k], modelId, versionId, TRUE)
    <3> SUFFICES ASSUME NEW list \in Lists \ {"detail"}, list \notin disturbed, ~AsksFor(calls', list)
                 PROVE  shown[list].of = SelectedIn(list, keyOf[k], modelId, versionId)
      BY DEF ListsFollow
    <3>1. CASE list = "features"
      <4>1. ~AsksFor(left, "features")
        BY <2>6, <2>7, <3>1
      <4> QED BY <3>1, <4>1 DEF Fits, ListsFollow, SelectedIn
    <3>2. CASE list # "features"
      <4>1. shown[list].of = None
        BY <2>8, <3>2 DEF Emptied, Nobody
      <4>2. list # "models"
        BY <2>3, <2>7
      <4>3. list = "versions" => modelId = None
        BY <2>4, <2>7
      <4>4. list # "versions" => list \in PanelLists \ {"detail"}
        BY <3>2, <4>2 DEF Lists, VersionLists, SelectorLists
      <4>5. list # "versions" => versionId = None
        BY <2>5, <2>7, <4>4
      <4> QED BY <4>1, <4>2, <4>3, <4>5 DEF SelectedIn
    <3> QED BY <3>1, <3>2
  <2>10. "detail" \in Lists \ {"features"} /\ shown["detail"] = Nobody
    BY <2>8 DEF Emptied, Lists, VersionLists, PanelLists
  <2>11. ASSUME NEW d \in BagToSet(calls')
         PROVE  /\ d.handler \notin {"check", "detail"}
                /\ d.live /\ d.handler \notin {"features", "signup"} => d.by \in {None, keyOf[k]}
    <3>1. CASE d \in BagToSet(over)
      <4>1. PICK c \in BagToSet(left) : d.handler = c.handler /\ (d.live => c.live)
        BY <3>1, OutlivedCall DEF over
      <4>2. c.handler \notin PanelHandlers
        BY <1>4, <4>1 DEF PanelsAreThere, SignedIn
      <4>3. d.live => d.handler \in {"features", "signup"}
        BY <2>8, <4>1 DEF Emptied
      <4> QED BY <4>1, <4>2, <4>3 DEF PanelHandlers, PanelLists
    <3>2. CASE d \in BagToSet(mine) \cup BagToSet(models) \cup BagToSet(panels)
      <4>1. PICK list \in {"models", "versions"} \cup (PanelLists \ {"detail"}) :
                   \E owner : d = Call(list, u, owner, 0)
        BY <3>2, LoadsMembers, NoMembers DEF mine, models, panels
      <4>2. d.handler = list /\ d.by = u
        BY <4>1, NewCall
      <4> QED BY <2>2, <4>2 DEF PanelLists
    <3> QED BY <2>1, <3>1, <3>2, BagCupMembers
  <2>12. Own(shown, calls', keyOf[k])
    BY <2>8, <2>11, NothingIsOwned DEF Own, Emptied
  <2>13. HistoryFollows(shown, calls', disturbed, versionId)
    BY <2>10, <2>11 DEF HistoryFollows, ShowsNext
  <2>14. DetailFollows(shown, disturbed, versionId)
    BY <2>10 DEF DetailFollows
  <2> QED BY <1>2, <2>1, <2>9, <2>12, <2>13, <2>14 DEF ShownInv, SelectionInv, OwnInv, HistoryInv
<1> QED BY <1>3, <1>4

-----------------------------------------------------------------------------
(* A handler goes on.                                                      *)

LEMMA SameUser == KeysStay /\ apiKey' = apiKey => User' = User /\ SignedIn' = SignedIn
BY DEF KeysStay, User, SignedIn

LEMMA FitsThen ==
    ASSUME KeysStay, UNCHANGED <<apiKey, switched, modelId, versionId>>,
           Fits(shown', calls', disturbed')
    PROVE  ShownInv'
<1>1. User' = User /\ SignedIn' = SignedIn
  BY SameUser
<1> QED BY <1>1 DEF Fits, ShownInv, SelectionInv, OwnInv, HistoryInv

\* A handler is added, or waits for something else.
LEMMA FitsWithCall ==
    ASSUME NEW now, NEW bag, NEW harm, Fits(now, bag, harm), NEW x,
           SignedIn /\ ~switched /\ x.live /\ x.handler \notin {"features", "signup"} =>
               x.by \in {None, User},
           ~SignedIn => (x.live => x.handler \in {"features", "signup"}),
           x.handler = "check" /\ Head(x.awaits) # "commit" /\ ~switched => OwnedBy(User, x.of),
           "runs" \notin harm /\ versionId # None /\ ShowsNext(x) /\ x.of = versionId =>
               Listed(x.item, now, bag, versionId),
           x.handler = "check" /\ Len(x.awaits) = 2 => x.item <= x.from
    PROVE  Fits(now, BagAdd(bag, x), harm)
<1> DEFINE more == BagAdd(bag, x)
<1>1. BagToSet(more) = BagToSet(bag) \cup {x}
  BY BagAddMembers
<1>2. ListsFollow(now, more, harm, User, modelId, versionId, SignedIn)
  BY AsksInBags DEF Fits, ListsFollow
<1>3. ~SignedIn => Emptied(now, more)
  BY <1>1 DEF Fits, Emptied
<1>4. SignedIn /\ ~switched => Own(now, more, User)
  BY <1>1 DEF Fits, Own
<1>5. HistoryFollows(now, more, harm, versionId)
  <2>1. \A n : Listed(n, now, bag, versionId) => Listed(n, now, more, versionId)
    BY ListedInBags
  <2> QED BY <1>1, <2>1 DEF Fits, HistoryFollows
<1> QED BY <1>2, <1>3, <1>4, <1>5 DEF Fits

\* A handler ends that was not waiting for a list.
LEMMA FitsWithoutCall ==
    ASSUME NEW now, NEW bag, NEW harm, Fits(now, bag, harm), NEW x,
           Head(x.awaits) \in {"commit", "reply", "detail"}
    PROVE  Fits(now, BagRemove(bag, x), harm)
<1> DEFINE less == BagRemove(bag, x)
<1>1. BagToSet(less) \subseteq BagToSet(bag)
  BY BagRemoveMembers
<1>2. ListsFollow(now, less, harm, User, modelId, versionId, SignedIn)
  <2>1. ASSUME NEW list \in Lists \ {"detail"}, ~AsksFor(less, list) PROVE ~AsksFor(bag, list)
    <3>1. Head(x.awaits) # list
      BY <2>1 DEF Lists, VersionLists, PanelLists, SelectorLists
    <3> QED BY <2>1, <3>1, AsksInBags
  <2> QED BY <2>1 DEF Fits, ListsFollow
<1>3. ~SignedIn => Emptied(now, less)
  BY <1>1 DEF Fits, Emptied
<1>4. SignedIn /\ ~switched => Own(now, less, User)
  BY <1>1 DEF Fits, Own
<1>5. HistoryFollows(now, less, harm, versionId)
  <2>1. \A n : Listed(n, now, bag, versionId) => Listed(n, now, less, versionId)
    BY ListedInBags
  <2> QED BY <1>1, <2>1 DEF Fits, HistoryFollows
<1> QED BY <1>2, <1>3, <1>4, <1>5 DEF Fits

LEMMA ServerKeepsKeys == UNCHANGED server => KeysStay
BY DEF server, KeysStay

\* The selector loads the versions of the model that is selected now.
LEMMA SelectModelFits ==
    ASSUME TypeInv, NEW m, m = None \/ m \in Models, NEW now, NEW left, NEW harm,
           Fits(now, left, harm),
           m = None => now["versions"] = Nobody
    PROVE  LET bag == left (+) LoadVersions(m)
               noted == IF m = modelId THEN harm ELSE harm \ {"versions"}
           IN  /\ ListsFollow(now, bag, noted, User, m, versionId, SignedIn)
               /\ DetailFollows(now, noted, versionId)
               /\ ~SignedIn => Emptied(now, bag)
               /\ SignedIn /\ ~switched => Own(now, bag, User)
               /\ HistoryFollows(now, bag, noted, versionId)
<1> DEFINE bag == left (+) LoadVersions(m)
           noted == IF m = modelId THEN harm ELSE harm \ {"versions"}
<1>1. BagToSet(bag) = BagToSet(left) \cup BagToSet(LoadVersions(m))
  BY BagCupMembers
<1>2. RegistryTypeOK /\ apiKey \in Keys \cup {None}
  BY DEF TypeInv
<1>3. \A d \in BagToSet(LoadVersions(m)) :
          d.handler = "versions" /\ d.by \in {None, User} /\ SignedIn
  BY <1>2, LoadVersionsExists, AsksAsUser
<1>4. SignedIn /\ m \notin {None, modelId} => AsksFor(bag, "versions")
  <2> SUFFICES ASSUME SignedIn, m \notin {None, modelId} PROVE AsksFor(bag, "versions")
    OBVIOUS
  <2>1. {"versions"} \in SUBSET Lists /\ OwnersOf("versions") = Models
    BY DEF Lists, SelectorLists, OwnersOf, PanelHandlers, PanelLists
  <2>2. AsksFor(Loads({"versions"}, Authenticate(apiKey), m), "versions")
    BY <1>2, <2>1, LoadAsks, AsksAsUser
  <2> QED BY <2>2, AsksInBags DEF LoadVersions
<1>5. ("runs" \in noted <=> "runs" \in harm) /\ ("detail" \in noted <=> "detail" \in harm)
  OBVIOUS
<1>6. ListsFollow(now, bag, noted, User, m, versionId, SignedIn)
  <2> SUFFICES ASSUME NEW list \in Lists \ {"detail"}, SignedIn \/ list = "features",
                      list \notin noted, ~AsksFor(bag, list)
               PROVE  now[list].of = SelectedIn(list, User, m, versionId)
    BY DEF ListsFollow
  <2>1. ~AsksFor(left, list)
    BY AsksInBags
  <2>2. CASE list = "versions" /\ m # modelId
    <3>1. m = None
      BY <1>4, <2>2
    <3> QED BY <2>2, <3>1 DEF SelectedIn, Nobody
  <2>3. CASE list = "versions" /\ m = modelId
    BY <2>1, <2>3 DEF Fits, ListsFollow, SelectedIn
  <2>4. CASE list # "versions"
    BY <2>1, <2>4 DEF Fits, ListsFollow, SelectedIn
  <2> QED BY <2>2, <2>3, <2>4
<1>7. DetailFollows(now, noted, versionId)
  BY <1>5 DEF Fits, DetailFollows
<1>8. ~SignedIn => Emptied(now, bag)
  BY <1>1, <1>3 DEF Fits, Emptied
<1>9. SignedIn /\ ~switched => Own(now, bag, User)
  BY <1>1, <1>3 DEF Fits, Own
<1>10. HistoryFollows(now, bag, noted, versionId)
  <2>1. \A n : Listed(n, now, left, versionId) => Listed(n, now, bag, versionId)
    BY ListedInBags
  <2> HIDE DEF bag, noted
  <2> QED BY <1>1, <1>3, <1>5, <2>1 DEF Fits, HistoryFollows, ShowsNext
<1> QED BY <1>6, <1>7, <1>8, <1>9, <1>10

LEMMA SelectVersionShown ==
    ASSUME TypeInv, NEW v, v = None \/ v \in Versions, NEW now, NEW left, NEW harm,
           SelectVersion(v, now, left, harm), UNCHANGED <<server, apiKey, switched>>,
           CallsExist(left, keyOf, stored), PanelsAreThere(left, versionId, apiKey),
           ListsFollow(now, left, harm, User, modelId', versionId, SignedIn),
           DetailFollows(now, harm, versionId),
           ~SignedIn => Emptied(now, left),
           SignedIn /\ ~switched => Own(now, left, User),
           HistoryFollows(now, left, harm, versionId)
    PROVE  ShownInv'
<1>1. /\ RegistryTypeOK /\ apiKey \in Keys \cup {None}
      /\ User' = User /\ SignedIn' = SignedIn /\ switched' = switched /\ SignedIn \in BOOLEAN
  BY ServerKeepsKeys, SameUser DEF TypeInv, SignedIn
<1>2. versionId' = v
  BY SelectVersionEffects
<1>3. /\ ListsFollow(shown', calls', disturbed', User, modelId', v, SignedIn)
      /\ DetailFollows(shown', disturbed', v)
  BY <1>1, SelectVersionFollows
<1>4. ~SignedIn => Emptied(shown', calls')
  BY <1>1, SelectVersionEmptied
<1>5. SignedIn /\ ~switched => Own(shown', calls', User)
  BY <1>1, SelectVersionOwn
<1>6. HistoryFollows(shown', calls', disturbed', v)
  BY <1>1, SelectVersionHistory
<1> QED BY <1>1, <1>2, <1>3, <1>4, <1>5, <1>6 DEF ShownInv, SelectionInv, OwnInv, HistoryInv

LEMMA GoOnShown ==
    ASSUME TypeInv, ShownInv, NEW c \in BagToSet(calls), NEW now, NEW harm,
           GoOn(c, now, harm), Shows(c, now, harm)
    PROVE  ShownInv'
<1> DEFINE left == BagRemove(calls, c)
           next == Resumed(c, Authenticate(apiKey))
<1>1. /\ RegistryTypeOK /\ apiKey \in Keys \cup {None} /\ CallExists(c, keyOf, stored)
      /\ c.handler \in Handlers /\ Remain(c.awaits, c.handler) /\ c \in Calls
      /\ c.of \in OwnersOf(c.handler) /\ ItemExists(c, keyOf, stored)
      /\ c.handler \in PanelHandlers => versionId # None /\ SignedIn /\ c.live
  BY DEF TypeInv, CallsExist, CallExists, Calls, PanelsAreThere, SignedIn
<1>2. ShownExists(now, stored) /\ Head(c.awaits) # "commit"
  BY ShowsExist
<1>3. Fits(now, left, harm)
  BY ShowsFollow, ShowsOwn, ShowsHistory DEF ShownInv, OwnInv, Fits
<1>4. CallsExist(left, keyOf, stored) /\ PanelsAreThere(left, versionId, apiKey)
  BY CallsOfBags, PanelsOfBags DEF TypeInv
<1>5. /\ ~SignedIn => (c.live => c.handler \in {"features", "signup"})
      /\ SignedIn /\ ~switched /\ c.handler = "check" => OwnedBy(User, c.of)
  BY <1>2 DEF ShownInv, SelectionInv, OwnInv, Emptied, Own
<1>6. "runs" \notin harm /\ c.of = versionId /\ versionId # None
      /\ (ShowsNext(c) \/ (c.handler = "check" /\ Len(c.awaits) = 2)) =>
          Listed(c.item, now, left, versionId)
  BY ShowsHistory DEF ShownInv
<1>7. UNCHANGED server
  BY DEF GoOn
<1> HIDE DEF left
<1>8. CASE /\ Len(c.awaits) > 1
           /\ shown' = now /\ disturbed' = harm
           /\ calls' = BagAdd(left, next)
           /\ UNCHANGED <<apiKey, switched, modelId, versionId, triggering>>
  <2>1. /\ next.handler = c.handler /\ next.of = c.of /\ next.item = c.item
        /\ next.awaits = Tail(c.awaits) /\ next.by \in {None, User} /\ next.live = c.live
        /\ next.from = Stored(Head(Tail(c.awaits)), Authenticate(apiKey), c.of)
    BY <1>1, NextAwait, AsksAsUser
  <2>2. Remain(Tail(c.awaits), c.handler) /\ Len(Tail(c.awaits)) = Len(c.awaits) - 1
    BY <1>1, <1>8, TailRemains
  <2>3. Len(c.awaits) \in Nat \ {0} /\ (c.handler = "detail" => Len(c.awaits) = 1)
    BY <1>1, WhatRemains DEF Lists, VersionLists, PanelLists
  <2>4. ShowsNext(next) => c.handler = "check" /\ Len(c.awaits) = 2
    BY <1>8, <2>1, <2>2, <2>3 DEF ShowsNext
  <2>5. next.handler = "check" /\ Len(next.awaits) = 2 => next.item <= next.from
    <3> SUFFICES ASSUME c.handler = "check", Len(Tail(c.awaits)) = 2 PROVE next.item <= next.from
      BY <2>1
    <3>1. Head(Tail(c.awaits)) = "runs"
      BY <1>1, <2>2, WhatRemains
    <3>2. next.from = ListDriftRuns(c.of)
      BY <2>1, <3>1, StoredOf
    <3> QED BY <2>1, <3>2, ItemsAreNumbers
  <2>6. next.handler = "check" /\ ~switched => OwnedBy(User, next.of)
    BY <1>1, <1>5, <2>1 DEF PanelHandlers
  <2> HIDE DEF next
  <2>7. Fits(now, BagAdd(left, next), harm)
    BY <1>3, <1>5, <1>6, <2>1, <2>4, <2>5, <2>6, FitsWithCall
  <2> QED BY <1>7, <1>8, <2>7, FitsThen, ServerKeepsKeys
<1>9. CASE /\ Len(c.awaits) = 1 /\ c.handler = "check"
           /\ shown' = [now EXCEPT !["detail"] = [of |-> c.of, upTo |-> c.item]]
           /\ disturbed' = IF c.of # versionId THEN harm \cup {"detail"} ELSE harm
           /\ calls' = left /\ triggering' = FALSE
           /\ UNCHANGED <<apiKey, switched, modelId, versionId>>
  <2>1. "detail" \in Lists /\ SignedIn /\ "runs" \in Lists
    BY <1>1, <1>9 DEF Lists, VersionLists, PanelLists, PanelHandlers
  <2>2. /\ shown'["detail"].of = c.of /\ shown'["detail"].upTo = c.item
        /\ \A list \in Lists \ {"detail"} : shown'[list] = now[list]
    BY <1>2, <1>9, <2>1 DEF ShownExists
  <2>3. harm \subseteq disturbed' /\ ("runs" \in disturbed' <=> "runs" \in harm)
    BY <1>9
  <2>4. ListsFollow(shown', left, disturbed', User, modelId, versionId, SignedIn)
    BY <1>3, <2>2, <2>3 DEF Fits, ListsFollow
  <2>5. DetailFollows(shown', disturbed', versionId)
    BY <1>9, <2>2 DEF DetailFollows
  <2>6. ~switched => Own(shown', left, User)
    BY <1>3, <1>5, <1>9, <2>1, <2>2 DEF Fits, Own
  <2>7. HistoryFollows(shown', left, disturbed', versionId)
    <3>1. \A n : Listed(n, now, left, versionId) => Listed(n, shown', left, versionId)
      BY <2>1, <2>2 DEF Listed
    <3>2. "detail" \notin disturbed' => c.of = versionId
      BY <1>9
    <3>3. "runs" \notin disturbed' /\ versionId # None /\ "detail" \notin disturbed' =>
              Listed(shown'["detail"].upTo, shown', left, versionId)
      <4> SUFFICES ASSUME "runs" \notin disturbed', versionId # None, "detail" \notin disturbed'
                   PROVE  Listed(shown'["detail"].upTo, shown', left, versionId)
        OBVIOUS
      <4>1. ShowsNext(c)
        BY <1>9 DEF ShowsNext
      <4>2. Listed(c.item, now, left, versionId)
        BY <1>6, <2>3, <3>2, <4>1
      <4> QED BY <2>2, <3>1, <4>2
    <3>4. HistoryFollows(now, left, harm, versionId)
      BY <1>3 DEF Fits
    <3> QED BY <2>3, <3>1, <3>3, <3>4 DEF HistoryFollows
  <2>8. Fits(shown', calls', disturbed')
    BY <1>9, <2>1, <2>4, <2>5, <2>6, <2>7 DEF Fits
  <2> QED BY <1>7, <1>9, <2>8, FitsThen, ServerKeepsKeys
<1>10. CASE /\ Len(c.awaits) = 1 /\ c.handler = "addVersion"
            /\ SelectVersion(c.item, now, left, harm)
            /\ UNCHANGED <<apiKey, switched, modelId>>
  <2>1. c.item \in Versions
    BY <1>1, <1>2, <1>10 DEF ItemExists, VersionExists
  <2> QED BY <1>3, <1>4, <1>7, <1>10, <2>1, SelectVersionShown DEF Fits
<1>11. CASE /\ Len(c.awaits) = 1 /\ c.handler = "addModel"
            /\ modelId' = c.item
            /\ shown' = now /\ calls' = left (+) LoadVersions(c.item)
            /\ disturbed' = IF c.item = modelId THEN harm ELSE harm \ {"versions"}
            /\ UNCHANGED <<apiKey, switched, versionId, triggering>>
  <2>1. c.item \in Models /\ c.item # None
    BY <1>1, <1>2, <1>11, RegistryAssumption DEF ItemExists, ModelExists
  <2>2. /\ ListsFollow(shown', calls', disturbed', User, modelId', versionId, SignedIn)
        /\ DetailFollows(shown', disturbed', versionId)
        /\ ~SignedIn => Emptied(shown', calls')
        /\ SignedIn /\ ~switched => Own(shown', calls', User)
        /\ HistoryFollows(shown', calls', disturbed', versionId)
    BY <1>3, <1>11, <2>1, SelectModelFits
  <2>3. User' = User /\ SignedIn' = SignedIn
    BY <1>7, <1>11, ServerKeepsKeys, SameUser
  <2> QED BY <1>11, <2>2, <2>3 DEF ShownInv, SelectionInv, OwnInv, HistoryInv
<1>12. CASE Len(c.awaits) = 1 /\ c.handler = "signup" /\ Enter(c.item, left)
  <2>1. c.item \in Keys /\ Head(c.awaits) \notin Lists /\ "features" \in Lists
    BY <1>1, <1>2, <1>12, AsksItsOwner DEF ItemExists, Lists, VersionLists
  <2>2. now = shown /\ harm = disturbed
    BY <2>1 DEF Shows
  <2> QED BY <1>3, <1>4, <1>7, <1>12, <2>1, <2>2, EnterShown
<1>13. CASE /\ Len(c.awaits) = 1 /\ c.handler \in Lists \cup {"addFeature"}
            /\ shown' = now /\ calls' = left /\ disturbed' = harm
            /\ UNCHANGED <<apiKey, switched, modelId, versionId, triggering>>
  BY <1>3, <1>7, <1>13, FitsThen, ServerKeepsKeys
<1> QED BY <1>8, <1>9, <1>10, <1>11, <1>12, <1>13 DEF GoOn, left, Resumed

-----------------------------------------------------------------------------
(* The steps.                                                              *)

LEMMA StartShown ==
    ASSUME TypeInv, ShownInv, NEW h \in Handlers, NEW owner \in OwnersOf(h), NEW item \in Nat,
           Start(h, owner, item), h # "signup",
           h = "detail" /\ owner = versionId => Listed(item, shown, calls, versionId)
    PROVE  ShownInv'
<1> DEFINE x == Call(h, Authenticate(apiKey), owner, item)
<1>1. /\ SignedIn /\ UNCHANGED <<server, apiKey, switched, modelId, versionId, shown, disturbed>>
      /\ calls' = BagAdd(calls, x)
  BY DEF Start, Choose, Do
<1>2. /\ x.handler = h /\ x.of = owner /\ x.item = item /\ x.awaits = Awaits(h)
      /\ x.by \in {None, User}
  BY NewCall, AsksAsUser DEF TypeInv
<1>3. h = "check" => Len(Awaits(h)) = 4 /\ Head(Awaits(h)) = "commit"
  BY AwaitsOf
<1> HIDE DEF x
<1>4. Fits(shown, BagAdd(calls, x), disturbed)
  BY <1>1, <1>2, <1>3, ShownFits, FitsWithCall DEF ShowsNext
<1> QED BY <1>1, <1>4, FitsThen, ServerKeepsKeys

LEMMA ClicksShown ==
    ASSUME TypeInv, ShownInv,
           \/ TriggerCheck \/ AddFeature \/ AddVersion \/ AddModel
           \/ \E n \in 1..shown["runs"].upTo : OpenRun(n)
    PROVE  ShownInv'
<1>1. SelectionExists(modelId, versionId, stored) /\ ShownExists(shown, stored)
  BY DEF TypeInv
<1>2. {"check", "addFeature", "addVersion", "addModel", "detail"} \subseteq Handlers
  BY DEF Handlers, PanelHandlers, SelectorHandlers, PanelLists
<1>3. /\ OwnersOf("check") = Versions /\ OwnersOf("addFeature") = Versions
      /\ OwnersOf("detail") = Versions
      /\ OwnersOf("addVersion") = Models /\ OwnersOf("addModel") = {None}
  BY DEF OwnersOf, PanelHandlers, PanelLists
<1>4. versionId # None => versionId \in Versions
  BY <1>1 DEF SelectionExists, VersionExists
<1>5. modelId # None => modelId \in Models
  BY <1>1 DEF SelectionExists, ModelExists
<1>6. CASE TriggerCheck
  BY <1>2, <1>3, <1>4, <1>6, StartShown DEF TriggerCheck
<1>7. CASE AddFeature
  BY <1>2, <1>3, <1>4, <1>7, StartShown DEF AddFeature
<1>8. CASE AddVersion
  BY <1>2, <1>3, <1>5, <1>8, StartShown DEF AddVersion
<1>9. CASE AddModel
  BY <1>2, <1>3, <1>9, StartShown DEF AddModel
<1>10. ASSUME NEW n \in 1..shown["runs"].upTo, OpenRun(n) PROVE ShownInv'
  <2>1. /\ shown["runs"] \in [of: Users \cup Models \cup Versions \cup {None}, upTo: Nat]
        /\ shown["runs"] = Nobody \/ shown["runs"].of \in Versions
    BY <1>1 DEF ShownExists, EntriesExist, Lists, VersionLists, PanelLists
  <2>2. shown["runs"].of \in Versions /\ n \in Nat /\ n <= shown["runs"].upTo
    BY <1>10, <2>1 DEF Nobody
  <2>3. shown["runs"].of = versionId => Listed(n, shown, calls, versionId)
    BY <2>2 DEF Listed
  <2> QED BY <1>2, <1>3, <1>10, <2>2, <2>3, StartShown DEF OpenRun
<1> QED BY <1>6, <1>7, <1>8, <1>9, <1>10

LEMMA SelectsShown ==
    ASSUME TypeInv, ShownInv,
           \/ \E m \in Models \cup {None} : PickModel(m)
           \/ \E v \in Versions \cup {None} : PickVersion(v)
    PROVE  ShownInv'
<1>1. /\ RegistryTypeOK /\ apiKey \in Keys \cup {None} /\ ShownExists(shown, stored)
      /\ CallsExist(calls, keyOf, stored) /\ PanelsAreThere(calls, versionId, apiKey)
  BY DEF TypeInv
<1>2. Fits(shown, calls, disturbed)
  BY ShownFits
<1>3. ASSUME NEW m \in Models \cup {None}, PickModel(m) PROVE ShownInv'
  <2> DEFINE now == IF m = None THEN Closed({"versions"}, shown) ELSE shown
             left == calls (+) LoadVersions(m)
  <2>1. /\ SelectVersion(None, now, left, disturbed \ {"versions"})
        /\ modelId' = m /\ m # modelId /\ UNCHANGED <<server, apiKey, switched>> /\ SignedIn
    BY <1>3 DEF PickModel, Choose, Do
  <2>2. \A list \in Lists : now[list] = IF m = None /\ list = "versions" THEN Nobody ELSE shown[list]
    BY ClosedLists
  <2>3. {"versions", "detail", "runs"} \subseteq Lists
    BY DEF Lists, VersionLists, PanelLists, SelectorLists
  <2> HIDE DEF now
  <2>4. Fits(now, calls, disturbed \cup IF m = None THEN {"versions"} ELSE {})
    <3> DEFINE harm == disturbed \cup IF m = None THEN {"versions"} ELSE {}
    <3>0. disturbed \subseteq harm /\ (m = None => "versions" \in harm)
          /\ ("runs" \in harm <=> "runs" \in disturbed) /\ ("detail" \in harm <=> "detail" \in disturbed)
      OBVIOUS
    <3> HIDE DEF harm
    <3>1. ListsFollow(now, calls, harm, User, modelId, versionId, SignedIn)
      BY <1>2, <2>2, <3>0 DEF Fits, ListsFollow
    <3>2. DetailFollows(now, harm, versionId)
      BY <1>2, <2>2, <2>3, <3>0 DEF Fits, DetailFollows
    <3>3. ~SignedIn => Emptied(now, calls)
      BY <2>1
    <3>4. ~switched => Own(now, calls, User)
      BY <1>2, <2>1, <2>2, NothingIsOwned DEF Fits, Own
    <3>5. HistoryFollows(now, calls, harm, versionId)
      BY <1>2, <2>2, <2>3, <3>0 DEF Fits, HistoryFollows, Listed
    <3> QED BY <3>1, <3>2, <3>3, <3>4, <3>5 DEF Fits, harm
  <2>5. /\ ListsFollow(now, left, disturbed \ {"versions"}, User, m, versionId, SignedIn)
        /\ DetailFollows(now, disturbed \ {"versions"}, versionId)
        /\ ~SignedIn => Emptied(now, left)
        /\ SignedIn /\ ~switched => Own(now, left, User)
        /\ HistoryFollows(now, left, disturbed \ {"versions"}, versionId)
    <3> DEFINE harm == disturbed \cup IF m = None THEN {"versions"} ELSE {}
    <3>1. m = None => now["versions"] = Nobody
      BY <2>2, <2>3
    <3>2. harm \ {"versions"} = disturbed \ {"versions"}
      OBVIOUS
    <3> HIDE DEF harm
    <3>3. Fits(now, calls, harm)
      BY <2>4 DEF harm
    <3>4. LET noted == IF m = modelId THEN harm ELSE harm \ {"versions"}
          IN  /\ ListsFollow(now, left, noted, User, m, versionId, SignedIn)
              /\ DetailFollows(now, noted, versionId)
              /\ ~SignedIn => Emptied(now, left)
              /\ SignedIn /\ ~switched => Own(now, left, User)
              /\ HistoryFollows(now, left, noted, versionId)
      BY <3>1, <3>3, SelectModelFits
    <3> QED BY <2>1, <3>2, <3>4
  <2>6. CallsExist(left, keyOf, stored) /\ PanelsAreThere(left, versionId, apiKey)
    BY <1>1, LoadVersionsKeeps
  <2> HIDE DEF left
  <2> QED BY <2>1, <2>5, <2>6, SelectVersionShown
<1>4. ASSUME NEW v \in Versions \cup {None}, PickVersion(v) PROVE ShownInv'
  <2>1. /\ SelectVersion(v, shown, calls, disturbed)
        /\ UNCHANGED <<server, apiKey, switched, modelId>>
    BY <1>4 DEF PickVersion, Choose, Do
  <2> QED BY <1>1, <1>2, <2>1, SelectVersionShown DEF Fits
<1> QED BY <1>3, <1>4

\* Nothing is shown, and nothing but the user's models is loaded.
LEMMA AfreshFits ==
    ASSUME RegistryTypeOK, NEW u \in Users \cup {None}, NEW w, u \in {None, w}, NEW in \in BOOLEAN,
           NEW now, \A list \in Lists : now[list] = Nobody, NEW harm,
           NEW bag, in => bag = Loads({"models"}, u, None), ~in => bag = EmptyBag
    PROVE  /\ ListsFollow(now, bag, harm, w, None, None, in)
           /\ DetailFollows(now, harm, None)
           /\ ~in => Emptied(now, bag)
           /\ Own(now, bag, w)
           /\ HistoryFollows(now, bag, harm, None)
<1>1. {"models"} \in SUBSET Lists /\ None \in OwnersOf("models") /\ "detail" \in Lists
  BY DEF Lists, VersionLists, SelectorLists, OwnersOf, PanelHandlers, PanelLists
<1>2. in => AsksFor(bag, "models")
  BY <1>1, LoadAsks
<1>3. \A d \in BagToSet(bag) : in /\ d.handler = "models" /\ d.by = u
  BY <1>1, LoadExists, NoMembers
<1>4. ListsFollow(now, bag, harm, w, None, None, in)
  BY <1>2 DEF ListsFollow, SelectedIn, Nobody
<1>5. DetailFollows(now, harm, None)
  BY <1>1 DEF DetailFollows
<1>6. Own(now, bag, w)
  BY <1>3, NothingIsOwned DEF Own
<1> QED BY <1>3, <1>4, <1>5, <1>6 DEF Emptied, HistoryFollows

LEMMA SessionsShown ==
    ASSUME TypeInv, ShownInv,
           \/ \E k \in Keys : UseExistingKey(k)
           \/ \E u \in Users : SignUp(u)
           \/ Logout \/ Reload
    PROVE  ShownInv'
<1>1. /\ RegistryTypeOK /\ apiKey \in Keys \cup {None}
      /\ CallsExist(calls, keyOf, stored) /\ PanelsAreThere(calls, versionId, apiKey)
  BY DEF TypeInv
<1>2. Fits(shown, calls, disturbed)
  BY ShownFits
<1>3. ASSUME NEW k \in Keys, UseExistingKey(k) PROVE ShownInv'
  BY <1>1, <1>2, <1>3, EnterShown DEF UseExistingKey, Do
<1>4. ASSUME NEW u \in Users, SignUp(u) PROVE ShownInv'
  <2> DEFINE x == Call("signup", None, u, None)
  <2>1. /\ ~SignedIn /\ calls' = BagAdd(calls, x) /\ UNCHANGED <<server, view>>
    BY <1>4 DEF SignUp, Do
  <2>2. x.handler = "signup"
    BY NewCall
  <2> HIDE DEF x
  <2>3. Fits(shown, BagAdd(calls, x), disturbed)
    BY <1>2, <2>1, <2>2, FitsWithCall DEF ShowsNext
  <2> QED BY <2>1, <2>3, FitsThen, ServerKeepsKeys DEF view
<1>5. CASE Logout
  <2> DEFINE now == Closed(PanelLists \cup SelectorLists, shown)
             left == Outlived(SelectorHandlers, calls)
             harm == disturbed \ SelectorLists
  <2>1. /\ SignedIn /\ UNCHANGED server
        /\ apiKey' = None /\ modelId' = None /\ switched' = FALSE
        /\ SelectVersion(None, now, left, harm)
    BY <1>5 DEF Logout, Do
  <2>2. \A list \in Lists \ {"features"} : now[list] = Nobody
    BY ClosedLists DEF Lists, VersionLists
  <2>3. "features" \in Lists \ {"detail"} /\ "features" \notin SelectorLists
        /\ now["features"] = shown["features"]
    <3>1. "features" \notin PanelLists \cup SelectorLists /\ "features" \in Lists
      BY DEF Lists, VersionLists, PanelLists, SelectorLists
    <3> QED BY <3>1, ClosedLists
  <2>4. ListsFollow(now, left, harm, None, None, versionId, FALSE)
    <3> SUFFICES ASSUME "features" \notin harm, ~AsksFor(left, "features")
                 PROVE  now["features"].of = SelectedIn("features", None, None, versionId)
      BY DEF ListsFollow
    <3>1. ~AsksFor(calls, "features")
      BY <1>1, FeaturesOutlive DEF SelectorHandlers, SelectorLists
    <3>2. shown["features"].of = versionId
      BY <1>2, <2>3, <3>1 DEF Fits, ListsFollow, SelectedIn
    <3> QED BY <2>3, <3>2 DEF SelectedIn
  <2>5. DetailFollows(now, harm, versionId)
    BY <2>2 DEF DetailFollows, Lists, VersionLists, PanelLists
  <2>6. CallsExist(left, keyOf, stored)
    BY <1>1, OutlivedCall DEF CallsExist
  <2>7. \A d \in BagToSet(left) : d.live => d.handler \notin SelectorHandlers
    BY <1>1, OutlivedCall
  <2>8. \A d \in BagToSet(left) : d.handler \in Handlers
    BY <2>6 DEF CallsExist, CallExists, Calls
  <2> HIDE DEF now, left, harm
  <2>9. /\ ListsFollow(shown', calls', disturbed', None, None, None, FALSE)
        /\ DetailFollows(shown', disturbed', None)
    BY <1>1, <2>1, <2>4, <2>5, <2>6, SelectVersionFollows
  <2>10. versionId' = None /\ User' = None /\ SignedIn' = FALSE
    BY <2>1, SelectVersionEffects, RegistryAssumption DEF User, SignedIn
  <2>11. \A d \in BagToSet(calls') : d.handler \notin PanelHandlers
    BY <1>5, <2>10, SessionsKeep DEF Keeps, PanelsAreThere
  <2>12. Emptied(shown', calls')
    <3>1. \A list \in Lists \ {"features"} : shown'[list] = Nobody
      BY <2>1, <2>2, SelectVersionShows
    <3>2. ASSUME NEW d \in BagToSet(calls'), d.live PROVE d.handler \in {"features", "signup"}
      <4>1. d \in BagToSet(left) /\ d.handler \notin PanelHandlers
        BY <1>1, <2>1, <2>11, <3>2, SelectVersionEffects
      <4> QED BY <2>7, <2>8, <3>2, <4>1 DEF Handlers
    <3> QED BY <3>1, <3>2 DEF Emptied
  <2>13. HistoryFollows(shown', calls', disturbed', None)
    BY <2>11 DEF HistoryFollows, PanelHandlers
  <2> QED BY <2>1, <2>9, <2>10, <2>12, <2>13 DEF ShownInv, SelectionInv, OwnInv, HistoryInv
<1>6. CASE Reload
  <2>1. /\ UNCHANGED <<server, apiKey>> /\ modelId' = None /\ versionId' = None
        /\ shown' = Closed(Lists, shown)
        /\ calls' = IF SignedIn THEN Loads({"models"}, Authenticate(apiKey), None) ELSE EmptyBag
    BY <1>6 DEF Reload, Do
  <2>2. User' = User /\ SignedIn' = SignedIn /\ SignedIn \in BOOLEAN
    BY <2>1, ServerKeepsKeys, SameUser DEF SignedIn
  <2>3. Authenticate(apiKey) \in Users \cup {None} /\ Authenticate(apiKey) \in {None, User}
    BY <1>1, AsksAsUser
  <2>4. \A list \in Lists : shown'[list] = Nobody
    BY <2>1, ClosedLists
  <2>5. /\ ListsFollow(shown', calls', disturbed', User, None, None, SignedIn)
        /\ DetailFollows(shown', disturbed', None)
        /\ ~SignedIn => Emptied(shown', calls')
        /\ Own(shown', calls', User)
        /\ HistoryFollows(shown', calls', disturbed', None)
    BY <1>1, <2>1, <2>2, <2>3, <2>4, AfreshFits
  <2> QED BY <2>1, <2>2, <2>5 DEF ShownInv, SelectionInv, OwnInv, HistoryInv
<1> QED BY <1>3, <1>4, <1>5, <1>6

LEMMA ThrowShown ==
    ASSUME ShownInv, NEW c, Throw(c), Head(c.awaits) \in {"commit", "reply", "detail"}
    PROVE  ShownInv'
<1>1. /\ UNCHANGED <<server, apiKey, switched, modelId, versionId, shown, disturbed>>
      /\ calls' = BagRemove(calls, c)
  BY DEF Throw
<1>2. Fits(shown, BagRemove(calls, c), disturbed)
  BY ShownFits, FitsWithoutCall
<1> QED BY <1>1, <1>2, FitsThen, ServerKeepsKeys

LEMMA CommittedCheck ==
    ASSUME NEW a, Remain(a, "check"), Head(a) = "commit"
    PROVE  Len(a) > 1 /\ Len(Tail(a)) = 3
<1>1. "check" \in Handlers
  BY DEF Handlers, PanelHandlers
<1>2. Len(a) \in Nat \ {0} /\ Len(a) <= 4 /\ Len(a) # 1 /\ Len(a) # 2 /\ Len(a) # 3
  BY <1>1, WhatRemains
<1>3. Len(a) = 4
  <2>1. \A n \in Nat \ {0} : n <= 4 /\ n # 1 /\ n # 2 /\ n # 3 => n = 4
    OBVIOUS
  <2> QED BY <1>2, <2>1, Zenon
<1>4. Len(Tail(a)) = Len(a) - 1
  BY <1>1, <1>3, TailRemains
<1> QED BY <1>3, <1>4

\* A check that is committed is about a version of the user who asked for it.
LEMMA CommitShown ==
    ASSUME TypeInv, ShownInv, NEW c \in BagToSet(calls), CommitPost(c)
    PROVE  ShownInv'
<1>1. PICK made : Posted(c, made)
  BY CommitKeeps
<1> DEFINE d == [c EXCEPT !.awaits = Tail(@), !.item = made]
<1>2. /\ c \in Calls /\ c.handler \in Handlers /\ Remain(c.awaits, c.handler)
      /\ c.of \in OwnersOf(c.handler)
      /\ c.handler \in PanelHandlers => c.live /\ SignedIn
  BY DEF TypeInv, CallsExist, CallExists, Calls, PanelsAreThere, SignedIn
<1>3. Head(c.awaits) = "commit" /\ Granted(c) /\ UNCHANGED view
  BY DEF CommitPost
<1>4. /\ d.handler = c.handler /\ d.of = c.of /\ d.awaits = Tail(c.awaits)
      /\ d.by = c.by /\ d.live = c.live
  BY <1>2 DEF Calls
<1>5. /\ SignedIn /\ ~switched /\ c.live /\ c.handler \notin {"features", "signup"} =>
             c.by \in {None, User}
      /\ ~SignedIn /\ c.live => c.handler \in {"features", "signup"}
  BY DEF ShownInv, SelectionInv, OwnInv, Emptied, Own
<1>6. ASSUME c.handler = "check", ~switched PROVE OwnedBy(User, c.of)
  <2>1. c.handler \in PanelHandlers /\ c.of \in Versions
    BY <1>2, <1>6 DEF PanelHandlers, OwnersOf
  <2>2. c.by # None /\ OwnsVersion(c.by, c.of)
    BY <1>3, <1>6, <2>1 DEF Granted
  <2>3. c.by = User
    BY <1>2, <1>5, <1>6, <2>1, <2>2
  <2> QED BY <2>1, <2>2, <2>3 DEF OwnedBy
<1>7. c.handler = "check" => Len(c.awaits) > 1 /\ Len(Tail(c.awaits)) = 3
  BY <1>2, <1>3, CommittedCheck
<1>8. c.handler # "detail"
  BY <1>2, <1>3, AsksItsOwner
<1>9. calls' = BagAdd(BagRemove(calls, c), d)
  BY <1>1 DEF Posted
<1> HIDE DEF d
<1>10. Fits(shown, BagRemove(calls, c), disturbed)
  BY <1>3, ShownFits, FitsWithoutCall
<1>11. ~ShowsNext(d) /\ ~(d.handler = "check" /\ Len(d.awaits) = 2)
  <2>1. d.handler = "check" => Len(d.awaits) = 3
    BY <1>4, <1>7
  <2>2. d.handler # "detail"
    BY <1>4, <1>8
  <2> QED BY <2>1, <2>2 DEF ShowsNext
<1>12. Fits(shown, BagAdd(BagRemove(calls, c), d), disturbed)
  BY <1>4, <1>5, <1>6, <1>10, <1>11, FitsWithCall
<1> QED BY <1>3, <1>9, <1>12, CommitKeeps, FitsThen DEF view, ServerGrows

LEMMA ShownInvInit == Init => ShownInv
<1> SUFFICES ASSUME Init PROVE ShownInv
  OBVIOUS
<1>1. RegistryTypeOK /\ apiKey \in Keys \cup {None}
  BY TypeInvInit DEF TypeInv
<1>2. /\ modelId = None /\ versionId = None /\ shown = [list \in Lists |-> Nobody]
      /\ calls = IF SignedIn THEN Loads({"models"}, Authenticate(apiKey), None) ELSE EmptyBag
  BY DEF Init
<1>3. Authenticate(apiKey) \in Users \cup {None} /\ Authenticate(apiKey) \in {None, User}
      /\ SignedIn \in BOOLEAN
  BY <1>1, AsksAsUser DEF SignedIn
<1>4. /\ ListsFollow(shown, calls, disturbed, User, None, None, SignedIn)
      /\ DetailFollows(shown, disturbed, None)
      /\ ~SignedIn => Emptied(shown, calls)
      /\ Own(shown, calls, User)
      /\ HistoryFollows(shown, calls, disturbed, None)
  BY <1>1, <1>2, <1>3, AfreshFits
<1> QED BY <1>2, <1>4 DEF ShownInv, SelectionInv, OwnInv, HistoryInv

LEMMA ShownInvStep == TypeInv /\ ShownInv /\ [Next]_vars => ShownInv'
<1> SUFFICES ASSUME TypeInv, ShownInv, [Next]_vars PROVE ShownInv'
  OBVIOUS
<1>1. CASE \/ \E m \in Models \cup {None} : PickModel(m)
           \/ \E v \in Versions \cup {None} : PickVersion(v)
  BY <1>1, SelectsShown
<1>2. CASE \/ TriggerCheck \/ AddFeature \/ AddVersion \/ AddModel
           \/ \E n \in 1..shown["runs"].upTo : OpenRun(n)
  BY <1>2, ClicksShown
<1>3. CASE \/ \E k \in Keys : UseExistingKey(k)
           \/ \E u \in Users : SignUp(u)
           \/ Logout \/ Reload
  BY <1>3, SessionsShown
<1>4. CASE Elsewhere
  <2>1. KeysStay /\ UNCHANGED <<view, calls>>
    BY <1>4, ElsewhereGrows DEF TypeInv, ServerGrows, Elsewhere
  <2>2. Fits(shown', calls', disturbed')
    BY <2>1, ShownFits DEF view
  <2> QED BY <2>1, <2>2, FitsThen DEF view
<1>5. ASSUME NEW c \in BagToSet(calls), Handle(c) PROVE ShownInv'
  <2>1. CASE CommitPost(c)
    BY <1>5, <2>1, CommitShown
  <2>2. CASE Throw(c) /\ Head(c.awaits) \in {"commit", "reply", "detail"}
    BY <2>2, ThrowShown
  <2>3. ASSUME NEW now, NEW harm, GoOn(c, now, harm), Shows(c, now, harm) PROVE ShownInv'
    BY <1>5, <2>3, GoOnShown
  <2> QED BY <1>5, <2>1, <2>2, <2>3, HandleCases
<1>6. CASE UNCHANGED vars
  <2>1. UNCHANGED <<server, view, calls>>
    BY <1>6 DEF vars
  <2>2. Fits(shown', calls', disturbed')
    BY <2>1, ShownFits DEF view
  <2> QED BY <2>1, <2>2, FitsThen, ServerKeepsKeys DEF view
<1> QED BY <1>1, <1>2, <1>3, <1>4, <1>5, <1>6 DEF Next

LEMMA ShownInvariance == Spec => [](TypeInv /\ ShownInv)
<1>1. TypeInv /\ ShownInv /\ [Next]_vars => (TypeInv /\ ShownInv)'
  BY TypeInvStep, ShownInvStep
<1> QED BY <1>1, TypeInvInit, ShownInvInit, PTL DEF Spec

LEMMA SelectionIsShown == SelectionInv => ShownIsSelected
<1> SUFFICES ASSUME SelectionInv, NEW list \in Lists, Mounted(list), list \notin disturbed,
                    ~Asked(list)
             PROVE  shown[list].of = Selected(list) \/ (list = "detail" /\ shown[list] = Nobody)
  BY DEF ShownIsSelected
<1>1. SelectedIn(list, User, modelId, versionId) = Selected(list)
  <2>1. list \in VersionLists => list \notin {"models", "versions"}
    BY DEF VersionLists, PanelLists
  <2> QED BY <2>1, SelectedOf DEF SelectedIn, Lists, SelectorLists
<1>2. CASE list = "detail"
  BY <1>1, <1>2 DEF SelectionInv, DetailFollows, SelectedIn
<1>3. CASE list # "detail"
  BY <1>1, <1>3 DEF SelectionInv, ListsFollow, Mounted, Asked, AsksFor
<1> QED BY <1>2, <1>3

LEMMA OwnIsShown == SelectionInv /\ OwnInv => ShownIsOwn
<1> SUFFICES ASSUME SelectionInv, OwnInv, NEW list \in Lists \ {"features"}, ~switched
             PROVE  OwnedBy(User, shown[list].of)
  BY DEF ShownIsOwn
<1>1. CASE SignedIn
  BY <1>1 DEF OwnInv, Own
<1>2. CASE ~SignedIn
  BY <1>2, NothingIsOwned DEF SelectionInv, Emptied
<1> QED BY <1>1, <1>2

LEMMA HistoryIsShown == SelectionInv /\ HistoryInv /\ TypeInv => DetailIsListed
<1> SUFFICES ASSUME SelectionInv, HistoryInv, TypeInv, shown["detail"] # Nobody,
                    "runs" \notin disturbed, "detail" \notin disturbed, ~Asked("runs")
             PROVE  /\ shown["runs"].of = shown["detail"].of
                    /\ shown["detail"].upTo <= shown["runs"].upTo
  BY DEF DetailIsListed
<1>1. "detail" \in Lists \ {"features"} /\ "detail" \in VersionLists
  BY DEF Lists, VersionLists, PanelLists
<1>2. shown["detail"].of = versionId /\ shown["detail"].of \in Versions
  BY <1>1 DEF SelectionInv, DetailFollows, TypeInv, ShownExists, EntriesExist
<1>3. versionId # None
  BY <1>2, RegistryAssumption
<1>4. Listed(shown["detail"].upTo, shown, calls, versionId)
  BY <1>3 DEF HistoryInv, HistoryFollows
<1> QED BY <1>2, <1>4 DEF Listed, Asked

-----------------------------------------------------------------------------
\* However answers overtake each other, and whatever is selected or logged out of in
\* between (DriftDashboard.tsx:49, FeaturesAndReference.tsx:21, App.tsx:15,
\* ModelSelector.tsx:34): once a list is answered it is about the selection, and the run
\* in detail is the selected version's or none, unless a request failed or came too late.
THEOREM ShowsTheSelection == Spec => []ShownIsSelected
BY ShownInvariance, SelectionIsShown, PTL DEF ShownInv

\* What the selector and the panels show belongs to the user whose key the browser has:
\* the answers to an earlier session's requests, and the runs of checks that were
\* started in it, never show under another user's key (AuthGate.tsx:17, App.tsx:40).
THEOREM ShowsWhatIsOwned == Spec => []ShownIsOwn
BY ShownInvariance, OwnIsShown, PTL DEF ShownInv

\* A run in detail is in the history beside it: handleTrigger shows its run after the
\* history that was loaded behind it, and a row is opened from the history itself
\* (DriftDashboard.tsx:57).
THEOREM ShowsRunsInTheHistory == Spec => []DetailIsListed
BY ShownInvariance, HistoryIsShown, PTL DEF ShownInv
================================================================================
