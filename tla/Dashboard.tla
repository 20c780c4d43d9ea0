------------------------------- MODULE Dashboard -------------------------------
(***************************************************************************)
(* The dashboard (src/frontend/src): what is selected, what is shown, and  *)
(* the asynchronous handlers in between. A handler runs from one await to  *)
(* the next without interruption; answers come in any order, or not at     *)
(* all. The effects of a changed selection run with the change.            *)
(*                                                                         *)
(* A list is shown as whose it is, up to a number; how many features and   *)
(* alerts there are is left out. Who is signed in is whose key the browser *)
(* sends, and it sends the one it has at the time: App's "authenticated"   *)
(* is that it has one, since the two change together.                      *)
(***************************************************************************)
EXTENDS Registry, Sequences, SequencesExt, Bags, BagsExt

CONSTANTS
    MaxInFlight, \* bound: handlers under way when the user acts
    MaxActs      \* bound: acts of users, here and elsewhere, and failures

ASSUME BoundsAssumption == {MaxInFlight, MaxActs} \subseteq Nat

VARIABLES
    apiKey,      \* the key this browser sends, None: signed out
    modelId,     \* App
    versionId,   \* App
    shown,       \* list -> what is shown in it
    triggering,  \* DriftDashboard: the button is disabled
    calls,       \* bag of the handlers under way
    acts,        \* counts acts and failures
    disturbed,   \* history: lists for which, since the selection changed, a request
                 \* failed, or an answer was shown that is about another selection
                 \* or older than what was shown
    switched     \* history: since the last log-out, the answer to a sign-up brought
                 \* another user's key

view == <<apiKey, modelId, versionId, shown, triggering, disturbed, switched>>
vars == <<server, view, calls, acts>>

SignedIn == apiKey # None

\* Whose key the browser has, revoked or not.
User == IF apiKey \in Keys THEN keyOf[apiKey] ELSE None

\* What the panels under App show, App itself, and ModelSelector.
PanelLists == {"panel", "runs", "alerts", "detail"}
VersionLists == PanelLists \cup {"features"}
SelectorLists == {"models", "versions"}
Lists == VersionLists \cup SelectorLists
Nobody == [of |-> None, upTo |-> 0]

Selected(list) ==
    CASE list = "models" -> User
      [] list = "versions" -> modelId
      [] list \in VersionLists -> versionId

\* Mutant: handleTrigger does not refresh the lists.
AwaitsUnrefreshed(handler) ==
    CASE handler \in {"check", "signup"} -> <<"commit", "reply">>
      [] handler = "addFeature" -> <<"commit", "reply", "panel">>
      [] handler = "addVersion" -> <<"commit", "reply", "versions">>
      [] handler = "addModel" -> <<"commit", "reply", "models">>
      [] OTHER -> <<handler>>

\* The awaits of each handler, in order. A POST is committed, then answered.
Awaits(handler) ==
    CASE handler = "check" -> <<"commit", "reply", "runs", "alerts">>
      [] handler = "addFeature" -> <<"commit", "reply", "panel">>
      [] handler = "addVersion" -> <<"commit", "reply", "versions">>
      [] handler = "addModel" -> <<"commit", "reply", "models">>
      [] handler = "signup" -> <<"commit", "reply">>
      [] OTHER -> <<handler>>      \* a list is loaded

PanelHandlers == PanelLists \cup {"check", "addFeature"}
SelectorHandlers == SelectorLists \cup {"addVersion", "addModel"}
Handlers == PanelHandlers \cup SelectorHandlers \cup {"features", "signup"}

\* A list that a request reads, of u's models or of owner's entries.
Stored(await, u, owner) ==
    CASE await = "models" /\ u # None -> ListModels(u)
      [] await = "versions" -> ListVersions(owner)
      [] await = "runs" -> ListDriftRuns(owner)
      [] OTHER -> 0

\* c sends its next request, with the key there is then: by is the user it comes from.
\* It reads the entries there are between its sending and its answer.
Send(c, u) == [c EXCEPT !.by = u, !.from = Stored(Head(c.awaits), u, c.of)]

\* A call of a handler for owner by u. item: the entry it opens or has made; live: its
\* component is still there to show what it loads.
Call(handler, u, owner, item) ==
    Send([handler |-> handler, of |-> owner, item |-> item, awaits |-> Awaits(handler),
          by |-> None, from |-> 0, live |-> TRUE], u)

Loads(lists, u, owner) == SetToBag({Call(list, u, owner, 0) : list \in lists})

TypeOK ==
    /\ RegistryTypeOK
    /\ apiKey \in Keys \cup {None}
    /\ modelId \in Models \cup {None}
    /\ modelId # None => modelId[2] <= ListModels(modelId[1])
    /\ versionId \in Versions \cup {None}
    /\ versionId # None => versionId[2] <= ListVersions(versionId[1])
    /\ shown \in [Lists -> [of: Users \cup Models \cup Versions \cup {None}, upTo: Nat]]
    /\ \A c \in BagToSet(calls) :
          /\ c.handler \in Handlers
          /\ c.awaits # <<>> /\ IsSuffix(c.awaits, Awaits(c.handler))
          /\ c.by \in Users \cup {None}
    /\ triggering = \E c \in BagToSet(calls) : c.handler = "check"
    /\ \A c \in BagToSet(calls) :
          c.handler \in PanelHandlers => versionId # None /\ SignedIn /\ c.live
    /\ acts \in 0..MaxActs
    /\ disturbed \subseteq Lists
    /\ switched \in BOOLEAN

\* The page is opened, with the key that localStorage has.
Init ==
    /\ RegistryInit
    /\ apiKey \in Keys \cup {None}
    /\ modelId = None
    /\ versionId = None
    /\ shown = [list \in Lists |-> Nobody]
    /\ triggering = FALSE
    /\ calls = IF SignedIn THEN Loads({"models"}, Authenticate(apiKey), None) ELSE EmptyBag
    /\ acts = 0
    /\ disturbed = {}
    /\ switched = FALSE
-----------------------------------------------------------------------------
(* Selecting. now: what is shown, left: the handlers under way.            *)

Closed(lists, now) == [list \in Lists |-> IF list \in lists THEN Nobody ELSE now[list]]

\* Without a version the two panels are unmounted. Their handlers can show nothing
\* more, and what they still commit is as if committed elsewhere.
Unmounted(left) ==
    [c \in {d \in BagToSet(left) : d.handler \notin PanelHandlers} |-> left[c]]

\* Mutant: the effect does not call setSelectedRun(null).
ResetNothing(now) == now

\* The run in detail is closed.
ResetDetail(now) == Closed({"detail"}, now)

\* The effects that load: App's, and those of the panels if they are there.
LoadVersion(v) ==
    Loads(IF SignedIn THEN VersionLists \ {"detail"} ELSE {"features"},
          Authenticate(apiKey), v)

\* versionId becomes v, with the effects of App and of the panels. (A panel that is
\* mounted anew has nothing in it; one that stays keeps its lists until answered.)
SelectVersion(v, now, left, harm) ==
    /\ versionId' = v
    /\ disturbed' = IF v = versionId THEN harm ELSE harm \ VersionLists
    /\ \/ v = versionId /\ shown' = now /\ calls' = left /\ UNCHANGED triggering
       \/ /\ v = None /\ v # versionId
          /\ shown' = Closed(VersionLists, now)
          /\ calls' = Unmounted(left)
          /\ triggering' = FALSE
       \/ /\ v \notin {None, versionId}
          /\ shown' = ResetDetail(now)
          /\ calls' = left (+) LoadVersion(v)
          /\ UNCHANGED triggering

\* modelId becomes m: ModelSelector, if it is there, loads its versions.
LoadVersions(m) ==
    IF m \in {None, modelId} \/ ~SignedIn THEN EmptyBag
    ELSE Loads({"versions"}, Authenticate(apiKey), m)

Act == acts < MaxActs /\ acts' = acts + 1

Do == Act /\ BagCardinality(calls) <= MaxInFlight /\ UNCHANGED server

Choose == SignedIn /\ Do /\ UNCHANGED <<apiKey, switched>>

\* The user picks a model from the list that is shown; the version is reset.
PickModel(m) ==
    /\ Choose
    /\ m # modelId
    /\ m # None => m[1] = shown["models"].of /\ m[2] <= shown["models"].upTo
    /\ modelId' = m
    /\ SelectVersion(None,
          IF m = None THEN Closed({"versions"}, shown) ELSE shown,
          calls (+) LoadVersions(m), disturbed \ {"versions"})

\* The user picks a version from the list that is shown, whosever it is.
PickVersion(v) ==
    /\ Choose
    /\ modelId # None /\ v # versionId
    /\ v # None => v[1] = shown["versions"].of /\ v[2] <= shown["versions"].upTo
    /\ SelectVersion(v, shown, calls, disturbed)
    /\ UNCHANGED modelId
-----------------------------------------------------------------------------
(* Signing in and out.                                                     *)

\* AuthGate or ModelSelector is unmounted: its handlers go on, its loads show nothing.
Outlived(handlers, left) ==
    BagOfAll(LAMBDA c : [c EXCEPT !.live = @ /\ c.handler \notin handlers],
             [c \in {d \in BagToSet(left) : d.handler \notin handlers \cap Lists} |-> left[c]])

\* setApiKey and onAuthenticated. Whoever was signed out gets the dashboard, with
\* what is selected by then; whoever is signed in keeps what is shown.
Enter(k, left) ==
    LET u == Authenticate(k) IN
    /\ apiKey' = k
    /\ \/ /\ SignedIn
          /\ calls' = left
          /\ switched' = (switched \/ keyOf[k] # User)
          /\ disturbed' = IF keyOf[k] # User THEN disturbed \cup {"models"} ELSE disturbed
       \/ /\ ~SignedIn
          /\ calls' = Outlived({"signup"}, left) (+) Loads({"models"}, u, None)
                (+) (IF modelId = None THEN EmptyBag ELSE Loads({"versions"}, u, modelId))
                (+) (IF versionId = None THEN EmptyBag
                     ELSE Loads(PanelLists \ {"detail"}, u, versionId))
          /\ UNCHANGED <<switched, disturbed>>
    /\ UNCHANGED <<modelId, versionId, shown, triggering>>

\* Any text will do for a key; nobody checks it before it is used.
UseExistingKey(k) == ~SignedIn /\ Do /\ Enter(k, calls)

SignUp(u) ==
    /\ ~SignedIn /\ Do
    /\ ~\E c \in BagToSet(calls) : c.handler = "signup" /\ c.live   \* loading
    /\ calls' = BagAdd(calls, Call("signup", None, u, None))
    /\ UNCHANGED view

\* All but App is unmounted.
Logout ==
    /\ SignedIn /\ Do
    /\ apiKey' = None
    /\ modelId' = None
    /\ SelectVersion(None, Closed(PanelLists \cup SelectorLists, shown),
          Outlived(SelectorHandlers, calls), disturbed \ SelectorLists)
    /\ switched' = FALSE

\* The page is loaded again. What its handlers still commit is as if done elsewhere.
Reload ==
    /\ Do
    /\ modelId' = None /\ versionId' = None
    /\ shown' = Closed(Lists, shown)
    /\ triggering' = FALSE
    /\ calls' = IF SignedIn THEN Loads({"models"}, Authenticate(apiKey), None) ELSE EmptyBag
    /\ disturbed' = {} /\ switched' = FALSE
    /\ UNCHANGED apiKey
-----------------------------------------------------------------------------
(* The user's clicks. Each starts a handler.                               *)

Start(handler, owner, item) ==
    /\ Choose
    /\ calls' = BagAdd(calls, Call(handler, Authenticate(apiKey), owner, item))
    /\ UNCHANGED <<modelId, versionId, shown, disturbed>>

\* Mutant: the button is not disabled.
TriggerCheckAnyTime ==
    /\ versionId # None
    /\ triggering' = TRUE
    /\ Start("check", versionId, 0)

TriggerCheck ==
    /\ versionId # None /\ ~triggering
    /\ triggering' = TRUE
    /\ Start("check", versionId, 0)

\* A row of the history, which may be another version's.
OpenRun(n) ==
    /\ versionId # None
    /\ Start("detail", shown["runs"].of, n)
    /\ UNCHANGED triggering

AddFeature == versionId # None /\ Start("addFeature", versionId, 0) /\ UNCHANGED triggering
AddVersion == modelId # None /\ Start("addVersion", modelId, 0) /\ UNCHANGED triggering
AddModel == Start("addModel", None, 0) /\ UNCHANGED triggering
-----------------------------------------------------------------------------
(* The server.                                                             *)

\* Keys are random: what somebody typed is no key that is issued later.
NewKey(k) == k # apiKey

\* Other windows, other users, the scheduler's jobs, and handlers nobody waits for.
Elsewhere ==
    /\ Act
    /\ \/ \E u \in Users : Registered(u) /\ CreateModel(u)
       \/ \E m \in Models : m[2] <= ListModels(m[1]) /\ CreateVersion(m)
       \/ \E v \in Versions : v[2] <= ListVersions(v[1]) /\ CreateDriftRun(v)
       \/ \E k \in Keys : NewKey(k) /\ ((\E u \in Users : CreateUser(u, k)) \/ CreateApiKey(k))
       \/ \E k \in Keys : RevokeApiKey(k)
    /\ UNCHANGED <<view, calls>>

\* Mutant: any user's key will do.
GrantedToAnyone(c) == c.handler = "signup" \/ c.by # None

\* A request is answered, not refused: 401 without a key that is good, 404 about what
\* is not the user's, 409 for a known e-mail address.
Granted(c) ==
    IF c.handler = "signup" THEN ~Registered(c.of)
    ELSE /\ c.by # None
         /\ c.of \in Models => OwnsModel(c.by, c.of)
         /\ c.of \in Versions => OwnsVersion(c.by, c.of)

\* A POST takes effect; its answer, with what was made, is on the way.
Posted(c, made) ==
    calls' = BagAdd(BagRemove(calls, c), [c EXCEPT !.awaits = Tail(@), !.item = made])

CommitCheck(c) ==
    c.handler = "check" /\ CreateDriftRun(c.of) /\ Posted(c, ListDriftRuns(c.of) + 1)

CommitFeature(c) == c.handler = "addFeature" /\ Posted(c, 0) /\ UNCHANGED server

CommitVersion(c) ==
    /\ c.handler = "addVersion"
    /\ CreateVersion(c.of) /\ Posted(c, <<c.of, ListVersions(c.of) + 1>>)

CommitModel(c) ==
    /\ c.handler = "addModel"
    /\ CreateModel(c.by) /\ Posted(c, <<c.by, ListModels(c.by) + 1>>)

CommitUser(c) ==
    /\ c.handler = "signup"
    /\ \E k \in Keys : NewKey(k) /\ CreateUser(c.of, k) /\ Posted(c, k)

CommitPost(c) ==
    /\ Head(c.awaits) = "commit" /\ Granted(c)
    /\ \/ CommitCheck(c) \/ CommitFeature(c) \/ CommitVersion(c)
       \/ CommitModel(c) \/ CommitUser(c)
    /\ UNCHANGED <<view, acts>>
-----------------------------------------------------------------------------
(* Answers. The handler goes on to its next await, or to its end.          *)

\* An answer that is not about the selection, or is overtaken by a newer one.
Stale(list, owner, upTo) ==
    \/ owner # Selected(list)
    \/ list # "detail" /\ owner = shown[list].of /\ upTo < shown[list].upTo

\* With what is shown now, c goes on: its next request is sent, or it ends (the cases
\* are handleTrigger, handleCreateVersion, handleCreateModel, handleSignup, and others).
GoOn(c, now, harm) ==
    LET left == BagRemove(calls, c)
        next == Send([c EXCEPT !.awaits = Tail(@)], Authenticate(apiKey))
    IN  /\ \/ /\ Len(c.awaits) > 1
              /\ shown' = now /\ disturbed' = harm
              /\ calls' = BagAdd(left, next)
              /\ UNCHANGED <<apiKey, switched, modelId, versionId, triggering>>
           \/ /\ Len(c.awaits) = 1 /\ c.handler = "check"
              /\ shown' = [now EXCEPT !["detail"] = [of |-> c.of, upTo |-> c.item]]
              /\ disturbed' = IF c.of # versionId THEN harm \cup {"detail"} ELSE harm
              /\ calls' = left /\ triggering' = FALSE
              /\ UNCHANGED <<apiKey, switched, modelId, versionId>>
           \/ /\ Len(c.awaits) = 1 /\ c.handler = "addVersion"
              /\ SelectVersion(c.item, now, left, harm)
              /\ UNCHANGED <<apiKey, switched, modelId>>
           \/ /\ Len(c.awaits) = 1 /\ c.handler = "addModel"
              /\ modelId' = c.item
              /\ shown' = now /\ calls' = left (+) LoadVersions(c.item)
              /\ disturbed' = IF c.item = modelId THEN harm ELSE harm \ {"versions"}
              /\ UNCHANGED <<apiKey, switched, versionId, triggering>>
           \/ Len(c.awaits) = 1 /\ c.handler = "signup" /\ Enter(c.item, left)
           \/ /\ Len(c.awaits) = 1 /\ c.handler \in Lists \cup {"addFeature"}
              /\ shown' = now /\ calls' = left /\ disturbed' = harm
              /\ UNCHANGED <<apiKey, switched, modelId, versionId, triggering>>
        /\ UNCHANGED server

Show(c, list, owner, upTo) ==
    IF c.live
    THEN GoOn(c, [shown EXCEPT ![list] = [of |-> owner, upTo |-> upTo]],
              IF Stale(list, owner, upTo) THEN disturbed \cup {list} ELSE disturbed)
    ELSE GoOn(c, shown, disturbed)

\* A run is opened.
AnswerDetail(c) ==
    Head(c.awaits) = "detail" /\ Granted(c) /\ Show(c, "detail", c.of, c.item)

AnswerList(c) ==
    LET list == Head(c.awaits) IN
    /\ list \in Lists \ {"detail"} /\ Granted(c)
    /\ \E upTo \in c.from..Stored(list, c.by, c.of) :
          Show(c, list, IF list = "models" THEN c.by ELSE c.of, upTo)

Answer(c) ==
    /\ \/ Head(c.awaits) = "reply" /\ GoOn(c, shown, disturbed)
       \/ AnswerDetail(c) \/ AnswerList(c)
    /\ UNCHANGED acts

\* Mutant: setTriggering(false) is not in a finally.
ThrowPastTheEnd(c) ==
    /\ calls' = BagRemove(calls, c)
    /\ UNCHANGED <<server, view>>

\* A request fails. The loads catch it and the handler goes on; a POST throws, and
\* handleTrigger alone has a finally that matters; nobody catches a failed
\* handleSelectRun.
Throw(c) ==
    /\ calls' = BagRemove(calls, c)
    /\ triggering' = (triggering /\ c.handler # "check")
    /\ UNCHANGED <<server, apiKey, switched, modelId, versionId, shown, disturbed>>

Failed(c) ==
    LET await == Head(c.awaits) IN
    \/ await \in {"commit", "reply", "detail"} /\ Throw(c)
    \/ /\ await \in {"models", "panel", "runs", "alerts", "versions"}
       /\ GoOn(c, shown, IF c.live THEN disturbed \cup {await} ELSE disturbed)
    \/ /\ await = "features"
       /\ GoOn(c, Closed({"features"}, shown), disturbed \cup {"features"})

Fail(c) == Act /\ Failed(c)

Refuse(c) == Head(c.awaits) # "reply" /\ ~Granted(c) /\ Failed(c) /\ UNCHANGED acts

Handle(c) == CommitPost(c) \/ Answer(c) \/ Refuse(c) \/ Fail(c)
-----------------------------------------------------------------------------
Next ==
    \/ \E m \in Models \cup {None} : PickModel(m)
    \/ \E v \in Versions \cup {None} : PickVersion(v)
    \/ TriggerCheck \/ AddFeature \/ AddVersion \/ AddModel
    \/ \E n \in 1..shown["runs"].upTo : OpenRun(n)
    \/ \E k \in Keys : UseExistingKey(k)
    \/ \E u \in Users : SignUp(u)
    \/ Logout \/ Reload
    \/ Elsewhere
    \/ \E c \in BagToSet(calls) : Handle(c)

Spec == Init /\ [][Next]_vars

\* The requests of a check are answered, or fail, in the end.
CheckGoesOn == \E c \in BagToSet(calls) : c.handler = "check" /\ Handle(c)

FairSpec == Spec /\ WF_vars(CheckGoesOn)
-----------------------------------------------------------------------------
Asked(list) == \E c \in BagToSet(calls) : c.live /\ Head(c.awaits) = list

Mounted(list) == SignedIn \/ list = "features"

\* Once it is answered, every list is about the selection, and the run in detail is
\* one of the selected version's or none: what is left of an earlier selection is
\* left by a failed request, or by an answer that came after the selection changed.
\* DriftDashboard.tsx:49, FeaturesAndReference.tsx:21, App.tsx:15, ModelSelector.tsx:34.
ShownIsSelected ==
    \A list \in Lists : Mounted(list) /\ list \notin disturbed /\ ~Asked(list) =>
        \/ shown[list].of = Selected(list)
        \/ list = "detail" /\ shown[list] = Nobody

OwnedBy(u, of) ==
    \/ of \in {None, u}
    \/ of \in Models /\ OwnsModel(u, of)
    \/ of \in Versions /\ OwnsVersion(u, of)

\* Whatever is selected, by handlers that outlive a log-out for one, and however late
\* the answers: what the selector and the panels show belongs to whose key the browser
\* has, unless a sign-up's answer put another key under them (AuthGate.tsx:17). App's
\* own list of features is used to name the features of the panels only.
ShownIsOwn ==
    \A list \in Lists \ {"features"} : switched \/ OwnedBy(User, shown[list].of)

\* The run in detail is in the history beside it, unless the history failed to load or
\* was overtaken: handleTrigger shows its run only after the history that has it.
DetailIsListed ==
    shown["detail"] # Nobody /\ {"runs", "detail"} \cap disturbed = {} /\ ~Asked("runs") =>
        /\ shown["runs"].of = shown["detail"].of
        /\ shown["detail"].upTo <= shown["runs"].upTo

\* Whatever fails, and whatever is selected meanwhile, the button can be used again.
ButtonComesBack == triggering ~> ~triggering
=============================================================================
