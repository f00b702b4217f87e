------------------------------- MODULE Portal -------------------------------
(***************************************************************************)
(* The portal at work: a user follows a link to a screen, uses one of its  *)
(* controls on an object, and the API serves the calls, while other users, *)
(* executors and jobs move the object and change the user's role.          *)
(*                                                                         *)
(* A behaviour takes one link and one control (or none) of the screen it   *)
(* leads to.  An answer may be lost, and a call whose answer was given up  *)
(* may still be served later, or at the same time as its repetition.  A    *)
(* resubmission after a failure is the same intent of the user; a          *)
(* submission after a success, or on a page opened again, is another.  A   *)
(* component's idempotency key is that of the time the component was       *)
(* mounted or of the call, as its record says.                             *)
(***************************************************************************)
EXTENDS Sequences, PortalScreens

CONSTANTS
    MaxCalls,    \* bound on the calls of a behaviour
    MaxMounts,   \* bound on the visits of the screen
    MaxMoves     \* bound on the moves of others

ASSUME PortalAssumption == MaxCalls \in Nat /\ MaxMounts \in Nat /\ MaxMoves \in Nat

VARIABLES
    link,        \* the link followed
    control,     \* the name of the control used on the screen it leads to, or "none"
    role,        \* the user's role, as the API has it
    shell,       \* the role the layout was rendered with
    page,        \* the role the page was rendered with
    obj,         \* the state of the object
    seen,        \* the state the page shows
    at,          \* where the user is
    dialog,      \* the dialog or the form of the control
    mount,       \* how often the screen was opened
    calls,       \* the calls made
    reqs,        \* the maker-checker requests filed by them
    effects,     \* how often each intent took effect
    recorded,    \* the idempotency keys recorded by calls
    moves,       \* how often others interfered
    moved,       \* whether they did since the page was rendered
    refreshing   \* whether router.refresh() is under way

what == <<link, control>>
vars == <<link, control, role, shell, page, obj, seen, at, dialog, mount, calls,
          reqs, effects, recorded, moves, moved, refreshing>>

screen == IF link.from = "area" THEN AreaScreens[link.to] ELSE PlatformScreens[link.to]

\* A screen looked at only.
NoControl == Control("account", "open", {}, PreferencesPut)
Ctl == IF control = "none" THEN NoControl ELSE Controls[control]
Op == Ctl.calls

\* A form that creates a row under a natural key.
Creates == Op.accepts = {"absent"}

OnPage == Ctl.steps \in {"page", "page_confirm"}
Intents == 1..MaxCalls

-----------------------------------------------------------------------------
(* The browser: pages and dialogs. *)

\* What rendering the page comes to: requirePlatformPermission redirects, a
\* refused read makes a page of nothing, and a page that is a form for a state
\* the object is not in is answered by notFound() or a redirect.
Rendered ==
    IF ~UserHasPermission(role, screen.guard) THEN "denied"
    ELSE IF ~AtLeast(role, screen.reads) THEN screen.refused
    ELSE IF OnPage /\ obj \notin Ctl.offered THEN "away"
    ELSE "page"

\* The user follows the link, shown under the role the layout knows.
Visit ==
    /\ at = "away"
    /\ mount < MaxMounts
    /\ UserHasPermission(shell, link.perm)
    /\ at' = Rendered
    /\ mount' = mount + 1
    /\ page' = role
    /\ seen' = obj
    /\ moved' = FALSE
    /\ dialog' = IF Rendered = "page" /\ OnPage THEN "form" ELSE "closed"
    /\ UNCHANGED <<what, role, shell, obj, calls, reqs, effects, recorded, moves, refreshing>>

\* Mutant: the dialog stays when its page goes.
LeaveKeepingDialog ==
    /\ at # "away"
    /\ at' = "away"
    /\ refreshing' = FALSE
    /\ UNCHANGED <<what, role, shell, page, obj, seen, dialog, mount, calls, reqs, effects,
                   recorded, moves, moved>>

\* The user goes elsewhere; calls under way go on.
Leave ==
    /\ at # "away"
    /\ at' = "away"
    /\ dialog' = "closed"
    /\ refreshing' = FALSE
    /\ UNCHANGED <<what, role, shell, page, obj, seen, mount, calls, reqs, effects,
                   recorded, moves, moved>>

\* Whether a page rendered with this role and state offers the control.
Offered(as, state) == UserHasPermission(as, Ctl.perm) /\ state \in Ctl.offered

Shown == at = "page" /\ Offered(page, seen)

Open ==
    /\ Shown
    /\ dialog = "closed"
    /\ Ctl.steps \in {"form", "confirm", "form_confirm"}
    /\ dialog' = IF Ctl.steps = "confirm" THEN "confirm" ELSE "form"
    /\ UNCHANGED <<what, role, shell, page, obj, seen, at, mount, calls, reqs, effects,
                   recorded, moves, moved, refreshing>>

\* The form is valid; its values wait for the confirmation.
Ask ==
    /\ dialog = "form"
    /\ Ctl.steps \in {"form_confirm", "page_confirm"}
    /\ dialog' = "confirm"
    /\ UNCHANGED <<what, role, shell, page, obj, seen, at, mount, calls, reqs, effects,
                   recorded, moves, moved, refreshing>>

\* Escape, the overlay or a cancel button, also while a call is out.
Dismiss ==
    /\ \/ dialog = "confirm"
       \/ dialog = "form" /\ ~OnPage
    /\ dialog' = IF OnPage THEN "form" ELSE "closed"
    /\ UNCHANGED <<what, role, shell, page, obj, seen, at, mount, calls, reqs, effects,
                   recorded, moves, moved, refreshing>>

-----------------------------------------------------------------------------
(* The browser: calls. *)

\* isPending of the component's mutation.
Busy == \E i \in DOMAIN calls : calls[i].mount = mount /\ calls[i].cli = "waiting"

\* The user tries again what failed on this page, or means something new.
Intent ==
    LET n == Len(calls) IN
    IF n > 0 /\ calls[n].mount = mount /\ calls[n].cli = "failed" THEN calls[n].intent
    ELSE IF n = 0 THEN 1 ELSE calls[n].intent + 1

\* useState(() => crypto.randomUUID()), or the middleware's uuid for the call.
Key == IF Ctl.key = "mount" THEN <<"mount", mount>> ELSE <<"call", Len(calls) + 1>>

\* mutate: from the last step of the control, unless a call is out.
Submit ==
    /\ at = "page"
    /\ ~Busy
    /\ Len(calls) < MaxCalls
    /\ \/ Ctl.steps \in {"form", "page"} /\ dialog = "form"
       \/ Ctl.steps \in {"confirm", "form_confirm", "page_confirm"} /\ dialog = "confirm"
       \/ Ctl.steps = "button" /\ Shown
    /\ calls' = Append(calls, [intent |-> Intent, mount |-> mount, key |-> Key,
                               as |-> page, showing |-> seen,
                               srv |-> "sent", early |-> FALSE, answer |-> seen,
                               cli |-> "waiting"])
    /\ UNCHANGED <<what, role, shell, page, obj, seen, at, dialog, mount, reqs, effects,
                   recorded, moves, moved, refreshing>>

\* onSuccess: the dialog closes, a page form leads elsewhere or is ready again,
\* and the page is fetched again, or patched with the answer.  The callbacks of a
\* component that is gone still run; its own state is gone with it.
Succeed(i) ==
    LET here == calls[i].mount = mount /\ at = "page" IN
    /\ calls' = [calls EXCEPT ![i].cli = "done"]
    /\ at' = IF Ctl.done = "leave" /\ at # "away" THEN "away" ELSE at
    /\ dialog' = IF Ctl.done = "leave" THEN "closed"
                 ELSE IF here THEN (IF OnPage THEN "form" ELSE "closed")
                 ELSE dialog
    /\ seen' = IF Ctl.done = "patch" /\ here THEN calls[i].answer ELSE seen
    /\ refreshing' = IF Ctl.done = "refresh" THEN at = "page"
                     ELSE refreshing /\ at' = "page"

\* onError: a toast, and the dialog stays or closes.
Failed(i) ==
    /\ calls' = [calls EXCEPT ![i].cli = "failed"]
    /\ dialog' = IF Ctl.failed = "close" /\ calls[i].mount = mount THEN "closed" ELSE dialog
    /\ UNCHANGED <<at, seen, refreshing>>

\* Mutant: an answer that reports an error is not looked at.
ReturnUnchecked(i) ==
    /\ calls[i].cli = "waiting"
    /\ calls[i].srv # "sent"
    /\ Succeed(i)
    /\ UNCHANGED <<what, role, shell, page, obj, mount, reqs, effects, recorded, moves, moved>>

\* The answer arrives; res.error is thrown.
Return(i) ==
    /\ calls[i].cli = "waiting"
    /\ calls[i].srv # "sent"
    /\ IF calls[i].srv = "ok" THEN Succeed(i) ELSE Failed(i)
    /\ UNCHANGED <<what, role, shell, page, obj, mount, reqs, effects, recorded, moves, moved>>

\* The connection fails, before or after the call was served.
Lose(i) ==
    /\ calls[i].cli = "waiting"
    /\ calls[i].srv \in {"sent", "ok"}
    /\ Failed(i)
    /\ UNCHANGED <<what, role, shell, page, obj, mount, reqs, effects, recorded, moves, moved>>

\* router.refresh(): the layout and the page are rendered again on the server.
\* Components stay mounted; a control that is not offered any longer goes, and
\* its dialog with it unless it outlives it.
Rerender ==
    /\ refreshing
    /\ refreshing' = FALSE
    /\ shell' = role
    /\ page' = role
    /\ at' = Rendered
    /\ seen' = obj
    /\ moved' = FALSE
    /\ dialog' = IF at' = "page" /\ (OnPage \/ Ctl.outlives \/ Offered(role, obj)) THEN dialog
                 ELSE "closed"
    /\ UNCHANGED <<what, role, obj, mount, calls, reqs, effects, recorded, moves>>

-----------------------------------------------------------------------------
(* The API. *)

\* The object takes one of the states the operation leads to.
Becomes == IF Op.to = Kept THEN {obj} ELSE Op.to

\* What an intent did once more; writing the same values again is nothing more.
Effect(intent) ==
    [effects EXCEPT ![intent] = IF Op.once = "set" THEN 1 ELSE @ + 1]

\* A refusal is "stale" when the call came from a dialog that outlived its
\* control, or the page showed another role or state than the API has, or the
\* form is for a new row and its natural key is taken.
Refuse(i, stale) ==
    /\ calls' = [calls EXCEPT ![i].srv =
                   IF stale \/ ~Offered(calls[i].as, calls[i].showing) THEN "stale"
                   ELSE "refused"]
    /\ UNCHANGED <<obj, reqs, effects, recorded>>

\* The key is known: the first outcome is the answer.
Replay(i) ==
    /\ calls' = [calls EXCEPT ![i].srv = "ok", ![i].answer = obj]
    /\ UNCHANGED <<obj, reqs, effects, recorded>>

\* Other calls with this key that are under way may have looked it up already.
Overtaken(key) ==
    [j \in DOMAIN calls |->
        IF calls[j].srv = "sent" /\ calls[j].key = key
        THEN [calls[j] EXCEPT !.early = TRUE] ELSE calls[j]]

Accept(i, to) ==
    /\ calls' = [Overtaken(calls[i].key) EXCEPT ![i].srv = "ok", ![i].answer = to]
    /\ obj' = to
    /\ reqs' = IF Op.files THEN Append(reqs, [intent |-> calls[i].intent,
                                              key |-> calls[i].key, state |-> "pending",
                                              early |-> FALSE])
               ELSE reqs
    /\ effects' = IF Op.applies THEN Effect(calls[i].intent) ELSE effects
    /\ recorded' = IF Op.once \in {"key", "lookup"} THEN recorded \cup {calls[i].key}
                   ELSE recorded

\* The state is looked at once the row is locked, and then the operation runs.
Act(i) ==
    IF obj \notin Op.accepts THEN Refuse(i, calls[i].showing # obj \/ Creates)
    ELSE \E to \in (IF Op.applies THEN Becomes ELSE {obj}) : Accept(i, to)

\* Whether an executor has acted under the key.
Executed(key) == \E q \in DOMAIN reqs : reqs[q].key = key /\ reqs[q].state = "executed"

\* Whether looking the call's key up finds it.
Known(i) ==
    \/ Op.once \in {"key", "lookup"} /\ calls[i].key \in recorded
    \/ Op.once = "entry" /\ Executed(calls[i].key)

\* One call: the role dependency, the key, the state, then the operation.  A call
\* that looked its key up before another one recorded it goes on, and ends at the
\* unique column or, where there is none, acts again.
Serve(i) ==
    /\ calls[i].srv = "sent"
    /\ IF ~AtLeast(role, Op.role) THEN Refuse(i, calls[i].as # role)
       ELSE IF ~Known(i) THEN Act(i)
       ELSE \/ Replay(i)
            \/ calls[i].early /\ Op.once = "key" /\ Refuse(i, TRUE)
            \/ calls[i].early /\ Op.once = "lookup" /\ Act(i)
    /\ UNCHANGED <<what, role, shell, page, seen, at, dialog, mount, moves, moved, refreshing>>

\* Whether the executor of the request finds its work done, by the key.
Finds(q) ==
    /\ Op.once \in {"key", "lookup", "execution", "entry"}
    /\ Executed(reqs[q].key)

\* The quorum of a request is reached: its executor acts, or finds that one has acted
\* under the same key, or raises, and the request is done with either way.  An
\* executor that looked before the other one committed acts too where the key is
\* not unique.
Execute(q) ==
    /\ reqs[q].state = "pending"
    /\ reqs' = [p \in DOMAIN reqs |->
                  IF p = q THEN [reqs[p] EXCEPT !.state =
                      IF obj \in Op.runs THEN "executed" ELSE "execution_failed"]
                  ELSE IF reqs[p].state = "pending" /\ reqs[p].key = reqs[q].key
                  THEN [reqs[p] EXCEPT !.early = TRUE]
                  ELSE reqs[p]]
    /\ \/ /\ obj \in Op.runs
          /\ ~Finds(q) \/ (Op.once = "entry" /\ reqs[q].early)
          /\ obj' \in Becomes
          /\ effects' = Effect(reqs[q].intent)
       \/ /\ obj \notin Op.runs \/ Finds(q)
          /\ UNCHANGED <<obj, effects>>
    /\ moved' = TRUE
    /\ UNCHANGED <<what, role, shell, page, seen, at, dialog, mount, calls, recorded, moves,
                   refreshing>>

\* A checker rejects the request.
Reject(q) ==
    /\ reqs[q].state = "pending"
    /\ reqs' = [reqs EXCEPT ![q].state = "rejected"]
    /\ UNCHANGED <<what, role, shell, page, obj, seen, at, dialog, mount, calls, effects,
                   recorded, moves, moved, refreshing>>

\* Another user or a job moves the object.
Move ==
    /\ moves < MaxMoves
    /\ \E m \in Lives[Ctl.on].moves : m[1] = obj /\ obj' = m[2]
    /\ moves' = moves + 1
    /\ moved' = TRUE
    /\ UNCHANGED <<what, role, shell, page, seen, at, dialog, mount, calls, reqs, effects,
                   recorded, refreshing>>

\* A superuser changes the role of the platform user.
ChangeRole ==
    /\ moves < MaxMoves
    /\ link.from # "area"
    /\ \E r \in Roles \ {role} : role' = r
    /\ moves' = moves + 1
    /\ moved' = TRUE
    /\ UNCHANGED <<what, shell, page, obj, seen, at, dialog, mount, calls, reqs, effects,
                   recorded, refreshing>>

-----------------------------------------------------------------------------
AreaLink(name) == Link("area", name, "open")

\* The way to a platform screen that carries controls: the first of its links.
WayTo(name) ==
    LET ways == {l \in PlatformLinks \ NavActions : l.to = name} IN
    CHOOSE l \in ways : \A o \in ways : AtLeast(PermissionMinRole(l.perm), PermissionMinRole(o.perm))

\* The natural key of a row to be created is free at first.
Subjects ==
    IF Creates THEN {"absent"} ELSE Lives[Ctl.on].states

Init ==
    /\ \/ \E l \in PlatformLinks : link = l /\ control = "none"
       \/ \E name \in DOMAIN PlatformScreens : \E c \in PlatformScreens[name].controls :
            link = WayTo(name) /\ control = c
       \/ \E name \in DOMAIN AreaScreens : \E c \in AreaScreens[name].controls :
            link = AreaLink(name) /\ control = c
    /\ role \in (IF link.from = "area" THEN {"support"} ELSE Roles)
    /\ shell = role
    /\ page = role
    /\ obj \in Subjects
    /\ seen = obj
    /\ at = "away"
    /\ dialog = "closed"
    /\ mount = 0
    /\ calls = <<>>
    /\ reqs = <<>>
    /\ effects = [i \in Intents |-> 0]
    /\ recorded = {}
    /\ moves = 0
    /\ moved = FALSE
    /\ refreshing = FALSE

Next ==
    \/ Visit \/ Leave \/ Open \/ Ask \/ Dismiss \/ Submit \/ Rerender
    \/ \E i \in DOMAIN calls : Return(i) \/ Lose(i) \/ Serve(i)
    \/ \E q \in DOMAIN reqs : Execute(q) \/ Reject(q)
    \/ Move \/ ChangeRole

Spec == Init /\ [][Next]_vars

-----------------------------------------------------------------------------
(* Properties. *)

\* Controls whose key outlives a success: the next use on the same page sends it
\* again.
ReusesKey == Ctl.key = "mount" /\ Ctl.done # "leave"

\* Every variable keeps its shape, and a dialog is open on its page only.
TypeOK ==
    /\ role \in Roles /\ shell \in Roles /\ page \in Roles
    /\ obj \in Lives[Ctl.on].states /\ seen \in Lives[Ctl.on].states
    /\ at \in {"away", "page", "denied", "missing", "hollow"}
    /\ dialog \in {"closed", "form", "confirm"}
    /\ dialog # "closed" => at = "page"
    /\ mount \in 0..MaxMounts
    /\ Len(calls) <= MaxCalls
    /\ \A i \in DOMAIN calls :
         /\ calls[i].srv \in {"sent", "ok", "refused", "stale"}
         /\ calls[i].cli \in {"waiting", "done", "failed"}
    /\ \A q \in DOMAIN reqs : reqs[q].state \in
         {"pending", "executed", "execution_failed", "rejected"}
    /\ effects \in [Intents -> 0..MaxCalls]

Unprotected == {"retryProvisioning", "impersonate", "resetPassword", "createMember",
    "createSavingsProduct", "createShareProduct", "createLoanProduct", "memberApply",
    "writeOff", "writeOffLarge"}

\* What the user meant once is done at most once, however often answers are lost,
\* the form is sent again and given-up calls are served late or overlap their
\* repetition: by the key, by the executor's lookup, or by the state the first one
\* left (unless somebody else moved the object back).  The named controls have no
\* such protection, or one that a call passes when it overlaps.
AppliedOnce ==
    control \notin Unprotected =>
        \A i \in Intents : effects[i] > 1 =>
            (Op.once = "guard" \/ (Op.once = "lookup" /\ Op.applies)) /\ moves > 0

\* An operation that takes a unique idempotency key is carried out once for each
\* intent of the user, as a form that is sent again sends the same key.
RetryIsOneIntent == Op.once = "key" => \A i \in Intents : effects[i] <= 1

\* What a toast claims when a call has succeeded.
ToldTruth(i) ==
    LET filed == \E q \in DOMAIN reqs : reqs[q].intent = calls[i].intent IN
    CASE Ctl.says = "requested" -> filed
      [] Ctl.says = "executed" -> calls[i].answer = "executed"
      [] Ctl.says = "done" -> effects[calls[i].intent] > 0 /\ ~filed

Overstated == {"approvePlatform", "approveTenant", "editUserName"}

\* A toast that says done follows an effect of that very submission and no
\* request, and one that speaks of a request follows a request, although answers
\* are lost, keys replayed and requests executed or rejected meanwhile.  Forms
\* that reuse their key (FreshKeys), the votes (ExecutionIsTold) and the rename of
\* a user (RenameIsDirect) claim more than the API did.
ToldIsTrue ==
    ~ReusesKey /\ control \notin Overstated =>
        \A i \in DOMAIN calls : calls[i].cli = "done" => ToldTruth(i)

\* After a vote the user is told that the operation has been executed: it has.
ExecutionIsTold ==
    Ctl.says = "executed" => \A i \in DOMAIN calls : calls[i].cli = "done" => ToldTruth(i)

\* A change of the name alone is saved directly and files no approval request.
RenameIsDirect ==
    control = "editUserName" => \A i \in DOMAIN calls : calls[i].cli = "done" => ToldTruth(i)

\* Keys are made fresh for every use of a form: whoever is told that a payment,
\* a deposit or a withdrawal was taken can rely on it.
FreshKeys ==
    Ctl.key = "mount" =>
        \A i \in DOMAIN calls : calls[i].cli = "done" =>
            \/ effects[calls[i].intent] > 0
            \/ \E q \in DOMAIN reqs : reqs[q].intent = calls[i].intent

TooWide == {"cancelPlatform", "rejectPayment", "assignPlan", "verifyNow", "approvePlatform",
    "rejectPlatform", "approveTenant", "rejectTenant", "activateMember", "suspendMember",
    "exitMember", "cancelTenantRequest", "withdraw", "redeemShares", "purchaseShares",
    "disburse", "nominateGuarantors", "repay", "writeOff", "writeOffLarge", "restructure"}

\* A control that is shown works: the call of a page that shows what is the case
\* is not refused, neither for the user's role nor for the object's state, unless
\* a repetition of it has taken its key meanwhile.  The named controls are shown in
\* states, or to roles, that the API refuses.
RefusalHasCause ==
    (\E i \in DOMAIN calls : calls[i].srv = "refused") => control \in TooWide

\* An application that is approved and shown as such is disbursed when the button is
\* used, whatever its destination.
ApprovedIsDisbursed ==
    control = "disburse" => \A i \in DOMAIN calls : calls[i].srv # "refused"

\* Once every call the API carried out has been answered, and nobody else has
\* interfered since the page was rendered, the page shows the object as it is,
\* although the answer may be that of a call of an earlier visit.  A component
\* that only patches itself misses the answers of such calls.
PageIsCurrent ==
    at = "page" /\ ~refreshing /\ ~moved
      /\ (\A i \in DOMAIN calls : calls[i].srv = "ok" =>
            calls[i].cli = "done" /\ (Ctl.done = "patch" => calls[i].mount = mount))
      => seen = obj

LooseLinks ==
    NavActions \cup DashboardLinks
    \cup {Link("sidebar", "security", "settings.read"),
          Link("sidebar", "backups", "operations.read")}

\* A link that is shown opens its page, with the data the page is about, unless
\* the user's role changed since the layout was rendered.  The palette and the
\* dashboard ask for no permission, and two entries of the sidebar ask for less
\* than their pages need.
NoDeadLinks ==
    at \in {"denied", "missing", "hollow"} => moves > 0 \/ link \in LooseLinks

=============================================================================
