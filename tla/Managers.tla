------------------------------ MODULE Managers ------------------------------
(***************************************************************************)
(* automaton_manager and binding_manager, the helpers an automaton creates *)
(* to have automata created and bound: a binding manager observes the      *)
(* automaton managers whose handles it does not know yet, asks its owner to*)
(* bind once it knows both, and deletes itself when it fails or is unbound.*)
(* The owner keeps for each helper how far its request got; what the system*)
(* answers is left open.  A name is used again once its helper is deleted, *)
(* as an address is.                                                       *)
(***************************************************************************)
EXTENDS Naturals, FiniteSets

CONSTANTS
    AutomatonManagers,
    BindingManagers,
    Self,           \* the handle_manager of the owner, whose handle is known
    Binds            \* Binds[b]: the handle managers of b's output and of its input

ASSUME ManagersAssumption ==
    /\ Self \notin AutomatonManagers
    /\ Binds \in [BindingManagers -> [{"output", "input"} -> AutomatonManagers \cup {Self}]]

VARIABLES
    am,      \* am[a]: an automaton_manager, the observers it has, and its owner's sets
    bm,      \* bm[b]: a binding_manager with its two observers, and its owner's sets
    asked    \* asked[b]: how often the helper now called b was given to automaton::bind

managerVars == <<am, bm, asked>>

Sides == {"output", "input"}
Observers == BindingManagers \X Sides

\* A helper that does not exist (any more).
Deleted == [live |-> FALSE]

\* The stage of a helper: which of the owner's sets for requests it is in, and
\* ending: which of those for the opposite requests.
NewAutomatonManager ==
    [live |-> TRUE, state |-> "START", handle |-> FALSE,
     observers |-> {}, remove |-> {}, stage |-> "send", ending |-> "none"]

Known(side, b) == Binds[b][side] # Self => am[Binds[b][side]].handle

\* The handle manager of each end is there when the binding manager is made.
Referable(b) == \A side \in Sides : Binds[b][side] # Self => am[Binds[b][side]].live

\* It takes the handles that are known, observes the other managers, and asks to
\* bind if nothing is missing.
NewBindingManager(b) ==
    LET known == {side \in Sides : Known(side, b)} IN
    [live |-> TRUE, state |-> "START", handles |-> known, observables |-> Sides \ known,
     stage |-> IF known = Sides THEN "send" ELSE "none", ending |-> "none"]

ManagersInit ==
    /\ am = [a \in AutomatonManagers |-> Deleted]
    /\ bm = [b \in BindingManagers |-> Deleted]
    /\ asked = [b \in BindingManagers |-> 0]
-----------------------------------------------------------------------------
\* What observe() leaves of b when a, which had the handle if given, notifies: the
\* handle is set, to -1 if there is none, the manager is observed no more, and the
\* owner is asked to bind when both handles are there.
Observed(a, given, b) ==
    LET sides == {side \in Sides : <<b, side>> \in am[a].observers}
        handles == IF given THEN bm[b].handles \cup sides ELSE bm[b].handles \ sides
        bind == sides # {} /\ handles = Sides
    IN  IF sides = {} THEN bm[b]
        ELSE [bm[b] EXCEPT !.handles = handles, !.observables = @ \ sides,
                           !.stage = IF bind THEN "send" ELSE @]

\* notify_observers(): the removals asked for while it runs are applied afterwards,
\* together with those of every notification before.
NotifyObservers(a, given) ==
    /\ bm' = [b \in BindingManagers |-> Observed(a, given, b)]
    /\ asked' = [b \in BindingManagers |->
                   IF bm'[b].live /\ bm[b].stage = "none" /\ bm'[b].stage = "send"
                   THEN asked[b] + 1 ELSE asked[b]]

AfterNotifyKeeping(r) == [r EXCEPT !.remove = @ \cup r.observers]  \* mutant
AfterNotify(r) ==
    LET remove == r.remove \cup r.observers
    IN  [r EXCEPT !.observers = @ \ remove, !.remove = remove]

\* The manager goes, without a handle, after it told its observers.
DeleteManager(a) ==
    /\ NotifyObservers(a, FALSE)
    /\ am' = [am EXCEPT ![a] = Deleted]

MakeAutomatonManager(a) ==
    /\ ~am[a].live
    /\ am' = [am EXCEPT ![a] = NewAutomatonManager]
    /\ UNCHANGED <<bm, asked>>

SendCreate(a) ==
    /\ am[a].live /\ am[a].stage = "send"
    /\ am' = [am EXCEPT ![a].stage = "recv"]
    /\ UNCHANGED <<bm, asked>>

\* created(): the handle is given to those that wait for it.
Created(a) ==
    /\ am[a].live /\ am[a].stage = "recv"
    /\ NotifyObservers(a, TRUE)
    /\ am' = [am EXCEPT ![a] = AfterNotify([@ EXCEPT !.state = "CREATED", !.handle = TRUE,
                                                     !.stage = "done"])]

InstanceExists(a) ==
    /\ am[a].live /\ am[a].stage = "recv"
    /\ DeleteManager(a)

\* destroy(): a request that was not sent is withdrawn.
DestroyManaged(a) ==
    /\ am[a].live /\ am[a].ending = "none"
    /\ \/ am[a].stage = "send" /\ DeleteManager(a)
       \/ /\ am[a].stage # "send"
          /\ am' = [am EXCEPT ![a].ending = "send"]
          /\ UNCHANGED <<bm, asked>>

SendDestroy(a) ==
    /\ am[a].live /\ am[a].ending = "send" /\ am[a].stage = "done"
    /\ am' = [am EXCEPT ![a].ending = "recv"]
    /\ UNCHANGED <<bm, asked>>

\* destroyed(): by request, or because the automaton ended otherwise.
Destroyed(a) ==
    /\ am[a].live /\ am[a].stage = "done"
    /\ DeleteManager(a)
-----------------------------------------------------------------------------
\* The observers of b are destroyed with it and take themselves off the managers
\* they still observe.
DeleteBindingManager(b) ==
    /\ bm' = [bm EXCEPT ![b] = Deleted]
    /\ asked' = [asked EXCEPT ![b] = 0]
    /\ am' = [a \in AutomatonManagers |->
                IF am[a].live
                THEN [am[a] EXCEPT !.observers = @ \ {<<b, side>> : side \in bm[b].observables}]
                ELSE am[a]]

MakeBindingManager(b) ==
    LET r == NewBindingManager(b) IN
    /\ ~bm[b].live
    /\ Referable(b)
    /\ bm' = [bm EXCEPT ![b] = r]
    /\ asked' = [asked EXCEPT ![b] = IF r.stage = "send" THEN 1 ELSE 0]
    /\ am' = [a \in AutomatonManagers |->
                IF am[a].live
                THEN [am[a] EXCEPT !.observers =
                        @ \cup {<<b, side>> : side \in {s \in r.observables : Binds[b][s] = a}}]
                ELSE am[a]]

SendBind(b) ==
    /\ bm[b].live /\ bm[b].stage = "send"
    /\ bm' = [bm EXCEPT ![b].stage = "recv"]
    /\ UNCHANGED <<am, asked>>

Bound(b) ==
    /\ bm[b].live /\ bm[b].stage = "recv"
    /\ bm' = [bm EXCEPT ![b].stage = "done", ![b].state = "BOUND"]
    /\ UNCHANGED <<am, asked>>

\* bound() with a failure.
BindFails(b) ==
    /\ bm[b].live /\ bm[b].stage = "recv"
    /\ DeleteBindingManager(b)

\* unbind(): what has not been asked for, or not been sent, is given up at once.
UnbindManaged(b) ==
    /\ bm[b].live /\ bm[b].ending = "none"
    /\ \/ (bm[b].handles # Sides \/ bm[b].stage = "send") /\ DeleteBindingManager(b)
       \/ /\ bm[b].handles = Sides /\ bm[b].stage # "send"
          /\ bm' = [bm EXCEPT ![b].ending = "send"]
          /\ UNCHANGED <<am, asked>>

SendUnbind(b) ==
    /\ bm[b].live /\ bm[b].ending = "send" /\ bm[b].stage = "done"
    /\ bm' = [bm EXCEPT ![b].ending = "recv"]
    /\ UNCHANGED <<am, asked>>

\* unbound(): by request, or because one of the automata is gone.
Unbound(b) ==
    /\ bm[b].live /\ bm[b].stage = "done"
    /\ DeleteBindingManager(b)

ManagersSteps ==
    \/ \E a \in AutomatonManagers :
        SendCreate(a) \/ Created(a) \/ InstanceExists(a) \/ SendDestroy(a)
    \/ \E b \in BindingManagers : SendBind(b) \/ Bound(b) \/ BindFails(b) \/ SendUnbind(b)

ManagersInputs ==
    \/ \E a \in AutomatonManagers : MakeAutomatonManager(a) \/ DestroyManaged(a) \/ Destroyed(a)
    \/ \E b \in BindingManagers : MakeBindingManager(b) \/ UnbindManaged(b) \/ Unbound(b)

ManagersSpec == ManagersInit /\ [][ManagersSteps \/ ManagersInputs]_managerVars
-----------------------------------------------------------------------------
Stages == {"none", "send", "recv", "done"}

ManagersTypeOK ==
    /\ \A a \in AutomatonManagers :
         am[a] = Deleted \/ am[a] \in [live : {TRUE}, state : {"START", "CREATED"}, handle : BOOLEAN,
                                       observers : SUBSET Observers, remove : SUBSET Observers,
                                       stage : Stages \ {"none"}, ending : Stages \ {"done"}]
    /\ \A b \in BindingManagers :
         bm[b] = Deleted \/ bm[b] \in [live : {TRUE}, state : {"START", "BOUND"},
                                       handles : SUBSET Sides, observables : SUBSET Sides,
                                       stage : Stages, ending : Stages \ {"done"}]
    /\ asked \in [BindingManagers -> 0..2]

\* A binding manager asks its owner to bind at most once, as soon as it knows both
\* handles and not before: the owner's bind and unbind assert as much.
AsksToBindOnce ==
    \A b \in BindingManagers :
        /\ asked[b] <= 1
        /\ bm[b].live => (asked[b] = 1 <=> bm[b].handles = Sides)
        /\ bm[b].live => (asked[b] = 1 <=> bm[b].stage # "none")

\* An automaton manager has as observers exactly those that observe it, all of them
\* alive, and only while its handle is unknown: no notification calls a deleted
\* observer or misses one, though removals outlive the notification they were made in.
ObserversAgree ==
    \A a \in AutomatonManagers : am[a].live =>
        /\ \A o \in am[a].observers :
             /\ ~am[a].handle /\ bm[o[1]].live
             /\ o[2] \in bm[o[1]].observables /\ Binds[o[1]][o[2]] = a
        /\ \A b \in BindingManagers : bm[b].live =>
             \A side \in bm[b].observables :
                Binds[b][side] = a => <<b, side>> \in am[a].observers
=============================================================================
