---------------------------- MODULE TypeExplorer ----------------------------
(***************************************************************************)
(* The layout and help logic of the Type Explorer page (TypeExplorer.js).  *)
(*                                                                         *)
(* The component keeps the client height and width of the document as     *)
(* React state (cltHeight, cltWidth).  An effect with no dependency list   *)
(* runs after every commit: its cleanup removes the resize listener of     *)
(* the previous commit, then it registers updateSize, a closure over the   *)
(* state of the render that created it, and calls it once.  updateSize     *)
(* stores the document size in the state and sizes the container div from *)
(* the cltHeight and cltWidth it closed over, i.e. those of its render,    *)
(* not the ones it has just set.  A second effect, run on the first commit *)
(* only, fetches the help markdown and stores it with setHelp; the help    *)
(* button and the modal's cancel and submit set helpStatus.                *)
(*                                                                         *)
(* React state updates are batched: a setState that changes the state      *)
(* schedules a render, a render commits and schedules the passive effects, *)
(* and React runs the pending effects before it renders again.  Each       *)
(* handler and each effect runs to completion on the event loop.           *)
(***************************************************************************)
EXTENDS Integers

CONSTANTS
    Heights,    \* values document.documentElement.clientHeight can take
    Widths,     \* values document.documentElement.clientWidth can take
    MaxMounts   \* bound on the number of times the explorer is mounted

ASSUME SizesAssumption ==
    /\ Heights \subseteq Nat /\ Heights # {}
    /\ Widths \subseteq Nat /\ Widths # {}
    /\ MaxMounts \in Nat \ {0}

Sizes == [h : Heights, w : Widths]

(* The style of a container div before updateSize has set it. *)
NoStyle == [h |-> -1, w |-> -1]

(* No effect has run yet, so there is no listener to clean up. *)
NoClosure == [h |-> -1, w |-> -1]

HelpStatuses == {"idle", "complete"}

(* The help fetch of one mount: not started, fetch pending, text being    *)
(* read, setHelp done while mounted, setHelp called after the unmount, or *)
(* rejected with no catch.                                                 *)
HelpStages == {"none", "fetching", "reading", "set", "late", "failed"}

VARIABLES
    doc,            \* the document's client size [h, w]
    clt,            \* the state [h |-> cltHeight, w |-> cltWidth]
    rendered,       \* the state the last committed render closed over
    container,      \* containerDiv.current.style height and width (numbers)
    listeners,      \* listeners[c]: how many updateSize closures over state c
                    \* window holds (a bag of closures)
    effect,         \* the closure the last effect run registered
    renderPending,  \* a state update is waiting to be rendered
    effectPending,  \* a committed render whose effects have not run yet
    resizePending,  \* a resize event is queued for dispatch
    helpStatus,     \* the helpStatus state
    help,           \* the help state: "" or the markdown text
    helpFetch,      \* helpFetch[m]: the stage of the help fetch of mount m
    mounted,        \* the explorer is mounted
    mounts          \* how many times the explorer has been mounted

vars == <<doc, clt, rendered, container, listeners, effect, renderPending,
          effectPending, resizePending, helpStatus, help, helpFetch, mounted, mounts>>

-----------------------------------------------------------------------------
(* workingHeight = cltHeight - 50 and workingWidth = cltWidth - 265. *)
Working(s) == [h |-> s.h - 50, w |-> s.w - 265]

(* window.addEventListener('resize', c) and removeEventListener: adding   *)
(* a new closure registers one more listener; removing one that is not    *)
(* registered does nothing.                                                *)
NoListeners == [c \in Sizes |-> 0]

AddListener(L, c) == [L EXCEPT ![c] = L[c] + 1]

RemoveListener(L, c) ==
    IF c \in DOMAIN L /\ L[c] > 0 THEN [L EXCEPT ![c] = L[c] - 1] ELSE L

Registered(L) == {c \in DOMAIN L : L[c] > 0}

(* The closure of the current mount's effect is the only listener. *)
RegisteredAlone ==
    listeners = IF effect = NoClosure THEN NoListeners
                ELSE AddListener(NoListeners, effect)

(* Mutant: updateSize stores the size as one new object each time, so     *)
(* every call changes the state and schedules a render.                    *)
UpdateSizeFreshObject(c) ==
    /\ clt' = doc
    /\ container' = Working(c)
    /\ renderPending' = TRUE

(* Mutant: updateSize sets the container but never stores the size. *)
UpdateSizeNoStateUpdate(c) ==
    /\ container' = Working(c)
    /\ UNCHANGED <<clt, renderPending>>

(* updateSize as closure c (made by a render whose state was c) runs it:   *)
(* setCltHeight and setCltWidth store the document size, a render is       *)
(* scheduled if that changes the state, and the container gets the size    *)
(* computed from c.  The two setState calls are taken as one update; from *)
(* a native resize listener React 16/17 renders after each of them, and    *)
(* the render in between only adds a step with half the new size.         *)
UpdateSize(c) ==
    /\ clt' = doc
    /\ container' = Working(c)
    /\ renderPending' = (renderPending \/ doc # clt)

(* A setState from a handler: a render is scheduled when the value changes. *)
SetState(var, val) ==
    /\ var' = val
    /\ renderPending' = (renderPending \/ val # var)

-----------------------------------------------------------------------------
Init ==
    /\ doc \in Sizes
    /\ clt = doc
    /\ rendered = doc
    /\ container = NoStyle
    /\ listeners = NoListeners
    /\ effect = NoClosure
    /\ renderPending = FALSE
    /\ effectPending = TRUE
    /\ resizePending = FALSE
    /\ helpStatus = "idle"
    /\ help = ""
    /\ helpFetch = [m \in 1..MaxMounts |-> "none"]
    /\ mounted = TRUE
    /\ mounts = 1

(* The user resizes the window; the browser queues a resize event. *)
Resize(s) ==
    /\ s # doc
    /\ doc' = s
    /\ resizePending' = TRUE
    /\ UNCHANGED <<clt, rendered, container, listeners, effect, renderPending,
                   effectPending, helpStatus, help, helpFetch, mounted, mounts>>

(* The resize event runs the listeners registered on window.  When more    *)
(* than one is registered their order is not kept: the container ends     *)
(* with the size of the closure that runs last.                            *)
DispatchResize ==
    /\ resizePending
    /\ resizePending' = FALSE
    /\ \/ /\ Registered(listeners) = {}
          /\ UNCHANGED <<clt, container, renderPending>>
       \/ \E c \in Registered(listeners) : UpdateSize(c)
    /\ UNCHANGED <<doc, rendered, listeners, effect, effectPending, helpStatus,
                   help, helpFetch, mounted, mounts>>

(* React renders the pending state update and commits it; the new render's *)
(* updateSize closes over the state it rendered.  Pending effects of the   *)
(* previous commit are run first.                                          *)
Render ==
    /\ mounted /\ renderPending /\ ~effectPending
    /\ rendered' = clt
    /\ renderPending' = FALSE
    /\ effectPending' = TRUE
    /\ UNCHANGED <<doc, clt, container, listeners, effect, resizePending,
                   helpStatus, help, helpFetch, mounted, mounts>>

(* The help effect: on the first commit of a mount only, start the fetch. *)
StartHelpFetch ==
    helpFetch' = IF helpFetch[mounts] = "none"
                 THEN [helpFetch EXCEPT ![mounts] = "fetching"]
                 ELSE helpFetch

(* Mutant: the effect's cleanup is lost, the previous listener stays. *)
RunEffectNoCleanup ==
    /\ mounted /\ effectPending
    /\ effectPending' = FALSE
    /\ listeners' = AddListener(listeners, rendered)
    /\ effect' = rendered
    /\ UpdateSize(rendered)
    /\ StartHelpFetch
    /\ UNCHANGED <<doc, rendered, resizePending, helpStatus, help, mounted, mounts>>

(* The passive effects of a commit: the cleanup of the previous resize     *)
(* effect removes its listener, the new one registers updateSize and calls *)
(* it; then the help effect runs if this is the mount's first commit.      *)
RunEffect ==
    /\ mounted /\ effectPending
    /\ effectPending' = FALSE
    /\ listeners' = AddListener(RemoveListener(listeners, effect), rendered)
    /\ effect' = rendered
    /\ UpdateSize(rendered)
    /\ StartHelpFetch
    /\ UNCHANGED <<doc, rendered, resizePending, helpStatus, help, mounted, mounts>>

(* displayHelp: the question-mark button opens the help modal. *)
DisplayHelp ==
    /\ mounted
    /\ SetState(helpStatus, "complete")
    /\ UNCHANGED <<doc, clt, rendered, container, listeners, effect,
                   effectPending, resizePending, help, helpFetch, mounted, mounts>>

(* cancelHelpModal: the modal's cancel button closes it. *)
CancelHelpModal ==
    /\ mounted
    /\ SetState(helpStatus, "idle")
    /\ UNCHANGED <<doc, clt, rendered, container, listeners, effect,
                   effectPending, resizePending, help, helpFetch, mounted, mounts>>

(* submitHelpModal: the modal's submit button closes it. *)
SubmitHelpModal ==
    /\ mounted
    /\ SetState(helpStatus, "idle")
    /\ UNCHANGED <<doc, clt, rendered, container, listeners, effect,
                   effectPending, resizePending, help, helpFetch, mounted, mounts>>

(* fetch(HelpMarkdown) of mount m resolves and res.text() is called. *)
HelpResponds(m) ==
    /\ helpFetch[m] = "fetching"
    /\ helpFetch' = [helpFetch EXCEPT ![m] = "reading"]
    /\ UNCHANGED <<doc, clt, rendered, container, listeners, effect, renderPending,
                   effectPending, resizePending, helpStatus, help, mounted, mounts>>

(* The fetch of mount m rejects; the chain has no catch. *)
HelpFails(m) ==
    /\ helpFetch[m] = "fetching"
    /\ helpFetch' = [helpFetch EXCEPT ![m] = "failed"]
    /\ UNCHANGED <<doc, clt, rendered, container, listeners, effect, renderPending,
                   effectPending, resizePending, helpStatus, help, mounted, mounts>>

(* Mutant: setHelp is given the response instead of the text it holds. *)
HelpTextNoRead(m) ==
    /\ helpFetch[m] = "reading"
    /\ IF mounted /\ m = mounts
       THEN /\ helpFetch' = [helpFetch EXCEPT ![m] = "set"]
            /\ SetState(help, "response")
       ELSE /\ helpFetch' = [helpFetch EXCEPT ![m] = "late"]
            /\ UNCHANGED <<help, renderPending>>
    /\ UNCHANGED <<doc, clt, rendered, container, listeners, effect,
                   effectPending, resizePending, helpStatus, mounted, mounts>>

(* The text arrives and setHelp({markdown: text}) runs.  It updates the    *)
(* state when mount m is the one on screen; otherwise it is a state update *)
(* on an unmounted component, which React drops.                           *)
HelpText(m) ==
    /\ helpFetch[m] = "reading"
    /\ IF mounted /\ m = mounts
       THEN /\ helpFetch' = [helpFetch EXCEPT ![m] = "set"]
            /\ SetState(help, "markdown")
       ELSE /\ helpFetch' = [helpFetch EXCEPT ![m] = "late"]
            /\ UNCHANGED <<help, renderPending>>
    /\ UNCHANGED <<doc, clt, rendered, container, listeners, effect,
                   effectPending, resizePending, helpStatus, mounted, mounts>>

(* The explorer is unmounted: the cleanup of its last resize effect        *)
(* removes the listener and a pending render is dropped.  React flushes    *)
(* the passive effects of the last commit before it commits the unmount,  *)
(* so none is pending then (the first commit's help fetch has started).   *)
Unmount ==
    /\ mounted /\ ~effectPending
    /\ mounted' = FALSE
    /\ listeners' = RemoveListener(listeners, effect)
    /\ effect' = NoClosure
    /\ renderPending' = FALSE
    /\ UNCHANGED <<doc, clt, rendered, container, effectPending, resizePending,
                   helpStatus, help, helpFetch, mounts>>

(* The explorer is mounted afresh: useState reads the document size, the   *)
(* div is new, and the first commit's effects are pending.                 *)
Mount ==
    /\ ~mounted /\ mounts < MaxMounts
    /\ mounted' = TRUE
    /\ mounts' = mounts + 1
    /\ clt' = doc
    /\ rendered' = doc
    /\ container' = NoStyle
    /\ effectPending' = TRUE
    /\ helpStatus' = "idle"
    /\ help' = ""
    /\ UNCHANGED <<doc, listeners, effect, renderPending, resizePending, helpFetch>>

UserEvent ==
    \/ \E s \in Sizes : Resize(s)
    \/ DisplayHelp \/ CancelHelpModal \/ SubmitHelpModal
    \/ Unmount \/ Mount

Next ==
    \/ UserEvent
    \/ DispatchResize \/ Render \/ RunEffect
    \/ \E m \in 1..MaxMounts : HelpResponds(m) \/ HelpFails(m) \/ HelpText(m)

(* The browser dispatches queued events and React flushes its work: the   *)
(* event loop runs every queued task.  The user and the network are not   *)
(* fair.                                                                   *)
Fairness ==
    /\ WF_vars(DispatchResize)
    /\ WF_vars(Render)
    /\ WF_vars(RunEffect)

Spec == Init /\ [][Next]_vars

FairSpec == Spec /\ Fairness

-----------------------------------------------------------------------------
TypeOK ==
    /\ doc \in Sizes /\ clt \in Sizes /\ rendered \in Sizes
    /\ container \in {Working(s) : s \in Sizes} \cup {NoStyle}
    /\ listeners \in [Sizes -> Nat]
    /\ effect \in Sizes \cup {NoClosure}
    /\ renderPending \in BOOLEAN /\ effectPending \in BOOLEAN
    /\ resizePending \in BOOLEAN /\ mounted \in BOOLEAN
    /\ helpStatus \in HelpStatuses /\ help \in {"", "markdown"}
    /\ helpFetch \in [1..MaxMounts -> HelpStages]
    /\ mounts \in 1..MaxMounts

(* The effect with no dependency list adds a listener after every commit:  *)
(* its cleanup must remove the previous one, and the unmount the last one, *)
(* so that window holds only the listener of the current commit's effect   *)
(* and none once the explorer is gone (a leaked one would dereference a    *)
(* null containerDiv on the next resize).                                  *)
OneListener ==
    /\ RegisteredAlone
    /\ ~mounted => listeners = NoListeners

(* The explorer has no work left: no resize event, render or effect queued. *)
Settled == mounted /\ ~resizePending /\ ~renderPending /\ ~effectPending

(* updateSize sizes the container from the state of its own render, one    *)
(* resize behind (TypeExplorer.js:80); the container still fits the window *)
(* whenever the explorer has settled, because the state change re-renders  *)
(* and the effect calls the new render's updateSize.                       *)
ContainerFitsWindow ==
    Settled => container = Working(doc)

(* Once the user stops acting, the explorer settles: the resize, render    *)
(* and effect cycle that updateSize starts ends.                           *)
EventuallySettles ==
    <>[][~UserEvent]_vars => <>[](mounted => Settled)

(* No state update reaches a mount of the explorer that is gone: the help  *)
(* fetch's setHelp runs only while its mount is on screen.                  *)
NoStateUpdateAfterUnmount ==
    \A m \in 1..MaxMounts : helpFetch[m] # "late"

=============================================================================
