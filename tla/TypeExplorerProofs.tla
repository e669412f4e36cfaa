------------------------- MODULE TypeExplorerProofs -------------------------
(***************************************************************************)
(* Proofs, for every set of window sizes, that the Type Explorer keeps one *)
(* resize listener and that its container fits the window once it has      *)
(* settled, although updateSize sizes it from the state of its own render. *)
(***************************************************************************)
EXTENDS TypeExplorer, TLAPS

(* TypeOK without the Boolean flags, which Zenon handles apart. *)
DataOK ==
    /\ doc \in Sizes /\ clt \in Sizes /\ rendered \in Sizes
    /\ container \in {Working(s) : s \in Sizes} \cup {NoStyle}
    /\ listeners \in [Sizes -> Nat]
    /\ effect \in Sizes \cup {NoClosure}
    /\ helpStatus \in HelpStatuses /\ help \in {"", "markdown"}
    /\ helpFetch \in [1..MaxMounts -> HelpStages]
    /\ mounts \in 1..MaxMounts

FlagsOK ==
    /\ renderPending \in BOOLEAN /\ effectPending \in BOOLEAN
    /\ resizePending \in BOOLEAN /\ mounted \in BOOLEAN

(* The chain of equalities behind ContainerFitsWindow.  With no effect     *)
(* pending, the registered closure is the last render's and the container  *)
(* has its size; with no render pending, that render saw the current state; *)
(* with no resize pending either, updateSize has stored the window size.   *)
FitInv ==
    /\ RegisteredAlone
    /\ ~mounted => effect = NoClosure
    /\ mounted /\ ~effectPending => effect = rendered /\ container = Working(rendered)
    /\ mounted /\ ~renderPending => clt = rendered
    /\ mounted /\ ~resizePending /\ ~effectPending => clt = doc

Inv == DataOK /\ FlagsOK /\ FitInv

-----------------------------------------------------------------------------
(* The closure marker and the style marker are no size: sizes are natural. *)
LEMMA NoClosureNotSize == NoClosure \notin Sizes
BY SizesAssumption DEF NoClosure, Sizes

(* The cleanup removes the one listener the window holds, if any. *)
LEMMA RemoveAlone ==
    ASSUME RegisteredAlone, effect \in Sizes \cup {NoClosure}
    PROVE  RemoveListener(listeners, effect) = NoListeners
<1>1. CASE effect = NoClosure
  BY <1>1, NoClosureNotSize DEF RegisteredAlone, RemoveListener, NoListeners
<1>2. CASE effect \in Sizes
  <2>1. listeners = AddListener(NoListeners, effect)
    BY <1>2, NoClosureNotSize DEF RegisteredAlone
  <2>2. QED
    BY <1>2, <2>1 DEF RemoveListener, AddListener, NoListeners
<1>3. QED
  BY <1>1, <1>2

(* Adding a listener to a window that holds none. *)
LEMMA AddOneType ==
    ASSUME NEW c \in Sizes
    PROVE  AddListener(NoListeners, c) \in [Sizes -> Nat]
BY DEF AddListener, NoListeners

LEMMA InitInv == Init => Inv
<1> SUFFICES ASSUME Init PROVE Inv
  OBVIOUS
<1>1. DataOK
  <2>1. doc \in Sizes /\ clt \in Sizes /\ rendered \in Sizes
    BY DEF Init
  <2>7. container \in {Working(s) : s \in Sizes} \cup {NoStyle}
    BY DEF Init
  <2>2. listeners \in [Sizes -> Nat] /\ effect \in Sizes \cup {NoClosure}
    BY DEF Init, NoListeners
  <2>3. helpStatus \in HelpStatuses /\ help \in {"", "markdown"}
    BY DEF Init, HelpStatuses
  <2>4. helpFetch \in [1..MaxMounts -> HelpStages]
    BY DEF Init, HelpStages
  <2>5. mounts \in 1..MaxMounts
    <3>1. mounts = 1
      BY Zenon DEF Init
    <3>2. QED
      BY <3>1, SizesAssumption
  <2>6. QED
    BY <2>1, <2>2, <2>3, <2>4, <2>5, <2>7 DEF DataOK
<1>2. FlagsOK
  BY Zenon DEF Init, FlagsOK
<1>3. RegisteredAlone
  BY Zenon DEF Init, RegisteredAlone
<1>4. FitInv
  BY <1>3, Zenon DEF Init, FitInv
<1>5. QED
  BY <1>1, <1>2, <1>4 DEF Inv

(* The window holds exactly the listener of the current effect, or none. *)
LEMMA RegisteredOne ==
    ASSUME NEW c \in Sizes
    PROVE  Registered(AddListener(NoListeners, c)) = {c}
BY DEF Registered, AddListener, NoListeners

LEMMA RegisteredNone == Registered(NoListeners) = {}
BY DEF Registered, NoListeners

(* The help effect keeps the fetch stages typed. *)
LEMMA StartHelpFetchType ==
    ASSUME helpFetch \in [1..MaxMounts -> HelpStages], mounts \in 1..MaxMounts,
           StartHelpFetch
    PROVE  helpFetch' \in [1..MaxMounts -> HelpStages]
BY DEF StartHelpFetch, HelpStages

(* A listener runs only while the explorer is mounted with its effect run. *)
LEMMA ListenerIsEffect ==
    ASSUME Inv, NEW c \in Registered(listeners)
    PROVE  mounted /\ effect \in Sizes /\ c = effect
<1>1. effect # NoClosure
  BY RegisteredNone, Zenon DEF Inv, FitInv, RegisteredAlone
<1>2. effect \in Sizes
  BY <1>1 DEF Inv, DataOK
<1>3. c = effect
  BY <1>1, <1>2, RegisteredOne, Zenon DEF Inv, FitInv, RegisteredAlone
<1>4. mounted
  BY <1>1, Zenon DEF Inv, FlagsOK, FitInv
<1>5. QED
  BY <1>2, <1>3, <1>4

-----------------------------------------------------------------------------
LEMMA ResizeInv ==
    ASSUME Inv, NEW s \in Sizes, Resize(s)
    PROVE  Inv'
<1>1. DataOK'
  BY DEF Inv, DataOK, Resize
<1>2. FlagsOK'
  BY Zenon DEF Inv, FlagsOK, Resize
<1>3. FitInv'
  BY Zenon DEF Inv, FitInv, RegisteredAlone, Resize
<1>4. QED
  BY <1>1, <1>2, <1>3 DEF Inv

LEMMA DispatchResizeInv ==
    ASSUME Inv, DispatchResize
    PROVE  Inv'
<1>1. CASE Registered(listeners) = {} /\ UNCHANGED <<clt, container, renderPending>>
  <2>1. mounted /\ ~effectPending => FALSE
    <3> SUFFICES ASSUME mounted, ~effectPending PROVE FALSE
      OBVIOUS
    <3>1. effect = rendered /\ rendered \in Sizes
      BY Zenon DEF Inv, DataOK, FitInv
    <3>2. listeners = AddListener(NoListeners, rendered)
      BY <3>1, NoClosureNotSize, Zenon DEF Inv, FitInv, RegisteredAlone
    <3>3. QED
      BY <1>1, <3>1, <3>2, RegisteredOne
  <2>2. DataOK'
    BY <1>1 DEF Inv, DataOK, DispatchResize
  <2>3. FlagsOK'
    BY <1>1, Zenon DEF Inv, FlagsOK, DispatchResize
  <2>4. FitInv'
    BY <1>1, <2>1, Zenon DEF Inv, FitInv, RegisteredAlone, DispatchResize
  <2>5. QED
    BY <2>2, <2>3, <2>4 DEF Inv
<1>2. CASE \E c \in Registered(listeners) : UpdateSize(c)
  <2>1. PICK c \in Registered(listeners) : UpdateSize(c)
    BY <1>2
  <2>2. mounted /\ effect \in Sizes /\ c = effect
    BY ListenerIsEffect
  <2>7. container' \in {Working(x) : x \in Sizes}
    BY <2>1, <2>2 DEF UpdateSize
  <2>3. DataOK'
    BY <2>1, <2>2, <2>7 DEF Inv, DataOK, DispatchResize, UpdateSize
  <2>4. FlagsOK'
    BY <2>1, Zenon DEF Inv, FlagsOK, DispatchResize, UpdateSize
  <2>5. FitInv'
    BY <2>1, <2>2, Zenon DEF Inv, FitInv, RegisteredAlone, DispatchResize, UpdateSize
  <2>6. QED
    BY <2>3, <2>4, <2>5 DEF Inv
<1>3. QED
  BY <1>1, <1>2 DEF DispatchResize

LEMMA RenderInv ==
    ASSUME Inv, Render
    PROVE  Inv'
<1>1. DataOK'
  BY DEF Inv, DataOK, Render
<1>2. FlagsOK'
  BY Zenon DEF Inv, FlagsOK, Render
<1>3. FitInv'
  BY Zenon DEF Inv, FitInv, RegisteredAlone, Render
<1>4. QED
  BY <1>1, <1>2, <1>3 DEF Inv

LEMMA RunEffectInv ==
    ASSUME Inv, RunEffect
    PROVE  Inv'
<1>1. listeners' = AddListener(NoListeners, rendered)
  BY RemoveAlone, Zenon DEF Inv, DataOK, FitInv, RunEffect
<1>2. DataOK'
  BY <1>1, AddOneType, StartHelpFetchType DEF Inv, DataOK, RunEffect, UpdateSize
<1>3. FlagsOK'
  BY Zenon DEF Inv, FlagsOK, RunEffect, UpdateSize
<1>4. rendered # NoClosure
  BY NoClosureNotSize DEF Inv, DataOK
<1>5. FitInv'
  BY <1>1, <1>4, Zenon DEF Inv, FitInv, RegisteredAlone, RunEffect, UpdateSize
<1>6. QED
  BY <1>2, <1>3, <1>5 DEF Inv

(* A handler's setState touches only its state and renderPending. *)
LEMMA HelpStatusInv ==
    ASSUME Inv, DisplayHelp \/ CancelHelpModal \/ SubmitHelpModal
    PROVE  Inv'
<1>1. /\ helpStatus' \in HelpStatuses
      /\ renderPending' = (renderPending \/ helpStatus' # helpStatus)
      /\ UNCHANGED <<doc, clt, rendered, container, listeners, effect,
                     effectPending, resizePending, help, helpFetch, mounted, mounts>>
  BY Zenon DEF DisplayHelp, CancelHelpModal, SubmitHelpModal, SetState, HelpStatuses
<1>2. DataOK'
  BY <1>1 DEF Inv, DataOK
<1>3. FlagsOK'
  BY <1>1, Zenon DEF Inv, FlagsOK
<1>4. FitInv'
  BY <1>1, Zenon DEF Inv, FitInv, RegisteredAlone
<1>5. QED
  BY <1>2, <1>3, <1>4 DEF Inv

LEMMA HelpFetchInv ==
    ASSUME Inv, NEW m \in 1..MaxMounts, HelpResponds(m) \/ HelpFails(m) \/ HelpText(m)
    PROVE  Inv'
<1>1. /\ helpFetch' \in [1..MaxMounts -> HelpStages]
      /\ help' \in {"", "markdown"}
      /\ renderPending => renderPending'
      /\ UNCHANGED <<doc, clt, rendered, container, listeners, effect,
                     effectPending, resizePending, helpStatus, mounted, mounts>>
  <2>1. PICK st \in HelpStages :
            /\ helpFetch' = [helpFetch EXCEPT ![m] = st]
            /\ help' \in {"", "markdown"}
            /\ renderPending => renderPending'
            /\ UNCHANGED <<doc, clt, rendered, container, listeners, effect,
                           effectPending, resizePending, helpStatus, mounted, mounts>>
    <3>1. CASE HelpResponds(m)
      <4>1. "reading" \in HelpStages
        BY DEF HelpStages
      <4>2. QED
        BY <3>1, <4>1, Zenon DEF Inv, DataOK, HelpResponds
    <3>4. CASE HelpFails(m)
      <4>1. "failed" \in HelpStages
        BY DEF HelpStages
      <4>2. QED
        BY <3>4, <4>1, Zenon DEF Inv, DataOK, HelpFails
    <3>2. CASE HelpText(m)
      BY <3>2, Zenon DEF Inv, DataOK, HelpText, SetState, HelpStages
    <3>3. QED
      BY <3>1, <3>2, <3>4
  <2>2. helpFetch' \in [1..MaxMounts -> HelpStages]
    BY <2>1 DEF Inv, DataOK
  <2>3. QED
    BY <2>1, <2>2
<1>2. DataOK'
  BY <1>1 DEF Inv, DataOK
<1>3. renderPending' \in BOOLEAN
  <2>1. CASE HelpResponds(m) \/ HelpFails(m)
    BY <2>1, Zenon DEF Inv, FlagsOK, HelpResponds, HelpFails
  <2>2. CASE HelpText(m)
    BY <2>2, Zenon DEF Inv, FlagsOK, HelpText, SetState
  <2>3. QED
    BY <2>1, <2>2
<1>4. FlagsOK'
  BY <1>1, <1>3, Zenon DEF Inv, FlagsOK
<1>5. FitInv'
  BY <1>1, Zenon DEF Inv, FitInv, RegisteredAlone
<1>6. QED
  BY <1>2, <1>4, <1>5 DEF Inv

LEMMA UnmountInv ==
    ASSUME Inv, Unmount
    PROVE  Inv'
<1>1. listeners' = NoListeners
  BY RemoveAlone, Zenon DEF Inv, DataOK, FitInv, Unmount
<1>2. effect' = NoClosure
      /\ UNCHANGED <<doc, clt, rendered, container, helpStatus, help, helpFetch, mounts>>
  BY Zenon DEF Unmount
<1>3. DataOK'
  BY <1>1, <1>2 DEF Inv, DataOK, NoListeners
<1>4. FlagsOK'
  BY Zenon DEF Inv, FlagsOK, Unmount
<1>5. FitInv'
  BY <1>1, Zenon DEF Inv, FitInv, RegisteredAlone, Unmount
<1>6. QED
  BY <1>3, <1>4, <1>5 DEF Inv

LEMMA MountInv ==
    ASSUME Inv, Mount
    PROVE  Inv'
<1>1. listeners = NoListeners /\ effect = NoClosure
  BY Zenon DEF Inv, FitInv, RegisteredAlone, Mount
<1>2. mounts' \in 1..MaxMounts
  <2>1. mounts \in 1..MaxMounts /\ mounts < MaxMounts /\ mounts' = mounts + 1
    BY Zenon DEF Inv, DataOK, Mount
  <2>2. QED
    BY <2>1, SizesAssumption
<1>3. DataOK'
  <2>1. /\ clt' = doc /\ rendered' = doc /\ helpStatus' = "idle" /\ help' = ""
        /\ container' = NoStyle
        /\ UNCHANGED <<doc, listeners, effect, helpFetch>>
    BY Zenon DEF Mount
  <2>2. QED
    BY <1>2, <2>1 DEF Inv, DataOK, HelpStatuses
<1>4. FlagsOK'
  BY Zenon DEF Inv, FlagsOK, Mount
<1>5. FitInv'
  BY <1>1, Zenon DEF Inv, FitInv, RegisteredAlone, Mount
<1>6. QED
  BY <1>3, <1>4, <1>5 DEF Inv

-----------------------------------------------------------------------------
LEMMA NextInv == Inv /\ [Next]_vars => Inv'
<1> SUFFICES ASSUME Inv, [Next]_vars PROVE Inv'
  OBVIOUS
<1>1. CASE \E s \in Sizes : Resize(s)
  BY <1>1, ResizeInv
<1>2. CASE DisplayHelp \/ CancelHelpModal \/ SubmitHelpModal
  BY <1>2, HelpStatusInv
<1>3. CASE Unmount
  BY <1>3, UnmountInv
<1>4. CASE Mount
  BY <1>4, MountInv
<1>5. CASE DispatchResize
  BY <1>5, DispatchResizeInv
<1>6. CASE Render
  BY <1>6, RenderInv
<1>7. CASE RunEffect
  BY <1>7, RunEffectInv
<1>8. CASE \E m \in 1..MaxMounts : HelpResponds(m) \/ HelpFails(m) \/ HelpText(m)
  BY <1>8, HelpFetchInv
<1>9. CASE UNCHANGED vars
  <2>1. DataOK' /\ FitInv'
    BY <1>9 DEF vars, Inv, DataOK, FitInv, RegisteredAlone
  <2>2. FlagsOK'
    BY <1>9, Zenon DEF vars, Inv, FlagsOK
  <2>3. QED
    BY <2>1, <2>2 DEF Inv
<1>10. QED
  BY <1>1, <1>2, <1>3, <1>4, <1>5, <1>6, <1>7, <1>8, <1>9 DEF Next, UserEvent

(* Inv holds in every state the explorer reaches. *)
LEMMA AlwaysInv == Spec => []Inv
BY InitInv, NextInv, PTL DEF Spec

(* Window holds only the resize listener of the explorer's current effect, *)
(* and none after the unmount: the cleanup of the effect with no           *)
(* dependency list and of the unmount (TypeExplorer.js:104-113) never leak *)
(* a listener, for every set of window sizes and number of mounts.         *)
THEOREM NoLeakedListener == Spec => []OneListener
<1>1. Inv => OneListener
  BY Zenon DEF Inv, FitInv, RegisteredAlone, OneListener
<1>2. QED
  BY <1>1, AlwaysInv, PTL

(* Whenever the explorer has settled, the container div fits the window,  *)
(* although updateSize (TypeExplorer.js:80) sizes it from the state of its *)
(* own render: for every set of window sizes and number of mounts.         *)
THEOREM FitsWindow == Spec => []ContainerFitsWindow
<1>1. Inv => ContainerFitsWindow
  <2> SUFFICES ASSUME Inv, Settled PROVE container = Working(doc)
    BY DEF ContainerFitsWindow
  <2>1. effect = rendered /\ container = Working(rendered) /\ clt = doc
        /\ clt = rendered
    BY Zenon DEF Inv, FitInv, Settled
  <2>2. QED
    BY <2>1, Zenon
<1>2. QED
  BY <1>1, AlwaysInv, PTL

(* The Type Explorer's state stays well typed: the container always has   *)
(* the style updateSize computes from some size, or none yet.              *)
THEOREM TypeCorrect == Spec => []TypeOK
<1>1. Inv => TypeOK
  BY DEF Inv, DataOK, FlagsOK, TypeOK
<1>2. QED
  BY <1>1, AlwaysInv, PTL

=============================================================================
