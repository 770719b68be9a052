--------------------------- MODULE WatchersProofs ---------------------------
(***************************************************************************)
(* Proofs about Watchers, for any windows, screens, devices, changes,      *)
(* starts and stops.                                                       *)
(***************************************************************************)
EXTENDS Watchers, TLAPS

-----------------------------------------------------------------------------
(***************************************************************************)
(* Audio devices and clipboard.  The invariant: no clipboard callback      *)
(* waits that was not registered by a start; the recorded devices are the  *)
(* ones of the uids, but for those that a rebuild that raised did not      *)
(* reach; once M.start has come to its end the audio watcher runs, and the *)
(* uids are the desired ones unless a notice is still to come.             *)
(***************************************************************************)
DefaultsRecorded ==
    clipboardActive => audioWatching /\ (notices = {} => audioDeviceUids = Desired)

UidsRecorded ==
    /\ audioDevices \subseteq audioDeviceUids
    /\ ~raised => audioDevices = audioDeviceUids

DevicesTyped ==
    /\ audioDevices \subseteq Device /\ audioDeviceUids \subseteq Device
    /\ attached \subseteq Device /\ failed \subseteq Device /\ raised \in BOOLEAN

DevicesOK == DevicesTyped /\ NoDeviceLeft /\ UidsRecorded

ObserversInv ==
    /\ TypeOK
    /\ DevicesOK
    /\ clipboardWaits <= starts
    /\ DefaultsRecorded
    /\ AlwaysOutput => output # None

LEMMA DesiredType == TypeOK => Desired \subseteq Device
BY DEF TypeOK, Desired

\* A rebuild, also one that raises half way, claims the desired devices and records no
\* other; what has the callback then is recorded, or has just failed or failed before.
LEMMA RebuildKeeps ==
  ASSUME TypeOK, DevicesOK, NEW failing \in Desired \cup {None}, NEW set \in BOOLEAN,
         set => failing # None, Rebuild(failing, set, Uncleared)
  PROVE  DevicesOK' /\ audioDeviceUids' = Desired
<1> DEFINE recorded == IF failing = None THEN Desired ELSE Before(failing)
           lost == IF set THEN {failing} ELSE {}
<1>1. /\ audioDeviceUids' = Desired /\ audioDevices' = recorded
      /\ attached' = (Uncleared \cup recorded) \cup lost
      /\ failed' = failed \cup lost /\ raised' = (failing # None)
  BY DEF Rebuild
<1>2. Desired \subseteq Device
  BY DesiredType
<1>3. recorded \subseteq Desired
  BY DEF Desired, Before
<1>4. lost \subseteq Device
  BY <1>2
<1>5. Uncleared \subseteq failed /\ failed \subseteq Device
  BY DEF Uncleared, DevicesOK, NoDeviceLeft, DevicesTyped
<1>6. ~raised' => audioDevices' = audioDeviceUids'
  BY <1>1
<1> HIDE DEF recorded, lost
<1>7. DevicesTyped'
  BY <1>1, <1>2, <1>3, <1>4, <1>5 DEF DevicesTyped
<1>8. NoDeviceLeft'
  BY <1>1, <1>5 DEF NoDeviceLeft
<1>9. UidsRecorded'
  BY <1>1, <1>3, <1>6 DEF UidsRecorded
<1> QED
  BY <1>1, <1>7, <1>8, <1>9 DEF DevicesOK

LEMMA RefreshRebuilds ==
  ASSUME TypeOK, DevicesOK, NEW failing \in Desired \cup {None}, NEW set \in BOOLEAN,
         Refresh(failing, set)
  PROVE  DevicesOK' /\ audioDeviceUids' = Desired
<1>1. CASE audioDeviceUids = Desired
  BY <1>1 DEF Refresh, devices, DevicesOK, DevicesTyped, NoDeviceLeft, UidsRecorded
<1>2. CASE audioDeviceUids # Desired
  BY <1>2, RebuildKeeps DEF Refresh
<1> QED
  BY <1>1, <1>2

LEMMA DevicesUnchanged == DevicesOK /\ UNCHANGED devices => DevicesOK'
BY DEF devices, DevicesOK, DevicesTyped, NoDeviceLeft, UidsRecorded

LEMMA ReleaseKeeps ==
  ASSUME DevicesOK, ReleaseDevices
  PROVE  DevicesOK'
BY DEF ReleaseDevices, Uncleared, DevicesOK, DevicesTyped, NoDeviceLeft, UidsRecorded

LEMMA ObserversInit == Init => ObserversInv
<1> SUFFICES ASSUME Init PROVE ObserversInv
  OBVIOUS
<1> USE ObserversAssumption DEF Init
<1>1. output \in Device \cup {None} /\ input \in Device \cup {None}
  OBVIOUS
<1>2. clipboardWaits \in 0 .. MaxStarts /\ starts \in 0 .. MaxStarts
  OBVIOUS
<1>3. /\ clipboardActive \in BOOLEAN /\ running \in BOOLEAN
      /\ audioWatching \in BOOLEAN /\ ~clipboardActive
  OBVIOUS
<1>4. notices \subseteq {"output", "input"}
  OBVIOUS
<1>7. DevicesOK
  BY DEF DevicesOK, DevicesTyped, NoDeviceLeft, UidsRecorded
<1>5. clipboardWaits <= starts
  OBVIOUS
<1>6. DefaultsRecorded /\ (AlwaysOutput => output # None)
  BY DEF DefaultsRecorded
<1> HIDE DEF Init
<1> QED
  BY <1>1, <1>2, <1>3, <1>4, <1>5, <1>6, <1>7, Zenon
  DEF ObserversInv, TypeOK, DevicesOK, DevicesTyped

LEMMA ObserversStep == ObserversInv /\ [Next]_vars => ObserversInv'
<1> SUFFICES ASSUME ObserversInv, [Next]_vars PROVE ObserversInv'
  OBVIOUS
<1> USE ObserversAssumption DEF ObserversInv
<1>1. ASSUME NEW which \in {"output", "input"}, DefaultChanged(which)
      PROVE  ObserversInv'
  <2>1. CASE ~audioWatching
    <3>1. DevicesOK'
      BY <1>1, <2>1, DevicesUnchanged DEF DefaultChanged
    <3>2. DefaultsRecorded'
      BY <1>1, <2>1 DEF DefaultChanged, DefaultsRecorded, clipboard
    <3> QED
      BY <1>1, <3>1, <3>2 DEF DefaultChanged, clipboard, TypeOK, DevicesOK, DevicesTyped
  <2>2. CASE audioWatching
    <3>1. PICK failing \in Desired \cup {None}, set \in BOOLEAN : Refresh(failing, set)
      BY <1>1, <2>2 DEF DefaultChanged
    <3>2. DevicesOK' /\ audioDeviceUids' = Desired
      BY <3>1, RefreshRebuilds
    <3>3. Desired' = Desired
      BY <1>1 DEF DefaultChanged, Desired
    <3>4. DefaultsRecorded'
      BY <1>1, <3>2, <3>3 DEF DefaultChanged, DefaultsRecorded, clipboard
    <3> QED
      BY <1>1, <3>2, <3>4 DEF DefaultChanged, clipboard, TypeOK, DevicesOK, DevicesTyped
  <2> QED
    BY <2>1, <2>2
<1>2. ASSUME NEW d \in Device \cup {None}, SetOutput(d) \/ SetInput(d)
      PROVE  ObserversInv'
  <2>1. /\ UNCHANGED <<audio, clipboard, running, starts>>
        /\ output' \in Device \cup {None} /\ input' \in Device \cup {None}
        /\ notices' \subseteq {"output", "input"} /\ notices' # {}
        /\ AlwaysOutput => output' # None
    BY <1>2 DEF SetOutput, SetInput, TypeOK
  <2>2. DevicesOK'
    BY <2>1, DevicesUnchanged DEF audio
  <2> QED
    BY <2>1, <2>2 DEF audio, clipboard, TypeOK, DevicesOK, DevicesTyped, DefaultsRecorded
<1>3. CASE ClipboardCallback
  <2>1. DevicesOK'
    BY <1>3, DevicesUnchanged DEF ClipboardCallback, audio
  <2> QED
    BY <1>3, <2>1 DEF ClipboardCallback, audio, devices, defaults, TypeOK, DevicesOK,
       DevicesTyped, DefaultsRecorded, Desired
<1>4. ASSUME NEW reach \in Reach, Start(reach)
      PROVE  ObserversInv'
  <2>1. DevicesOK' /\ (reach = "clipboard" => audioDeviceUids' = Desired)
    <3>1. CASE reach \in {"audioDevices", "clipboard"}
      <4>1. Refresh(None, FALSE)
        BY <1>4, <3>1 DEF Start
      <4> QED
        BY <4>1, RefreshRebuilds
    <3>2. CASE reach = "rebuild"
      <4>1. PICK d \in Desired, set \in BOOLEAN : Refresh(d, set)
        BY <1>4, <3>2 DEF Start
      <4> QED
        BY <3>2, <4>1, RefreshRebuilds
    <3>3. CASE reach \in {"nothing", "audioWatcher"}
      BY <1>4, <3>3, DevicesUnchanged DEF Start
    <3> QED
      BY <3>1, <3>2, <3>3 DEF Reach
  <2>2. /\ starts' = starts + 1 /\ starts < MaxStarts /\ running' = TRUE
        /\ UNCHANGED defaults /\ ~clipboardActive
        /\ audioWatching' \in BOOLEAN
        /\ reach = "clipboard" => audioWatching' = TRUE
    BY <1>4 DEF Start, TypeOK
  <2>3. Desired' = Desired
    BY <2>2 DEF Desired, defaults
  <2>4. CASE reach = "clipboard"
    <3>1. clipboardActive' = TRUE /\ clipboardWaits' = clipboardWaits + 1
      BY <1>4, <2>4 DEF Start
    <3>2. DefaultsRecorded'
      BY <2>1, <2>2, <2>3, <2>4 DEF DefaultsRecorded
    <3> QED
      BY <2>1, <2>2, <3>1, <3>2 DEF defaults, TypeOK, DevicesOK, DevicesTyped
  <2>5. CASE reach # "clipboard"
    <3>1. UNCHANGED clipboard
      BY <1>4, <2>5 DEF Start
    <3> QED
      BY <2>1, <2>2, <3>1 DEF defaults, clipboard, TypeOK, DevicesOK, DevicesTyped,
         DefaultsRecorded
  <2> QED
    BY <2>4, <2>5
<1>5. CASE Stop
  <2>1. DevicesOK'
    BY <1>5, ReleaseKeeps DEF Stop
  <2> QED
    BY <1>5, <2>1 DEF Stop, defaults, TypeOK, DevicesOK, DevicesTyped, DefaultsRecorded
<1>6. CASE UNCHANGED vars
  <2>1. DevicesOK'
    BY <1>6, DevicesUnchanged DEF vars, audio
  <2> QED
    BY <1>6, <2>1 DEF vars, audio, devices, clipboard, defaults, TypeOK, DevicesOK,
       DevicesTyped, DefaultsRecorded, Desired
<1> QED
  BY <1>1, <1>2, <1>3, <1>4, <1>5, <1>6 DEF Next

\* The state of the observers has its type, and while the clipboard is watched
\* its callback is registered: no start, partial start or stop breaks the chain
\* by which clipboard_callback registers itself again.
THEOREM ObserversTyped == Spec => []TypeOK
<1>1. ObserversInv => TypeOK
  BY DEF ObserversInv
<1> QED
  BY <1>1, ObserversInit, ObserversStep, PTL DEF Spec

\* However often M.start or a rebuild fails half way, M.stop runs and the default devices
\* change, the devices with audio_device_callback are those that the module has recorded,
\* and otherwise only such of which watcherStart raised.
THEOREM NoDeviceIsLeft == Spec => []NoDeviceLeft
<1>1. ObserversInv => NoDeviceLeft
  BY DEF ObserversInv, DevicesOK
<1> QED
  BY <1>1, ObserversInit, ObserversStep, PTL DEF Spec

\* On a Mac that always has an output device, refresh_audio_devices leaves no
\* default device unwatched and watches no other, once M.start has come to its
\* end and the changes since have been notified, unless the rebuild raised.  (Without an output device the
\* input device is not watched: ipairs ends at the first nil.)
THEOREM DefaultsAreWatched ==
  ASSUME AlwaysOutput
  PROVE  Spec => []DefaultsWatched
<1>1. ObserversInv => DefaultsWatched
  BY DEF ObserversInv, DevicesOK, UidsRecorded, DefaultsRecorded, NoDeviceLeft, Desired,
     DefaultsWatched
<1> QED
  BY <1>1, ObserversInit, ObserversStep, PTL DEF Spec

-----------------------------------------------------------------------------
(***************************************************************************)
(* Watchers adds state to Observers and takes none of its steps away or    *)
(* apart, so what holds of Observers holds of the whole.                   *)
(***************************************************************************)
LEMMA WatchersStepObserves == [NextWatchers]_allVars => [Next]_vars
<1> SUFFICES ASSUME [NextWatchers]_allVars PROVE [Next]_vars
  OBVIOUS
<1>1. ASSUME NEW w \in Window, NEW s \in Size, Resize(w, s)
      PROVE  UNCHANGED vars
  BY <1>1 DEF Resize
<1>2. ASSUME NEW w \in Window, Move(w) PROVE UNCHANGED vars
  BY <1>2 DEF Move
<1>3. ASSUME NEW w \in Window, NEW noticed \in BOOLEAN, Close(w, noticed)
      PROVE  UNCHANGED vars
  BY <1>3, Zenon DEF Close
<1>4. ASSUME NEW w \in Window, WindowMoved(w) \/ WindowDestroyed(w)
      PROVE  UNCHANGED vars
  BY <1>4 DEF WindowMoved, WindowDestroyed
<1>5. ASSUME Prune \/ ScreensChanged \/ BatteryChanged \/ StartScreensaver
      PROVE  UNCHANGED vars
  BY <1>5 DEF Prune, PrunePreviousFrames, ScreensChanged, BatteryChanged, StartScreensaver
<1>6. ASSUME NEW current \in SUBSET Screen, SetScreens(current)
      PROVE  UNCHANGED vars
  BY <1>6 DEF SetScreens
<1>7. ASSUME NEW s \in Source, SetSource(s) PROVE UNCHANGED vars
  BY <1>7 DEF SetSource
<1>8. ASSUME NEW c \in {"locked", "sleeping", "screensSleep"}, SessionChanges(c)
      PROVE  UNCHANGED vars
  BY <1>8 DEF SessionChanges
<1>9. ASSUME NEW d \in Device \cup {None}, DeviceSet(d) PROVE Next
  BY <1>9 DEF DeviceSet, Next
<1>10. ASSUME NEW reach \in Reach, StartWatchers(reach) PROVE Next
  BY <1>10 DEF StartWatchers, Next
<1>11. ASSUME StopWatchers PROVE Next
  BY <1>11 DEF StopWatchers, Next
<1>12. ASSUME NEW which \in {"output", "input"}, DefaultChanged(which) PROVE Next
  BY <1>12 DEF Next
<1>13. ASSUME ClipboardCallback PROVE Next
  BY <1>13 DEF Next
<1>14. ASSUME UNCHANGED allVars PROVE UNCHANGED vars
  BY <1>14 DEF allVars
<1> QED
  BY <1>1, <1>2, <1>3, <1>4, <1>5, <1>6, <1>7, <1>8, <1>9, <1>10, <1>11, <1>12,
     <1>13, <1>14, Zenon DEF NextWatchers

\* The watchers together are Observers to whom looks at the audio devices and the
\* clipboard alone.
THEOREM WatchersObserve == SpecWatchers => Spec
<1>1. InitWatchers => Init
  BY DEF InitWatchers
<1> QED
  BY <1>1, WatchersStepObserves, PTL DEF SpecWatchers, Spec

\* With windows, screens, power and session beside it, no device is left with
\* audio_device_callback that M.stop does not know of, unless its watcherStart raised.
THEOREM NoDeviceStaysAttached == SpecWatchers => []NoDeviceLeft
BY WatchersObserve, NoDeviceIsLeft, PTL

\* Nor does anything else that is watched keep a default device from being watched.
THEOREM DefaultDevicesWatched ==
  ASSUME AlwaysOutput
  PROVE  SpecWatchers => []DefaultsWatched
BY WatchersObserve, DefaultsAreWatched, PTL

-----------------------------------------------------------------------------
(***************************************************************************)
(* Types                                                                   *)
(***************************************************************************)
Told == [size : [Window -> Size \cup {None}], screens : SUBSET Screen, source : Source]

LEMMA FlagsType ==
  ASSUME NEW c \in {"locked", "sleeping", "screensSleep"}
  PROVE  Flags(c) \subseteq {"locked", "sleeping", "screens_sleeping", "screensaver"}
BY DEF Flags

LEMMA EmitType ==
  ASSUME WatchersTypeOK, NEW w \in Window, NEW s \in Size, EmitWindowChange(w, s)
  PROVE  frames' \in [Window -> Size \cup {None}] /\ told' \in Told
<1>1. frames' \in [Window -> Size \cup {None}]
  BY DEF EmitWindowChange, WatchersTypeOK
<1>2. told' = told \/ told' = [told EXCEPT !.size = [@ EXCEPT ![w] = s]]
  BY DEF EmitWindowChange
<1>3. told \in Told
  BY DEF WatchersTypeOK, Told
<1>4. [told.size EXCEPT ![w] = s] \in [Window -> Size \cup {None}]
  BY <1>3 DEF Told
<1> QED
  BY <1>1, <1>2, <1>3, <1>4 DEF Told

LEMMA WatchersTypeInit == InitWatchers => WatchersTypeOK
<1> SUFFICES ASSUME InitWatchers PROVE WatchersTypeOK
  OBVIOUS
<1>1. frames \in [Window -> Size \cup {None}] /\ size \in [Window -> Size \cup {None}]
  BY DEF InitWatchers
<1>2. told \in Told
  BY <1>1 DEF InitWatchers, Told
<1>3. changes \in 0 .. MaxChanges
  BY WatchersAssumption DEF InitWatchers
<1> QED
  BY <1>1, <1>2, <1>3 DEF InitWatchers, WatchersTypeOK, Told

-----------------------------------------------------------------------------
(***************************************************************************)
(* The invariant.  StatusInv: without the session watcher no flag of it is *)
(* up.  FollowInv: what the watchers remember is what the client was told, *)
(* and it differs from the Mac only while a notice is pending; what is not *)
(* watched is not remembered, so that a start finds nothing stale.         *)
(***************************************************************************)
StatusInv ==
    /\ StatusNeverOverstates
    /\ "session" \notin watching => status \subseteq {"screensaver"}

WindowsFollowed ==
    \A w \in Open :
        /\ w \notin destroyed
        /\ "windows" \in watching =>
             /\ frames[w] = told.size[w]
             /\ w \in moved \/ frames[w] \in {None, size[w]}
        /\ "windows" \notin watching => frames[w] = None

ScreensFollowed ==
    /\ "screens" \in watching =>
         /\ knownScreens = told.screens
         /\ "screens" \in pending \/ knownScreens = screens
    /\ "screens" \notin watching => knownScreens = {}

PowerFollowed ==
    "power" \in watching =>
        /\ previousSource = told.source
        /\ "power" \in pending \/ previousSource = source

FollowInv == WindowsFollowed /\ ScreensFollowed /\ PowerFollowed

WatchersInv ==
    /\ WatchersTypeOK
    /\ StatusInv
    /\ ~running => watching = {}
    /\ OneSpace /\ ~WindowsListed => FollowInv

LEMMA WatchersInit == InitWatchers => WatchersInv
<1> SUFFICES ASSUME InitWatchers PROVE WatchersInv
  OBVIOUS
<1>1. WatchersTypeOK
  BY WatchersTypeInit
<1>2. StatusInv
  BY DEF InitWatchers, StatusInv, StatusNeverOverstates
<1>3. WindowsFollowed
  BY DEF InitWatchers, WindowsFollowed, Open
<1>4. ScreensFollowed /\ PowerFollowed /\ watching = {}
  BY DEF InitWatchers, ScreensFollowed, PowerFollowed
<1> QED
  BY <1>1, <1>2, <1>3, <1>4 DEF WatchersInv, FollowInv

\* What a change leaves alone
LEMMA ChangeType ==
  ASSUME WatchersTypeOK, Change
  PROVE  changes' \in 0 .. MaxChanges
BY WatchersAssumption DEF Change, WatchersTypeOK

-----------------------------------------------------------------------------
\* Windows
LEMMA ResizeStep ==
  ASSUME WatchersInv, NEW w \in Window,
         (\E s \in Size : Resize(w, s)) \/ Move(w)
  PROVE  WatchersInv'
<1>1. /\ Change /\ w \in Open /\ moved' = moved \cup {w}
      /\ UNCHANGED <<vars, destroyed, screens, source, states, pending>>
      /\ size' = size \/ \E s \in Size : size' = [size EXCEPT ![w] = s]
  BY DEF Resize, Move
<1>2. WatchersTypeOK'
  <2>1. size' \in [Window -> Size \cup {None}]
    BY <1>1 DEF WatchersInv, WatchersTypeOK
  <2> QED
    BY <1>1, <2>1, ChangeType DEF WatchersInv, WatchersTypeOK, Change, states
<1>3. StatusInv' /\ (~running => watching = {})'
  BY <1>1 DEF WatchersInv, StatusInv, StatusNeverOverstates, Change, states, vars
<1>4. ASSUME OneSpace, ~WindowsListed PROVE FollowInv'
  <2>1. Open' = Open
    BY <1>1, WatchersAssumption DEF Open, WatchersInv, WatchersTypeOK
  <2>2. WindowsFollowed'
    BY <1>1, <1>4, <2>1 DEF WatchersInv, FollowInv, WindowsFollowed, Change, WatchersTypeOK, Open
  <2>3. ScreensFollowed' /\ PowerFollowed'
    BY <1>1, <1>4 DEF WatchersInv, FollowInv, ScreensFollowed, PowerFollowed, Change, states
  <2> QED
    BY <2>2, <2>3 DEF FollowInv
<1> QED
  BY <1>2, <1>3, <1>4 DEF WatchersInv

LEMMA CloseStep ==
  ASSUME WatchersInv, NEW w \in Window, NEW noticed \in BOOLEAN, Close(w, noticed)
  PROVE  WatchersInv'
<1>1. /\ Change /\ size' = [size EXCEPT ![w] = None]
      /\ destroyed \subseteq destroyed' /\ destroyed' \subseteq destroyed \cup {w}
      /\ UNCHANGED <<vars, moved, screens, source, states, pending>>
  BY DEF Close
<1>2. WatchersTypeOK'
  <2>1. size' \in [Window -> Size \cup {None}]
    BY <1>1 DEF WatchersInv, WatchersTypeOK
  <2> QED
    BY <1>1, <2>1, ChangeType DEF WatchersInv, WatchersTypeOK, Change, states
<1>3. StatusInv' /\ (~running => watching = {})'
  BY <1>1 DEF WatchersInv, StatusInv, StatusNeverOverstates, Change, states, vars
<1>4. ASSUME OneSpace, ~WindowsListed PROVE FollowInv'
  <2>1. Open' \subseteq Open \ {w} /\ \A v \in Open' : size'[v] = size[v]
    BY <1>1 DEF Open, WatchersInv, WatchersTypeOK
  <2>2. WindowsFollowed'
    BY <1>1, <1>4, <2>1 DEF WatchersInv, FollowInv, WindowsFollowed, Change
  <2>3. ScreensFollowed' /\ PowerFollowed'
    BY <1>1, <1>4 DEF WatchersInv, FollowInv, ScreensFollowed, PowerFollowed, Change, states
  <2> QED
    BY <2>2, <2>3 DEF FollowInv
<1> QED
  BY <1>2, <1>3, <1>4 DEF WatchersInv

LEMMA WindowMovedStep ==
  ASSUME WatchersInv, NEW w \in Window, WindowMoved(w)
  PROVE  WatchersInv'
<1>1. /\ moved' = moved \ {w}
      /\ UNCHANGED <<vars, size, destroyed, knownScreens, screens, previousSource,
                     source, status, session, pending, changes, watching>>
  BY DEF WindowMoved, topology, power, states
<1>2. CASE UNCHANGED <<frames, told>> /\ ("windows" \notin watching \/ w \notin Open)
  <2>1. WatchersTypeOK'
    BY <1>1, <1>2 DEF WatchersInv, WatchersTypeOK
  <2>2. StatusInv' /\ (~running => watching = {})'
    BY <1>1 DEF WatchersInv, StatusInv, StatusNeverOverstates, vars
  <2>3. ASSUME OneSpace, ~WindowsListed PROVE FollowInv'
    BY <1>1, <1>2, <2>3
    DEF WatchersInv, FollowInv, WindowsFollowed, ScreensFollowed, PowerFollowed, Open
  <2> QED
    BY <2>1, <2>2, <2>3 DEF WatchersInv
<1>3. ASSUME NEW s \in Size, EmitWindowChange(w, s), "windows" \in watching,
             w \in Open => s = size[w]
      PROVE  WatchersInv'
  <2>1. WatchersTypeOK'
    BY <1>1, <1>3, EmitType DEF WatchersInv, WatchersTypeOK, Told
  <2>2. StatusInv' /\ (~running => watching = {})'
    BY <1>1 DEF WatchersInv, StatusInv, StatusNeverOverstates, vars
  <2>3. ASSUME OneSpace, ~WindowsListed PROVE FollowInv'
    <3>1. Open' = Open /\ FollowInv /\ told \in Told /\ frames \in [Window -> Size \cup {None}]
      BY <1>1, <2>3 DEF Open, WatchersInv, WatchersTypeOK, Told
    <3>2. /\ told'.screens = told.screens /\ told'.source = told.source
          /\ told'.size = IF frames[w] \notin {None, s} \/ told.size[w] = None
                           THEN [told.size EXCEPT ![w] = s] ELSE told.size
          /\ frames' = [frames EXCEPT ![w] = s]
      BY <1>3, <3>1 DEF EmitWindowChange, Told
    <3>3. WindowsFollowed'
      <4> SUFFICES ASSUME NEW v \in Open
                   PROVE  /\ v \notin destroyed /\ frames'[v] = told'.size[v]
                          /\ v \in moved' \/ frames'[v] \in {None, size[v]}
        BY <1>1, <1>3, <3>1 DEF WindowsFollowed
      <4>1. /\ v \in Window /\ v \notin destroyed /\ frames[v] = told.size[v]
            /\ v \in moved \/ frames[v] \in {None, size[v]}
        BY <1>3, <3>1 DEF FollowInv, WindowsFollowed, Open
      <4>2. told.size \in [Window -> Size \cup {None}]
        BY <3>1 DEF Told
      <4>3. CASE v = w
        BY <1>3, <3>1, <3>2, <4>1, <4>2, <4>3
      <4>4. CASE v # w
        BY <1>1, <3>1, <3>2, <4>1, <4>2, <4>4
      <4> QED
        BY <4>3, <4>4
    <3>4. ScreensFollowed' /\ PowerFollowed'
      BY <1>1, <3>1, <3>2 DEF FollowInv, ScreensFollowed, PowerFollowed
    <3> QED
      BY <3>3, <3>4 DEF FollowInv
  <2> QED
    BY <2>1, <2>2, <2>3 DEF WatchersInv
<1>4. ASSUME w \in Open PROVE size[w] \in Size
  BY <1>4 DEF Open, WatchersInv, WatchersTypeOK
<1> QED
  BY <1>2, <1>3, <1>4 DEF WindowMoved

LEMMA WindowForgottenStep ==
  ASSUME WatchersInv, (\E w \in Window : WindowDestroyed(w)) \/ Prune
  PROVE  WatchersInv'
<1>1. /\ UNCHANGED <<vars, size, moved, knownScreens, screens, previousSource, source,
                     status, session, pending, changes, watching, told>>
      /\ frames' \in [Window -> Size \cup {None}]
      /\ destroyed' \subseteq destroyed
  BY DEF WindowDestroyed, Prune, PrunePreviousFrames, topology, power, states,
     WatchersInv, WatchersTypeOK
<1>2. WatchersTypeOK'
  BY <1>1 DEF WatchersInv, WatchersTypeOK
<1>3. StatusInv' /\ (~running => watching = {})'
  BY <1>1 DEF WatchersInv, StatusInv, StatusNeverOverstates, vars
<1>4. ASSUME OneSpace, ~WindowsListed PROVE FollowInv'
  <2>1. Open' = Open /\ FollowInv
    BY <1>1, <1>4 DEF Open, WatchersInv
  <2>2. \A v \in Open : frames'[v] = frames[v]
    BY <1>4, <2>1 DEF WindowDestroyed, Prune, PrunePreviousFrames, FollowInv,
       WindowsFollowed, WatchersInv, WatchersTypeOK, Open
  <2>3. WindowsFollowed'
    BY <1>1, <2>1, <2>2 DEF FollowInv, WindowsFollowed
  <2>4. ScreensFollowed' /\ PowerFollowed'
    BY <1>1, <2>1 DEF FollowInv, ScreensFollowed, PowerFollowed
  <2> QED
    BY <2>3, <2>4 DEF FollowInv
<1> QED
  BY <1>2, <1>3, <1>4 DEF WatchersInv

-----------------------------------------------------------------------------
\* Screens and power source
LEMMA ScreensStep ==
  ASSUME WatchersInv, ScreensChanged \/ \E current \in SUBSET Screen : SetScreens(current)
  PROVE  WatchersInv'
<1>1. /\ UNCHANGED <<vars, frames, size, moved, destroyed, previousSource, source,
                     status, session, watching>>
      /\ changes' \in 0 .. MaxChanges
      /\ pending' \in {pending \cup {"screens"}, pending \ {"screens"}}
      /\ screens' \subseteq Screen
  BY ChangeType DEF ScreensChanged, SetScreens, Change, windows, power, states,
     WatchersInv, WatchersTypeOK
<1>2. /\ told \in Told /\ knownScreens \subseteq Screen /\ screens \subseteq Screen
  BY DEF WatchersInv, WatchersTypeOK, Told
<1>3. \/ UNCHANGED <<told, knownScreens>>
      \/ /\ told' = [told EXCEPT !.screens = (@ \cup (screens \ knownScreens))
                                                   \ (knownScreens \ screens)]
         /\ knownScreens' = screens
  BY DEF ScreensChanged, SetScreens, ScreenTopology, Change
<1>4. /\ told' \in Told /\ told'.size = told.size /\ told'.source = told.source
      /\ knownScreens' \subseteq Screen
  BY <1>2, <1>3 DEF Told
<1>5. WatchersTypeOK'
  BY <1>1, <1>4 DEF WatchersInv, WatchersTypeOK, Told
<1>6. StatusInv' /\ (~running => watching = {})'
  BY <1>1 DEF WatchersInv, StatusInv, StatusNeverOverstates, vars
<1>7. ASSUME OneSpace, ~WindowsListed PROVE FollowInv'
  <2>1. FollowInv
    BY <1>7 DEF WatchersInv
  <2>2. WindowsFollowed' /\ PowerFollowed'
    BY <1>1, <1>4, <2>1 DEF FollowInv, WindowsFollowed, PowerFollowed, Open
  <2>3. ScreensFollowed'
    <3>1. CASE ScreensChanged
      <4>1. CASE "screens" \notin watching
        BY <1>1, <2>1, <3>1, <4>1 DEF ScreensChanged, FollowInv, ScreensFollowed
      <4>2. CASE "screens" \in watching
        <5>1. knownScreens = told.screens /\ knownScreens' = screens /\ screens' = screens
          BY <2>1, <3>1, <4>2 DEF ScreensChanged, ScreenTopology, FollowInv, ScreensFollowed
        <5>2. told'.screens = screens
          BY <1>2, <3>1, <4>2, <5>1 DEF ScreensChanged, ScreenTopology, Told
        <5> QED
          BY <1>1, <4>2, <5>1, <5>2 DEF ScreensFollowed
      <4> QED
        BY <4>1, <4>2
    <3>2. CASE \E current \in SUBSET Screen : SetScreens(current)
      BY <1>1, <2>1, <3>2 DEF SetScreens, Change, FollowInv, ScreensFollowed
    <3> QED
      BY <3>1, <3>2
  <2> QED
    BY <2>2, <2>3 DEF FollowInv
<1> QED
  BY <1>5, <1>6, <1>7 DEF WatchersInv

LEMMA PowerStep ==
  ASSUME WatchersInv, BatteryChanged \/ \E s \in Source : SetSource(s)
  PROVE  WatchersInv'
<1>1. /\ UNCHANGED <<vars, frames, size, moved, destroyed, knownScreens, screens,
                     status, session, watching>>
      /\ changes' \in 0 .. MaxChanges
      /\ pending' \in {pending \cup {"power"}, pending \ {"power"}}
      /\ source' \in Source
  BY ChangeType DEF BatteryChanged, SetSource, Change, windows, topology, states,
     WatchersInv, WatchersTypeOK
<1>2. told \in Told /\ source \in Source /\ previousSource \in Source \cup {None}
  BY DEF WatchersInv, WatchersTypeOK, Told
<1>3. \/ UNCHANGED <<told, previousSource>>
      \/ told' = [told EXCEPT !.source = source] /\ previousSource' = source
  BY DEF BatteryChanged, SetSource, Change
<1>4. /\ told' \in Told /\ told'.size = told.size /\ told'.screens = told.screens
      /\ previousSource' \in Source \cup {None}
  BY <1>2, <1>3 DEF Told
<1>5. WatchersTypeOK'
  BY <1>1, <1>4 DEF WatchersInv, WatchersTypeOK, Told
<1>6. StatusInv' /\ (~running => watching = {})'
  BY <1>1 DEF WatchersInv, StatusInv, StatusNeverOverstates, vars
<1>7. ASSUME OneSpace, ~WindowsListed PROVE FollowInv'
  <2>1. FollowInv
    BY <1>7 DEF WatchersInv
  <2>2. WindowsFollowed' /\ ScreensFollowed'
    BY <1>1, <1>4, <2>1 DEF FollowInv, WindowsFollowed, ScreensFollowed, Open
  <2>3. PowerFollowed'
    BY <1>1, <1>2, <2>1 DEF BatteryChanged, SetSource, Change, FollowInv, PowerFollowed, Told
  <2> QED
    BY <2>2, <2>3 DEF FollowInv
<1> QED
  BY <1>5, <1>6, <1>7 DEF WatchersInv

-----------------------------------------------------------------------------
\* Session: no two conditions share a flag.
LEMMA FlagsApart ==
  ASSUME NEW c \in {"locked", "sleeping", "screensSleep"},
         NEW d \in {"locked", "sleeping", "screensSleep"}, c # d
  PROVE  Flags(c) \cap Flags(d) = {}
BY DEF Flags

LEMMA SessionStep ==
  ASSUME WatchersInv, NEW c \in {"locked", "sleeping", "screensSleep"}, SessionChanges(c)
  PROVE  WatchersInv'
<1>1. /\ UNCHANGED <<vars, windows, topology, power, pending, watching, told>>
      /\ changes' \in 0 .. MaxChanges
  BY ChangeType DEF SessionChanges, Change, WatchersInv, windows, topology, power
<1>2. /\ session' = IF c \in session THEN session \ {c} ELSE session \cup {c}
      /\ CaffeinateEvent(c, c \notin session)
  BY DEF SessionChanges
<1>3. session \subseteq {"locked", "sleeping", "screensSleep"}
  BY DEF WatchersInv, WatchersTypeOK
<1>4. status' = IF "session" \notin watching THEN status
                ELSE IF c \notin session THEN status \cup Flags(c)
                ELSE status \ Flags(c)
  BY <1>2 DEF CaffeinateEvent
<1>5. WatchersTypeOK'
  <2>1. status' \subseteq {"locked", "sleeping", "screens_sleeping", "screensaver"}
    BY <1>4, FlagsType DEF WatchersInv, WatchersTypeOK
  <2>2. session' \subseteq {"locked", "sleeping", "screensSleep"}
    BY <1>2, <1>3
  <2> QED
    BY <1>1, <2>1, <2>2 DEF WatchersInv, WatchersTypeOK, windows, topology, power
<1>6. StatusInv'
  <2>1. CASE "session" \notin watching
    BY <1>1, <1>4, <2>1 DEF WatchersInv, StatusInv, StatusNeverOverstates
  <2>2. CASE "session" \in watching
    <3> SUFFICES ASSUME NEW f \in status', f # "screensaver"
                 PROVE  \E d \in session' : f \in Flags(d)
      BY <1>1, <2>2 DEF StatusInv, StatusNeverOverstates
    <3>1. CASE f \in Flags(c) /\ c \notin session
      BY <1>2, <3>1
    <3>2. CASE f \in status
      <4>1. PICK d \in session : f \in Flags(d)
        BY <3>2 DEF WatchersInv, StatusInv, StatusNeverOverstates
      <4>2. CASE c \notin session
        BY <1>2, <4>1, <4>2
      <4>3. CASE c \in session
        <5>1. f \notin Flags(c)
          BY <1>4, <2>2, <4>3
        <5> QED
          BY <1>2, <4>1, <4>3, <5>1
      <4> QED
        BY <4>2, <4>3
    <3> QED
      BY <1>4, <2>2, <3>1, <3>2
  <2> QED
    BY <2>1, <2>2
<1>7. (~running => watching = {})'
  BY <1>1 DEF WatchersInv, vars
<1>8. ASSUME OneSpace, ~WindowsListed PROVE FollowInv'
  BY <1>1, <1>8 DEF WatchersInv, FollowInv, WindowsFollowed, ScreensFollowed,
     PowerFollowed, Open, windows, topology, power
<1> QED
  BY <1>5, <1>6, <1>7, <1>8 DEF WatchersInv

LEMMA ScreensaverStep ==
  ASSUME WatchersInv, StartScreensaver
  PROVE  WatchersInv'
<1>1. /\ UNCHANGED <<vars, windows, topology, power, session, pending, watching, told>>
      /\ changes' \in 0 .. MaxChanges /\ status' = status \cup {"screensaver"}
  BY ChangeType DEF StartScreensaver, Change, WatchersInv, windows, topology, power
<1>2. WatchersTypeOK'
  BY <1>1 DEF WatchersInv, WatchersTypeOK, windows, topology, power
<1>3. StatusInv' /\ (~running => watching = {})'
  BY <1>1 DEF WatchersInv, StatusInv, StatusNeverOverstates, vars
<1>4. ASSUME OneSpace, ~WindowsListed PROVE FollowInv'
  BY <1>1, <1>4 DEF WatchersInv, FollowInv, WindowsFollowed, ScreensFollowed,
     PowerFollowed, Open, windows, topology, power
<1> QED
  BY <1>2, <1>3, <1>4 DEF WatchersInv

-----------------------------------------------------------------------------
\* M.start and M.stop
LEMMA StartStep ==
  ASSUME WatchersInv, NEW reach \in Reach, StartWatchers(reach)
  PROVE  WatchersInv'
<1>1. /\ UNCHANGED <<windows, screens, source, states, pending, changes>>
      /\ ~running /\ running' = TRUE /\ watching = {}
      /\ told' = [size    |-> IF WindowsListed THEN size ELSE [w \in Window |-> None],
                  screens |-> screens,
                  source  |-> source]
  BY DEF StartWatchers, Start, WatchersInv
<1>2. /\ knownScreens' = IF "screens" \in watching' THEN knownScreens \cup screens
                         ELSE knownScreens
      /\ previousSource' = IF "power" \in watching' THEN source ELSE previousSource
  BY DEF StartWatchers
<1>3. watching' \subseteq {"windows", "screens", "session", "power"}
  BY DEF StartWatchers, Started, Reach
<1>4. WatchersTypeOK'
  <2>1. told' \in Told
    BY <1>1 DEF Told, WatchersInv, WatchersTypeOK
  <2>2. knownScreens' \subseteq Screen /\ previousSource' \in Source \cup {None}
    BY <1>2 DEF WatchersInv, WatchersTypeOK
  <2> QED
    BY <1>1, <1>3, <2>1, <2>2 DEF WatchersInv, WatchersTypeOK, Told, windows, states
<1>5. StatusInv' /\ (~running => watching = {})'
  BY <1>1 DEF WatchersInv, StatusInv, StatusNeverOverstates, states
<1>6. ASSUME OneSpace, ~WindowsListed PROVE FollowInv'
  <2>1. WindowsFollowed'
    BY <1>1, <1>6 DEF WatchersInv, FollowInv, WindowsFollowed, Open, windows
  <2>2. ScreensFollowed' /\ PowerFollowed'
    BY <1>1, <1>2, <1>6 DEF WatchersInv, FollowInv, ScreensFollowed, PowerFollowed
  <2> QED
    BY <2>1, <2>2 DEF FollowInv
<1> QED
  BY <1>4, <1>5, <1>6 DEF WatchersInv

LEMMA StopStep ==
  ASSUME WatchersInv, StopWatchers
  PROVE  WatchersInv'
<1>1. /\ UNCHANGED <<size, moved, destroyed, screens, power, session, pending, changes, told>>
      /\ watching' = {} /\ frames' = [w \in Window |-> None]
      /\ knownScreens' = {} /\ status' = {}
  BY DEF StopWatchers
<1>2. WatchersTypeOK'
  BY <1>1 DEF WatchersInv, WatchersTypeOK, power
<1>3. StatusInv' /\ (~running => watching = {})'
  BY <1>1 DEF StatusInv, StatusNeverOverstates
<1>4. ASSUME OneSpace, ~WindowsListed PROVE FollowInv'
  BY <1>1, <1>4 DEF WatchersInv, FollowInv, WindowsFollowed, ScreensFollowed,
     PowerFollowed, Open
<1> QED
  BY <1>2, <1>3, <1>4 DEF WatchersInv

-----------------------------------------------------------------------------
\* A step of the audio devices or the clipboard, or no step at all
LEMMA ObserverStep ==
  ASSUME WatchersInv, UNCHANGED <<running, watching, windows, topology, power, states,
                                  pending, told>>,
         changes' \in 0 .. MaxChanges
  PROVE  WatchersInv'
<1>1. WatchersTypeOK' /\ StatusInv' /\ (~running => watching = {})'
  BY DEF WatchersInv, WatchersTypeOK, StatusInv, StatusNeverOverstates, windows,
     topology, power, states
<1>2. ASSUME OneSpace, ~WindowsListed PROVE FollowInv'
  BY <1>2 DEF WatchersInv, FollowInv, WindowsFollowed, ScreensFollowed,
     PowerFollowed, Open, windows, topology, power
<1> QED
  BY <1>1, <1>2 DEF WatchersInv

LEMMA WatchersStep == WatchersInv /\ [NextWatchers]_allVars => WatchersInv'
<1> SUFFICES ASSUME WatchersInv, [NextWatchers]_allVars PROVE WatchersInv'
  OBVIOUS
<1>1. ASSUME NEW d \in Device \cup {None}, DeviceSet(d) PROVE WatchersInv'
  <2>1. UNCHANGED <<running, watching, windows, topology, power, states, pending, told>>
    BY <1>1 DEF DeviceSet, SetOutput, SetInput, Change, windows, topology, power, states
  <2>2. changes' \in 0 .. MaxChanges
    BY <1>1, ChangeType DEF DeviceSet, WatchersInv
  <2> QED
    BY <2>1, <2>2, ObserverStep
<1>2. ASSUME UNCHANGED <<running, observed>> PROVE WatchersInv'
  <2>1. UNCHANGED <<running, watching, windows, topology, power, states, pending, told, changes>>
    BY <1>2 DEF observed
  <2> QED
    BY <2>1, ObserverStep DEF WatchersInv, WatchersTypeOK
<1>3. ASSUME NEW which \in {"output", "input"}, DefaultChanged(which), UNCHANGED observed
      PROVE  WatchersInv'
  BY <1>2, <1>3 DEF DefaultChanged
<1>4. ASSUME ClipboardCallback, UNCHANGED observed PROVE WatchersInv'
  BY <1>2, <1>4 DEF ClipboardCallback
<1>5. ASSUME UNCHANGED allVars PROVE WatchersInv'
  BY <1>2, <1>5 DEF allVars, vars
<1> QED
  BY <1>1, <1>3, <1>4, <1>5, ResizeStep, CloseStep, WindowMovedStep, WindowForgottenStep,
     ScreensStep, PowerStep, SessionStep, ScreensaverStep, StartStep, StopStep, Zenon
  DEF NextWatchers

LEMMA WatchersInvariant == SpecWatchers => []WatchersInv
BY WatchersInit, WatchersStep, PTL DEF SpecWatchers

\* The variables of the watchers keep their types; in particular a snapshot is
\* always of a size that a window had.
THEOREM WatchersTyped == SpecWatchers => []WatchersTypeOK
<1>1. WatchersInv => WatchersTypeOK
  BY DEF WatchersInv
<1> QED
  BY <1>1, WatchersInvariant, PTL

\* Over any stops, partial starts and missed changes, system.status never says of
\* a Mac that it is locked, asleep or dark when it is not.
THEOREM StatusIsNoOverstatement == SpecWatchers => []StatusNeverOverstates
<1>1. WatchersInv => StatusNeverOverstates
  BY DEF WatchersInv, StatusInv
<1> QED
  BY <1>1, WatchersInvariant, PTL

\* With one Space and a client that learns the size of a window from its first
\* event, who follows the events knows windows, screens and power source.
THEOREM ChangesAreTold ==
  ASSUME OneSpace, ~WindowsListed
  PROVE  SpecWatchers => []ChangesTold
<1>1. WatchersInv => ChangesTold
  <2> SUFFICES ASSUME WatchersInv PROVE ChangesTold
    OBVIOUS
  <2>1. FollowInv
    BY DEF WatchersInv
  <2> QED
    BY <2>1 DEF ChangesTold, FollowInv, WindowsFollowed, ScreensFollowed, PowerFollowed
<1> QED
  BY <1>1, WatchersInvariant, PTL
=============================================================================
