------------------------------ MODULE Watchers ------------------------------
(***************************************************************************)
(* The whole of watchers.lua: the observers of Observers together with the *)
(* callbacks that compare what they see with what they saw before, that is *)
(* windows, screens, power source and session.  A notice of macOS reaches  *)
(* its callback some time after the change, and the callback reads what is *)
(* true by then.  (Applications, Wi-Fi and the other window events pass on *)
(* what they are given and keep nothing.)                                  *)
(***************************************************************************)
EXTENDS Observers, FiniteSets

CONSTANTS
    Window, Size,       \* windows that are open at first; ids are not used again
    Screen,
    Source,             \* power sources
    OneSpace,           \* allWindows() returns the windows of every Space
    WindowsListed,      \* the client has listed the windows at the start
    MaxChanges          \* bound on the changes of windows, screens, power,
                        \* session and audio devices

ASSUME WatchersAssumption ==
    /\ None \notin Size \cup Source
    /\ {OneSpace, WindowsListed} \subseteq BOOLEAN
    /\ MaxChanges \in Nat

VARIABLES
    watching,           \* which watchers M.start has come to start
    frames,             \* previous_frames, their sizes
    knownScreens,       \* known_screens
    previousSource,     \* previous_power_source
    status,             \* which flags of state.lua are up
    \* macOS
    size, screens, source, session,
    moved, destroyed,   \* windows of which macOS has to notify that still
    pending,            \* which of screens and power have changed unnotified
    changes,
    \* what a client knows that follows window.resized, screen.connected,
    \* screen.disconnected and power.sourceChanged
    told

windows == <<frames, size, moved, destroyed>>
topology == <<knownScreens, screens>>
power == <<previousSource, source>>
states == <<status, session>>
observed == <<windows, topology, power, states, pending, changes, watching, told>>
allVars == <<vars, observed>>

\* One more change of the Mac; nothing of the watchers hears of it yet.
Change ==
    /\ changes < MaxChanges
    /\ changes' = changes + 1
    /\ UNCHANGED <<watching, frames, knownScreens, previousSource, told>>

-----------------------------------------------------------------------------
\* Windows

Open == {w \in Window : size[w] # None}

Resize(w, s) ==
    /\ w \in Open /\ s # size[w]
    /\ size' = [size EXCEPT ![w] = s]
    /\ moved' = moved \cup {w}
    /\ Change
    /\ UNCHANGED <<vars, destroyed, screens, source, states, pending>>

Move(w) ==
    /\ w \in Open
    /\ moved' = moved \cup {w}
    /\ Change
    /\ UNCHANGED <<vars, size, destroyed, screens, source, states, pending>>

\* "force-quit and other macOS paths ... do not deliver a matching destroy
\* notification".
Close(w, noticed) ==
    /\ w \in Open
    /\ size' = [size EXCEPT ![w] = None]
    /\ destroyed' = IF noticed THEN destroyed \cup {w} ELSE destroyed
    /\ Change
    /\ UNCHANGED <<vars, moved, screens, source, states, pending>>

\* Mutant of EmitWindowChange: the first frame is kept for good.
EmitWindowChangeFirst(w, s) ==
    LET resized == frames[w] # None /\ frames[w] # s
    IN  /\ frames' = [frames EXCEPT ![w] = IF frames[w] = None THEN s ELSE @]
        /\ told' = IF resized \/ told.size[w] = None
                   THEN [told EXCEPT !.size[w] = s] ELSE told

\* emit_window_change("window.moved", window) of a window of size s: resized if
\* the last frame had another size.  The first event tells the client the size.
EmitWindowChange(w, s) ==
    LET resized == frames[w] # None /\ frames[w] # s
    IN  /\ frames' = [frames EXCEPT ![w] = s]
        /\ told' = IF resized \/ told.size[w] = None
                   THEN [told EXCEPT !.size[w] = s] ELSE told

\* A window that is closed by now may still have a frame.
WindowMoved(w) ==
    /\ w \in moved
    /\ moved' = moved \ {w}
    /\ \/ /\ "windows" \in watching
          /\ IF w \in Open THEN EmitWindowChange(w, size[w])
             ELSE \E s \in Size : EmitWindowChange(w, s)
       \/ /\ "windows" \notin watching \/ w \notin Open
          /\ UNCHANGED <<frames, told>>
    /\ UNCHANGED <<vars, size, destroyed, topology, power, states, pending, changes, watching>>

WindowDestroyed(w) ==
    /\ w \in destroyed
    /\ destroyed' = destroyed \ {w}
    /\ frames' = IF "windows" \in watching THEN [frames EXCEPT ![w] = None] ELSE frames
    /\ UNCHANGED <<vars, size, moved, topology, power, states, pending, changes, watching, told>>

\* Mutant of PrunePreviousFrames: the frames of the live windows go.
PruneLive(live) ==
    /\ "windows" \in watching
    /\ frames' = [w \in Window |-> IF w \in live THEN None ELSE frames[w]]
    /\ UNCHANGED <<vars, size, moved, destroyed, topology, power, states, pending,
                    changes, watching, told>>

\* prune_previous_frames(), every five minutes.
PrunePreviousFrames(live) ==
    /\ "windows" \in watching
    /\ frames' = [w \in Window |-> IF w \in live THEN frames[w] ELSE None]
    /\ UNCHANGED <<vars, size, moved, destroyed, topology, power, states, pending,
                    changes, watching, told>>
Prune == \E live \in SUBSET Open : (OneSpace => live = Open) /\ PrunePreviousFrames(live)

-----------------------------------------------------------------------------
\* Screens and power source

SetScreens(current) ==
    /\ current # screens
    /\ screens' = current
    /\ pending' = pending \cup {"screens"}
    /\ Change
    /\ UNCHANGED <<vars, size, moved, destroyed, source, states>>

\* Mutant of ScreenTopology: the new screens are added to the known ones.
ScreenTopologyAdds ==
    /\ told' = [told EXCEPT !.screens = (@ \cup (screens \ knownScreens))
                                            \ (knownScreens \ screens)]
    /\ knownScreens' = knownScreens \cup screens

\* screen_topology(): connected for the screens that are new, disconnected for
\* the ones that are missing.
ScreenTopology ==
    /\ told' = [told EXCEPT !.screens = (@ \cup (screens \ knownScreens))
                                            \ (knownScreens \ screens)]
    /\ knownScreens' = screens

ScreensChanged ==
    /\ "screens" \in pending
    /\ pending' = pending \ {"screens"}
    /\ IF "screens" \in watching THEN ScreenTopology
       ELSE UNCHANGED <<knownScreens, told>>
    /\ UNCHANGED <<vars, windows, screens, power, states, changes, watching>>

SetSource(s) ==
    /\ s # source
    /\ source' = s
    /\ pending' = pending \cup {"power"}
    /\ Change
    /\ UNCHANGED <<vars, size, moved, destroyed, screens, states>>

\* The callback of battery.watcher
BatteryChanged ==
    /\ "power" \in pending
    /\ pending' = pending \ {"power"}
    /\ IF "power" \in watching /\ source # previousSource
       THEN /\ previousSource' = source
            /\ told' = [told EXCEPT !.source = source]
       ELSE UNCHANGED <<previousSource, told>>
    /\ UNCHANGED <<vars, windows, topology, source, states, changes, watching>>

-----------------------------------------------------------------------------
\* Session: macOS calls back while the change is made.

\* The flags that go up and down with a condition
Flags(condition) ==
    IF condition = "screensSleep" THEN {"screens_sleeping", "screensaver"}
    ELSE {condition}

\* The callback of caffeinate.watcher
CaffeinateEvent(condition, begins) ==
    status' = IF "session" \notin watching THEN status
              ELSE IF begins THEN status \cup Flags(condition)
              ELSE status \ Flags(condition)

SessionChanges(condition) ==
    /\ session' = IF condition \in session THEN session \ {condition}
                  ELSE session \cup {condition}
    /\ CaffeinateEvent(condition, condition \notin session)
    /\ Change
    /\ UNCHANGED <<vars, size, moved, destroyed, screens, source, pending>>

\* system.screensaver; how the screen saver ends is not watched.
StartScreensaver ==
    /\ running
    /\ status' = status \cup {"screensaver"}
    /\ Change
    /\ UNCHANGED <<vars, size, moved, destroyed, screens, source, session, pending>>

-----------------------------------------------------------------------------
\* M.start and M.stop

\* What was started when M.start ends or raises, together with the part of it
\* that Observers tells
Started(reach) ==
    LET first == {"windows", "screens", "session"}
    IN  CASE reach = "nothing"      -> {{}, {"windows"}, {"windows", "screens"}, first}
          [] reach \in {"audioWatcher", "rebuild"} -> {first}
          [] reach = "audioDevices" -> {first, first \cup {"power"}}
          [] reach = "clipboard"    -> {first \cup {"power"}}

\* A client asks for the state of the Mac once the service runs.
StartWatchers(reach) ==
    /\ Start(reach)
    /\ watching' \in Started(reach)
    /\ knownScreens' = IF "screens" \in watching' THEN knownScreens \cup screens
                       ELSE knownScreens
    /\ previousSource' = IF "power" \in watching' THEN source ELSE previousSource
    /\ told' = [size    |-> IF WindowsListed THEN size ELSE [w \in Window |-> None],
                screens |-> screens,
                source  |-> source]
    /\ UNCHANGED <<windows, screens, source, states, pending, changes>>

\* Mutant of StopWatchers: the flags of state.lua stay.
StopWatchersKeepsStatus ==
    /\ Stop
    /\ watching' = {}
    /\ frames' = [w \in Window |-> None]
    /\ knownScreens' = {}
    /\ UNCHANGED <<size, moved, destroyed, screens, power, states, pending, changes, told>>

StopWatchers ==
    /\ Stop
    /\ watching' = {}
    /\ frames' = [w \in Window |-> None]
    /\ knownScreens' = {}
    /\ status' = {}
    /\ UNCHANGED <<size, moved, destroyed, screens, power, session, pending, changes, told>>

-----------------------------------------------------------------------------

\* The changes of the default audio devices count too.
DeviceSet(d) ==
    /\ SetOutput(d) \/ SetInput(d)
    /\ Change
    /\ UNCHANGED <<size, moved, destroyed, screens, source, states, pending>>

InitWatchers ==
    /\ Init
    /\ watching = {} /\ status = {} /\ session = {}
    /\ frames = [w \in Window |-> None]
    /\ size \in [Window -> Size]
    /\ screens \in SUBSET Screen /\ knownScreens = {}
    /\ source \in Source /\ previousSource = None
    /\ moved = {} /\ destroyed = {} /\ pending = {} /\ changes = 0
    /\ told = [size |-> frames, screens |-> screens, source |-> source]

NextWatchers ==
    \/ \E w \in Window : \/ \E s \in Size : Resize(w, s)
                         \/ Move(w)
                         \/ \E noticed \in BOOLEAN : Close(w, noticed)
                         \/ WindowMoved(w)
                         \/ WindowDestroyed(w)
    \/ Prune
    \/ \E current \in SUBSET Screen : SetScreens(current)
    \/ ScreensChanged
    \/ \E s \in Source : SetSource(s)
    \/ BatteryChanged
    \/ \E condition \in {"locked", "sleeping", "screensSleep"} : SessionChanges(condition)
    \/ StartScreensaver
    \/ \E d \in Device \cup {None} : DeviceSet(d)
    \/ \E which \in {"output", "input"} : DefaultChanged(which) /\ UNCHANGED observed
    \/ ClipboardCallback /\ UNCHANGED observed
    \/ \E reach \in Reach : StartWatchers(reach)
    \/ StopWatchers

SpecWatchers == InitWatchers /\ [][NextWatchers]_allVars

\* The clipboard callback that is registered runs within two seconds, a notice
\* is delivered, and the pruner runs every five minutes; allWindows() may fail at
\* times, but not for ever.
WatchersFairness ==
    /\ WF_allVars(ClipboardCallback /\ UNCHANGED observed)
    /\ WF_allVars(Prune)
    /\ \A w \in Window : WF_allVars(WindowMoved(w))

FairWatchers == SpecWatchers /\ WatchersFairness

-----------------------------------------------------------------------------

WatchersTypeOK ==
    /\ watching \subseteq {"windows", "screens", "session", "power"}
    /\ frames \in [Window -> Size \cup {None}]
    /\ size \in [Window -> Size \cup {None}]
    /\ knownScreens \subseteq Screen /\ screens \subseteq Screen
    /\ previousSource \in Source \cup {None} /\ source \in Source
    /\ status \subseteq {"locked", "sleeping", "screens_sleeping", "screensaver"}
    /\ session \subseteq {"locked", "sleeping", "screensSleep"}
    /\ moved \subseteq Window /\ destroyed \subseteq Window
    /\ pending \subseteq {"screens", "power"}
    /\ changes \in 0 .. MaxChanges
    /\ told \in [size : [Window -> Size \cup {None}], screens : SUBSET Screen,
                 source : Source]

\* Who follows the events knows the screens, the power source and the size of
\* each window that has had an event, as soon as no change waits to be notified:
\* snapshots are neither stale nor skipped, over starts, stops and pruning.
\* Violated without OneSpace, and for a client that knows the sizes before the first
\* event (WatchersDocs.cfg): "The service keeps the
\* last frame for each observed window so it can derive window.resized".
ChangesTold ==
    /\ "windows" \in watching =>
         \A w \in Open : w \in moved \/ told.size[w] \in {size[w], None}
    /\ "screens" \in watching /\ "screens" \notin pending => told.screens = screens
    /\ "power" \in watching /\ "power" \notin pending => told.source = source

\* system.status never says of a Mac that is awake and unlocked that it is
\* not, although the watcher misses what happens between a stop and a start.
StatusNeverOverstates ==
    status \ {"screensaver"} \subseteq UNION {Flags(c) : c \in session}

\* Violated (WatchersDocs.cfg).  system.status: "Tracked lock/sleep state".
StatusIsTracked ==
    running /\ watching = {"windows", "screens", "session", "power"}
        => status = UNION {Flags(c) : c \in session}

\* A window that is closed does not keep its frame, even if its destruction is
\* not notified or a late movement brings it back.
FramesPruned ==
    \A w \in Window : w \notin Open /\ frames[w] # None ~> frames[w] = None
=============================================================================
