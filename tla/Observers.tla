----------------------------- MODULE Observers -----------------------------
(***************************************************************************)
(* The observers of watchers.lua that rebuild or register themselves while *)
(* the service runs: the watchers of the default audio devices, and the    *)
(* clipboard callback.  M.start may fail half way; M.stop must undo what   *)
(* there is.  Watchers adds the other watchers.                            *)
(***************************************************************************)
EXTENDS Naturals

CONSTANTS
    Device,         \* uids of audio devices
    None,
    AlwaysOutput,   \* there is always a default output device
    PromptStarts,   \* M.start may come before a clipboard callback that was
                    \* registered before M.stop has run
    MaxStarts       \* bound on the calls of M.start

ASSUME ObserversAssumption ==
    /\ None \notin Device
    /\ {AlwaysOutput, PromptStarts} \subseteq BOOLEAN
    /\ MaxStarts \in Nat

VARIABLES
    audioDevices,       \* watchers.audio_devices
    audioDeviceUids,    \* watchers.audio_device_uids
    clipboardActive,    \* clipboard_active
    running,            \* M.start was called, and M.stop not yet
    \* Hammerspoon and macOS
    audioWatching,      \* audio.watcher has the callback and runs
    attached,           \* the devices with a handle that has audio_device_callback
    clipboardWaits,     \* how many clipboard callbacks are registered
    output, input,      \* the default devices
    notices,            \* which of them changed and is still to be notified
    starts,
    \* history
    failed,             \* the devices whose watcherStart raised with the callback set
    raised              \* the rebuild for the present uids raised

devices == <<audioDevices, audioDeviceUids, attached, failed, raised>>
audio == <<devices, audioWatching>>
clipboard == <<clipboardActive, clipboardWaits>>
defaults == <<output, input, notices>>
vars == <<audio, clipboard, defaults, running, starts>>

-----------------------------------------------------------------------------
\* The default audio devices

\* Without an output device ipairs finds nil first, and no input device.
Desired == IF output = None THEN {} ELSE {output, input} \ {None}

\* The devices that are set up before d is: the output device comes first.
Before(d) == IF d = output THEN {} ELSE {output}

\* The devices that keep a callback when the recorded ones are cleared: a handle that
\* was never recorded is not cleared with a later one of the same device.
Uncleared == attached \ (audioDevices \ failed)

\* The loop over the desired devices, which raises at failing unless it is None; set:
\* it was watcherStart that raised, after watcherCallback.
Rebuild(failing, set, uncleared) ==
    LET recorded == IF failing = None THEN Desired ELSE Before(failing)
        lost == IF set THEN {failing} ELSE {}
    IN  /\ audioDeviceUids' = Desired
        /\ audioDevices' = recorded
        /\ attached' = uncleared \cup recorded \cup lost
        /\ failed' = failed \cup lost
        /\ raised' = (failing # None)

\* Mutants of Refresh: the old devices keep their callback, or as many devices
\* pass for the same devices.
RefreshKeepsOld(failing, set) ==
    /\ set => failing # None
    /\ IF audioDeviceUids = Desired
       THEN failing = None /\ UNCHANGED devices
       ELSE Rebuild(failing, set, attached)
RefreshIfNone(failing, set) ==
    /\ set => failing # None
    /\ IF audioDeviceUids # {} /\ Desired # {}
       THEN failing = None /\ UNCHANGED devices
       ELSE Rebuild(failing, set, Uncleared)

\* refresh_audio_devices(): nothing happens unless the uids have changed.
Refresh(failing, set) ==
    /\ set => failing # None
    /\ IF audioDeviceUids = Desired
       THEN failing = None /\ UNCHANGED devices
       ELSE Rebuild(failing, set, Uncleared)

\* The callback of audio.watcher for dOut or dIn; nobody is told otherwise.
DefaultChanged(which) ==
    /\ which \in notices
    /\ notices' = notices \ {which}
    /\ IF audioWatching
       THEN \E failing \in Desired \cup {None}, set \in BOOLEAN : Refresh(failing, set)
       ELSE UNCHANGED devices
    /\ UNCHANGED <<audioWatching, clipboard, output, input, running, starts>>

SetOutput(d) ==
    /\ d # output
    /\ AlwaysOutput => d # None
    /\ output' = d
    /\ notices' = notices \cup {"output"}
    /\ UNCHANGED <<audio, clipboard, input, running, starts>>

SetInput(d) ==
    /\ d # input
    /\ input' = d
    /\ notices' = notices \cup {"input"}
    /\ UNCHANGED <<audio, clipboard, output, running, starts>>

-----------------------------------------------------------------------------
\* clipboard_callback(changed), on a change or after two seconds: registers
\* itself again while the clipboard is watched.
ClipboardCallback ==
    /\ clipboardWaits > 0
    /\ clipboardWaits' = IF clipboardActive THEN clipboardWaits ELSE clipboardWaits - 1
    /\ UNCHANGED <<audio, clipboardActive, defaults, running, starts>>

-----------------------------------------------------------------------------
\* M.start and M.stop

\* How far M.start gets before one of its calls raises, which the lifecycle
\* facade catches
Reach == {"nothing", "audioWatcher", "rebuild", "audioDevices", "clipboard"}

Start(reach) ==
    /\ ~running
    /\ starts < MaxStarts
    /\ PromptStarts \/ clipboardWaits = 0
    /\ running' = TRUE
    /\ starts' = starts + 1
    /\ audioWatching' = (reach # "nothing")
    /\ \/ reach \in {"nothing", "audioWatcher"} /\ UNCHANGED devices
       \/ reach = "rebuild" /\ \E d \in Desired, set \in BOOLEAN : Refresh(d, set)
       \/ reach \in {"audioDevices", "clipboard"} /\ Refresh(None, FALSE)
    /\ IF reach = "clipboard"
       THEN clipboardActive' = TRUE /\ clipboardWaits' = clipboardWaits + 1
       ELSE UNCHANGED clipboard
    /\ UNCHANGED defaults

\* The table of the watchers is given up, and what it records is cleared.
ReleaseDevices ==
    /\ audioDevices' = {}
    /\ audioDeviceUids' = {}
    /\ attached' = Uncleared
    /\ raised' = FALSE
    /\ UNCHANGED failed

\* Mutant of Stop: the clipboard callback is left to go on.
StopKeepsClipboard ==
    /\ running
    /\ running' = FALSE
    /\ ReleaseDevices
    /\ audioWatching' = FALSE
    /\ UNCHANGED <<clipboard, defaults, starts>>

\* The clipboard callback is left to find the flag down.
Stop ==
    /\ running
    /\ running' = FALSE
    /\ ReleaseDevices
    /\ audioWatching' = FALSE
    /\ clipboardActive' = FALSE
    /\ UNCHANGED <<clipboardWaits, defaults, starts>>

-----------------------------------------------------------------------------

Init ==
    /\ audioDevices = {}
    /\ clipboardActive = FALSE
    /\ running = FALSE
    /\ audioWatching = FALSE
    /\ audioDeviceUids = {} /\ attached = {} /\ failed = {} /\ raised = FALSE
    /\ clipboardWaits = 0
    /\ output \in IF AlwaysOutput THEN Device ELSE Device \cup {None}
    /\ input \in Device \cup {None}
    /\ notices = {}
    /\ starts = 0

Next ==
    \/ \E which \in {"output", "input"} : DefaultChanged(which)
    \/ \E d \in Device \cup {None} : SetOutput(d) \/ SetInput(d)
    \/ ClipboardCallback
    \/ \E reach \in Reach : Start(reach)
    \/ Stop

Spec == Init /\ [][Next]_vars

-----------------------------------------------------------------------------

TypeOK ==
    /\ audioDevices \subseteq Device /\ audioDeviceUids \subseteq Device
    /\ attached \subseteq Device /\ failed \subseteq Device /\ raised \in BOOLEAN
    /\ clipboardActive \in BOOLEAN /\ running \in BOOLEAN
    /\ audioWatching \in BOOLEAN
    /\ clipboardWaits \in 0 .. MaxStarts
    /\ output \in Device \cup {None} /\ input \in Device \cup {None}
    /\ notices \subseteq {"output", "input"}
    /\ starts \in 0 .. MaxStarts
    /\ clipboardActive => running
    /\ clipboardActive => clipboardWaits > 0

\* The devices that hold a Lua callback are those that the module has recorded and would
\* clear, and otherwise only such of which watcherStart raised before they could be
\* recorded: no rebuild, partial rebuild, partial start or stop leaves another behind.
NoDeviceLeft == audioDevices \subseteq attached /\ attached \subseteq audioDevices \cup failed

\* Once changes have been notified the default devices are watched, and no other, unless
\* the rebuild for them raised: its uids keep the next refresh from trying again.
DefaultsWatched ==
    audioWatching /\ notices = {} /\ clipboardActive /\ ~raised
        => /\ {output, input} \ {None} \subseteq attached
           /\ attached \subseteq {output, input} \cup failed

\* Violated when watcherStart raises (WatchersDocs.cfg): "watchers.stop() performs the same
\* callback cleanup ... Reloads therefore do not accumulate ... CoreAudio ... callbacks."
DevicesReleased == ~running => attached = {}

\* Violated when M.start comes soon after M.stop (WatchersDocs.cfg): "Reloads
\* therefore do not accumulate ... clipboard observer callbacks."
OneClipboardCallback == clipboardWaits <= 1

\* A stopped service has no clipboard callback left after a while.
ClipboardEnds == ~running ~> clipboardWaits = 0 \/ running
=============================================================================
