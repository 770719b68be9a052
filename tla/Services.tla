------------------------------ MODULE Services ------------------------------
(***************************************************************************)
(* The RPC methods of the Lua services, called through the namespaces of   *)
(* the Python client or through MacAPI.call, on a Mac whose application,   *)
(* window and screens come and go between the calls, and the events of     *)
(* watchers.lua on their way to a class of the client.                     *)
(*                                                                         *)
(* A handler is a sequence of checks, in the order of the code, and then   *)
(* what it does.  A request is described by what those checks tell apart.  *)
(***************************************************************************)
EXTENDS Contract, Integers, FiniteSets, FiniteSetsExt

CONSTANTS
    Screen,         \* displays that may be attached
    ScreenFrame,    \* the usable frame of each, in tenths of a point
    CenterWidth,    \* the largest frame of position "center" (1200 by 800 points)
    CenterHeight,
    None

\* Whole points, in tenths: the halves and fifths that windows.lua computes are whole too.
Points == {n \in Nat \ {0} : n % 10 = 0}

ASSUME ScreenAssumption ==
    /\ ScreenFrame \in [Screen -> [x : Int, y : Int, w : Points, h : Points]]
    /\ {CenterWidth, CenterHeight} \subseteq Points

\* The codes the services refuse a request with
ErrorCodes ==
    {"INVALID_PARAMS", "FEATURE_DISABLED", "APP_NOT_FOUND", "WINDOW_NOT_FOUND",
     "SCREEN_NOT_FOUND", "SCREENSHOT_TOO_LARGE", "INTERNAL_ERROR"}

ASSUME NoneAssumption == None \notin ErrorCodes

VARIABLES
    config,     \* dangerous_actions_enabled, and whether the server marks empty objects
    mac,        \* the application, its window, and the attached screens
    last,       \* history: the last call and how it ended, or None
    event       \* history: the last event and what the client made of it, or None

vars == <<config, mac, last, event>>

-----------------------------------------------------------------------------
\* Requests.  The identifier names something known to the service, or not, or is
\* not of the type wanted; a screen's is known if the screen is attached.  The
\* value stands for the other parameters: they fit, or one is of the right type
\* but out of range or not supported, or one is missing or of another type.  Of either,
\* a string that must not be may be empty.

Values == {"fits", "unsupported", "malformed"}

AppMethods == {"apps.open", "apps.focus", "apps.hide", "apps.unhide", "apps.quit"}
WindowMethods == {"windows.get", "windows.focus", "windows.minimize", "windows.unminimize",
                  "windows.maximize", "windows.setFullscreen", "windows.setFrame", "windows.move"}

Ids(method) ==
    CASE method \in AppMethods -> {"known", "unknown", "empty", "malformed"}
      [] method \in WindowMethods -> {"known", "unknown", "malformed"}
      [] method \in {"screens.get", "screens.setBrightness"} -> Screen \cup {"empty", "malformed"}
      [] method = "screens.screenshot" -> Screen \cup {"empty", "malformed", None}
      [] OTHER -> {None}

ValuesOf(method) ==
    CASE method = "windows.move" -> WindowPosition \cup {"unsupported", "malformed"}
      [] method \in {"screens.setBrightness", "screens.screenshot", "audio.setVolume",
                     "input.mouseClick"} -> Values
      [] method = "input.keystroke" -> Values \cup {"empty"}
      [] method \in {"windows.setFullscreen", "windows.setFrame", "audio.setMuted",
                     "input.mouseMove"} -> {"fits", "malformed"}
      [] method \in {"clipboard.set", "input.type"} -> {"fits", "empty", "malformed"}
      [] OTHER -> {"fits"}

\* A call of a namespace method whose arguments have the types it declares
\* ("typed"; an empty string is a str), or one of MacAPI.call, which takes any.
Declared(method, id, value) ==
    /\ id # "malformed" /\ value # "malformed"
    /\ value = "unsupported" => method \in {"screens.setBrightness", "audio.setVolume"}

Requests ==
    UNION {{[method |-> m, id |-> i, value |-> v, typed |-> t] :
                i \in Ids(m), v \in ValuesOf(m), t \in BOOLEAN} : m \in DOMAIN ResultType}

\* Mutant of RefusedLocally: the namespaces leave the range to the server.
RefusedLocallyNever(r) == FALSE

\* set_brightness and set_volume raise ValueError and send nothing.
RefusedLocally(r) == r.typed /\ r.value = "unsupported"

-----------------------------------------------------------------------------
\* Handlers.  An outcome has the error code or None, the result, the calls into
\* macOS that change something, and the Mac afterwards.

Refused(code) == [code |-> code, result |-> Null, did |-> {}, mac |-> mac, of |-> None]
Answer(json) == [code |-> None, result |-> json, did |-> {}, mac |-> mac, of |-> None]
Does(call, new) == [Answer(Null) EXCEPT !.did = {call}, !.mac = new]

\* The first check that fails decides; a check is <<failed, code>>.
Checked(checks, outcomes) ==
    LET failed == {i \in DOMAIN checks : checks[i][1]}
    IN IF failed = {} THEN outcomes ELSE {Refused(checks[Min(failed)][2])}

\* validators.lua, and the sets of supported values in the services
IdRequired(r) == <<r.id \in {"empty", "malformed"}, "INVALID_PARAMS">>
ValueRequired(r) == <<r.value \in {"empty", "malformed"}, "INVALID_PARAMS">>
ValueSupported(r) == <<r.value = "unsupported", "INVALID_PARAMS">>
Enabled == <<~config.dangerous, "FEATURE_DISABLED">>

\* hs.json writes an empty table as []; empty_object() makes it {} on a server
\* that has the marker.
Marked(fields) == IF fields = {} /\ ~config.marker THEN Array({}) ELSE Object(fields)

\* The objects with all of the fields "always" and any of "sometimes", which may be nil
Objects(always, sometimes) == {always \cup s : s \in SUBSET sometimes}

application_info == Objects({"name", "pid", "hidden", "frontmost"}, {"bundle_id"})
window_info ==
    Objects({"title", "app", "focused", "visible", "minimized", "fullscreen", "frame"},
            {"id", "bundle_id"})
screen_info == Objects({"id", "name", "primary", "frame"}, {"uuid", "brightness"})

\* Of a list, the result shows one kind of object.
Listed(any, objects) == {Answer(Array(s)) : s \in IF any THEN {{o} : o \in objects} ELSE {{}}}
Snapshot(objects) == {Answer(Object(o)) : o \in objects}

-----------------------------------------------------------------------------
\* apps.lua.  application.get finds an application that has come up.

Running == mac.app \in {"shown", "hidden"}

AppFound(r) == <<r.id = "unknown" \/ ~Running, "APP_NOT_FOUND">>

\* launchOrFocusByBundleID, of an application that is installed
Launched == {[mac EXCEPT !.app = a] : a \in IF Running THEN {"shown"} ELSE {"starting", "shown"}}

Open(r) ==
    Checked(<<IdRequired(r), <<r.id = "unknown", "APP_NOT_FOUND">>>>,
            UNION {IF m.app = "starting"
                   THEN {[Refused("APP_NOT_FOUND") EXCEPT !.did = {"launch"}, !.mac = m]}
                   ELSE {[o EXCEPT !.did = {"launch"}, !.mac = m] : o \in Snapshot(application_info)}
                   : m \in Launched})

AppAction(r, call, new) == Checked(<<IdRequired(r), AppFound(r)>>, {Does(call, new)})

\* Mutant of Quit: the application is looked for, and killed, before the flag is.
QuitUngated(r) ==
    Checked(<<IdRequired(r), AppFound(r)>>,
            {IF config.dangerous THEN Does("kill", [mac EXCEPT !.app = "absent", !.window = "gone"])
             ELSE [Refused("FEATURE_DISABLED") EXCEPT !.did = {"kill"}]})

Quit(r) ==
    Checked(<<Enabled, IdRequired(r), AppFound(r)>>,
            {Does("kill", [mac EXCEPT !.app = "absent", !.window = "gone"])})

Apps(r) ==
    CASE r.method = "apps.list"      -> Listed(Running, application_info)
      [] r.method = "apps.frontmost" ->
            {Answer(Null)} \cup IF Running THEN Snapshot(application_info) ELSE {}
      [] r.method = "apps.open"      -> Open(r)
      [] r.method = "apps.focus"     -> AppAction(r, "activate", [mac EXCEPT !.app = "shown"])
      [] r.method = "apps.hide"      -> AppAction(r, "hide", [mac EXCEPT !.app = "hidden"])
      [] r.method = "apps.unhide"    -> AppAction(r, "unhide", [mac EXCEPT !.app = "shown"])
      [] r.method = "apps.quit"      -> Quit(r)

-----------------------------------------------------------------------------
\* windows.lua

WindowFound(r) == <<r.id = "unknown" \/ mac.window = "gone", "WINDOW_NOT_FOUND">>

\* The sides of the screen a frame is shifted to, and the half it is cut to
RightHalf == {"right-half", "top-right", "bottom-right"}
BottomHalf == {"bottom-half", "bottom-left", "bottom-right"}
HalfWide == RightHalf \cup {"left-half", "top-left", "bottom-left"}
HalfHigh == BottomHalf \cup {"top-half", "top-left", "top-right"}

\* Mutant of PositionFrame: the right half begins at the middle of the main screen.
PositionFrameOfMain(position, s) ==
    LET half == [s EXCEPT !.w = IF position \in HalfWide THEN s.w \div 2 ELSE s.w,
                          !.h = IF position \in HalfHigh THEN s.h \div 2 ELSE s.h]
    IN [half EXCEPT !.x = IF position \in RightHalf THEN s.w \div 2 ELSE s.x,
                    !.y = IF position \in BottomHalf THEN s.y + s.h \div 2 ELSE s.y]

\* position_frame, of a supported position on a screen with frame s
PositionFrame(position, s) ==
    IF position = "center"
    THEN LET w == Min({(s.w * 4) \div 5, CenterWidth})
             h == Min({(s.h * 4) \div 5, CenterHeight})
         IN [x |-> s.x + (s.w - w) \div 2, y |-> s.y + (s.h - h) \div 2, w |-> w, h |-> h]
    ELSE LET half == [s EXCEPT !.w = IF position \in HalfWide THEN s.w \div 2 ELSE s.w,
                               !.h = IF position \in HalfHigh THEN s.h \div 2 ELSE s.h]
         IN [half EXCEPT !.x = IF position \in RightHalf THEN s.x + s.w \div 2 ELSE s.x,
                         !.y = IF position \in BottomHalf THEN s.y + s.h \div 2 ELSE s.y]

\* The window may be on any attached screen; without one, nil:frame() raises.
Move(r) ==
    Checked(<<IdRequired(r), WindowFound(r), ValueRequired(r),
              <<mac.screens = {}, "INTERNAL_ERROR">>, ValueSupported(r)>>,
            {[Does("setFrame", mac) EXCEPT
                !.of = [screen |-> s, frame |-> PositionFrame(r.value, ScreenFrame[s])]] :
                s \in mac.screens})

WindowAction(r, call, new) == Checked(<<IdRequired(r), WindowFound(r)>>, {Does(call, new)})

SetFullscreen(r) ==
    Checked(<<ValueRequired(r), IdRequired(r), WindowFound(r)>>,
            {Does("setFullScreen", [mac EXCEPT !.window = w]) : w \in {"normal", "fullscreen"}})

Windows(r) ==
    CASE r.method = "windows.list"    -> Listed(mac.window # "gone", window_info)
      [] r.method = "windows.focused" ->
            {Answer(Null)} \cup IF mac.window # "gone" THEN Snapshot(window_info) ELSE {}
      [] r.method = "windows.get"     ->
            \* found by its id
            Checked(<<IdRequired(r), WindowFound(r)>>,
                    Snapshot({w \in window_info : "id" \in w}))
      [] r.method = "windows.focus"      -> WindowAction(r, "focus", mac)
      [] r.method = "windows.maximize"   -> WindowAction(r, "maximize", mac)
      [] r.method = "windows.minimize"   ->
            WindowAction(r, "minimize", [mac EXCEPT !.window = "minimized"])
      [] r.method = "windows.unminimize" ->
            WindowAction(r, "unminimize", [mac EXCEPT !.window = "normal"])
      [] r.method = "windows.setFullscreen" -> SetFullscreen(r)
      [] r.method = "windows.setFrame" ->
            Checked(<<IdRequired(r), WindowFound(r), ValueRequired(r)>>, {Does("setFrame", mac)})
      [] r.method = "windows.move"     -> Move(r)

-----------------------------------------------------------------------------
\* screens.lua.  setBrightness may be missing, a snapshot fail or be too large.

ScreenFound(r) == <<r.id \notin mac.screens, "SCREEN_NOT_FOUND">>

SetBrightness(r) ==
    Checked(<<IdRequired(r), ScreenFound(r), ValueRequired(r), ValueSupported(r)>>,
            {Refused("FEATURE_DISABLED"), Does("setBrightness", mac)})

\* An identifier that names no attached screen is treated as one that is not given:
\* the main screen, any of those attached, is captured.
Captured(r) == IF r.id \in mac.screens THEN {r.id} ELSE mac.screens

Screenshot(r) ==
    Checked(<<ValueRequired(r), ValueSupported(r),
              <<Captured(r) = {}, "SCREEN_NOT_FOUND">>>>,
            {Refused("FEATURE_DISABLED"), Refused("SCREENSHOT_TOO_LARGE")}
            \cup {[Answer(Object(f)) EXCEPT !.of = s] : s \in Captured(r),
                    f \in {{"mode", "mime", "encoding", "width", "height", "content"},
                           {"mode", "mime", "path", "created_at"}}})

Screens(r) ==
    CASE r.method = "screens.list" -> Listed(mac.screens # {}, screen_info)
      [] r.method = "screens.get"  ->
            Checked(<<IdRequired(r), ScreenFound(r)>>, Snapshot(screen_info))
      [] r.method = "screens.setBrightness" -> SetBrightness(r)
      [] r.method = "screens.screenshot"    -> Screenshot(r)

-----------------------------------------------------------------------------
\* audio.lua, clipboard.lua, network.lua.  There may be no device and no text.

OutputDevice == Objects({"output"}, {"output.name", "output.volume", "output.muted"})
InputDevice == Objects({"input"}, {"input.name"})

AudioDevices == {o \cup i : o \in {{}} \cup OutputDevice, i \in {{}} \cup InputDevice}

\* Without a device the request fails; what is set already is not set again.
SetOutput(r, call) ==
    Checked(<<ValueRequired(r), ValueSupported(r)>>,
            {Refused("FEATURE_DISABLED"), Answer(Null), Does(call, mac)})

ClipboardGet == {Answer(Marked(f)) : f \in {{}, {"text"}}}

Others(r) ==
    CASE r.method = "audio.get"       -> {Answer(Marked(f)) : f \in AudioDevices}
      [] r.method = "audio.setVolume" -> SetOutput(r, "setVolume")
      [] r.method = "audio.setMuted"  -> SetOutput(r, "setMuted")
      [] r.method = "clipboard.get"   -> ClipboardGet
      [] r.method = "clipboard.set"   ->
            Checked(<<ValueRequired(r)>>, {Does("setContents", mac)})
      [] r.method = "network.get"     -> {Answer(Object({"interfaces", "wifi"}))}

-----------------------------------------------------------------------------
\* system.lua, input.lua: the flag is looked at before anything else.

System(r) ==
    CASE r.method = "system.info" ->
            {Answer(Object({"hostname", "os", "os.name", "os.version", "addresses"}))}
      [] r.method = "system.status" ->
            Snapshot(Objects({"locked", "screensaver", "sleeping"},
                             {"power_source", "battery_percent"}))
      [] r.method = "system.capabilities" ->
            {Answer(Object({"protocol_version", "server_version", "transport", "framing",
                            "authentication", "security", "single_client", "methods",
                            "events", "features"}))}
      [] r.method = "system.userActivity" -> {Does("declareUserActivity", mac)}
      [] r.method \in {"system.lock", "system.screensaver"} ->
            Checked(<<Enabled>>, {Does("lock", mac)})

Input(r) == Checked(<<Enabled, ValueRequired(r), ValueSupported(r)>>, {Does("inject", mac)})

Outcomes(r) ==
    CASE r.method \in DOMAIN AppsClient    -> Apps(r)
      [] r.method \in DOMAIN WindowsClient -> Windows(r)
      [] r.method \in DOMAIN ScreensClient -> Screens(r)
      [] r.method \in DOMAIN SystemClient  -> System(r)
      [] r.method \in DOMAIN InputClient   -> Input(r)
      [] OTHER                             -> Others(r)

-----------------------------------------------------------------------------
\* Events.  What watchers.lua puts into the data of each event

window_event_data == Objects({"title", "frame"}, {"window_id", "bundle_id"})

EventData(name) ==
    CASE name \in {"application.launched", "application.terminated", "application.activated",
                   "application.hidden", "application.unhidden"} -> application_info
      [] name \in {"window.minimized", "window.unminimized", "window.fullscreenChanged"} ->
            {d \cup {"enabled"} : d \in window_event_data}
      [] name \in {"window.created", "window.focused"} -> window_event_data
      [] name \in {"window.destroyed", "window.moved", "window.resized"} ->
            \* Without an id previous_frames[id] raises first.
            {d \in window_event_data : "window_id" \in d}
      [] name \in {"screen.connected", "screen.disconnected"} ->
            Objects({"screen_id", "name"}, {"uuid"})
      [] name = "screen.changed" -> {{"screens"}}
      [] name = "clipboard.changed" -> Objects({}, {"text"})
      [] name = "wifi.changed" -> Objects({}, {"interface", "ssid"})
      [] name = "audio.deviceChanged" -> {{"event"}}
      [] name = "power.sourceChanged" -> Objects({}, {"source"})
      [] name = "power.batteryChanged" -> Objects({}, {"percentage", "source"})
      [] OTHER -> {{}}     \* the other audio events, and those of caffeinate

\* event_names
EventNames ==
    {"application.launched", "application.terminated", "application.activated",
     "application.hidden", "application.unhidden", "window.created", "window.destroyed",
     "window.focused", "window.moved", "window.resized", "window.minimized",
     "window.unminimized", "window.fullscreenChanged", "screen.connected",
     "screen.disconnected", "screen.changed", "system.willSleep", "system.didWake",
     "system.screensDidSleep", "system.screensDidWake", "system.sessionLocked",
     "system.sessionUnlocked", "wifi.changed", "audio.outputChanged", "audio.inputChanged",
     "audio.volumeChanged", "audio.muteChanged", "audio.deviceChanged",
     "clipboard.changed", "power.sourceChanged", "power.batteryChanged"}

\* What becomes of an event that comes with these fields
Received(name, fields, included, fromNewer) ==
    LET parsed == ParseEvent(name, RawData(Marked(fields)))
    IN [name |-> name, sent |-> fields, include |-> included, newer |-> fromNewer,
        class |-> parsed.class, data |-> parsed.data]

-----------------------------------------------------------------------------

\* How MacAPI.call ends with the outcome: parse_result, or an exception
Ending(r, outcome) ==
    IF outcome.code # None THEN RpcException(outcome.code)
    ELSE IF Validates(ResultType[r.method], outcome.result) THEN "returned" ELSE "ProtocolError"

Call(r) ==
    /\ event' = None
    /\ IF RefusedLocally(r)
       THEN /\ last' = [request |-> r, ending |-> "ValueError", did |-> {}]
            /\ UNCHANGED mac
       ELSE \E o \in Outcomes(r) :
               /\ last' = [request |-> r, ending |-> Ending(r, o), did |-> o.did,
                           code |-> o.code, result |-> o.result, of |-> o.of]
               /\ mac' = o.mac
    /\ UNCHANGED config

\* An event of this server, with its data or with the policy include_data = false
Deliver(name) ==
    /\ \E fields \in EventData(name), include \in BOOLEAN :
          event' = Received(name, IF include THEN fields ELSE {}, include, FALSE)
    /\ last' = None
    /\ UNCHANGED <<config, mac>>

\* An event of a newer one: the name, or all of the fields, are unknown.
DeliverNewer(name) ==
    /\ event' = Received(name, {"future"}, TRUE, TRUE)
    /\ last' = None
    /\ UNCHANGED <<config, mac>>

\* The user, and macOS: applications come up and quit, windows open and close,
\* screens are attached and detached.
Change ==
    /\ \/ /\ mac.app # "absent"
          /\ mac' = [mac EXCEPT !.app = "absent", !.window = "gone"]
       \/ /\ mac.app \in {"absent", "starting"}
          /\ mac' = [mac EXCEPT !.app = "shown"]
       \/ /\ Running
          /\ \E w \in {"gone", "normal"} \ {mac.window} : mac' = [mac EXCEPT !.window = w]
       \/ \E s \in Screen :
             mac' = [mac EXCEPT !.screens = IF s \in @ THEN @ \ {s} ELSE @ \cup {s}]
    /\ last' = None
    /\ event' = None
    /\ UNCHANGED config

Init ==
    /\ config \in [dangerous : BOOLEAN, marker : BOOLEAN]
    /\ mac = [app |-> "absent", window |-> "gone", screens |-> Screen]
    /\ last = None
    /\ event = None

Next ==
    \/ \E r \in Requests : (r.typed => Declared(r.method, r.id, r.value)) /\ Call(r)
    \/ \E name \in EventNames : Deliver(name)
    \/ \E name \in EventNames \cup {"future.event"} : DeliverNewer(name)
    \/ Change

Spec == Init /\ [][Next]_vars

-----------------------------------------------------------------------------

Sent == last # None /\ last.ending # "ValueError"
Succeeded == Sent /\ last.code = None
Fields(type) == UNION {c.needs \cup c.may : c \in type.of}

\* What the classes want and macOS may leave out: the id of a window that is not asked
\* for by it, and the name of an audio device
Nameless(method, fields) ==
    \/ method \in {"windows.list", "windows.focused"} /\ "id" \notin fields
    \/ method = "audio.get" /\ \E device \in {<<"output", "output.name">>, <<"input", "input.name">>} :
            device[1] \in fields /\ device[2] \notin fields

Shown(json) == IF json.kind = "object" THEN {json.fields} ELSE json.items

\* What the Lua services return is what the Python classes want: no result of a
\* method that succeeded is refused by parse_result, or loses a field in it,
\* whatever else macOS leaves out, and whether empty objects are marked or not.
ResultsFitTypes ==
    Succeeded =>
        /\ last.ending = IF \E o \in Shown(last.result) : Nameless(last.request.method, o)
                         THEN "ProtocolError" ELSE "returned"
        /\ last.result.kind = "object" =>
              last.result.fields \subseteq Fields(ResultType[last.request.method])

\* "A future event or an incompatible known payload arrives as UnknownEvent":
\* no event is refused; one of this server that has its data arrives as the class of
\* its name with every documented field, unless it is of a window without an id, and what
\* UnknownEvent gets it keeps.
EventsFitTypes ==
    event # None =>
        /\ event.class = "UnknownEvent" => event.data = event.sent
        /\ /\ event.include /\ ~event.newer
           /\ event.name \in DOMAIN WindowEvents => "window_id" \in event.sent
           =>
              event.class = event.name /\ event.sent \ {"hidden", "frontmost"} \subseteq event.data

\* A request that is refused has done nothing, on the server or before it is sent;
\* only apps.open may have launched an application that has not come up yet.
RefusedDoesNothing ==
    last # None /\ last.ending # "returned" =>
        last.did \subseteq (IF last.request.method = "apps.open" THEN {"launch"} ELSE {})

\* The errors each method may end with: docs/api-reference.md, by service
Documented(method) ==
    CASE method = "apps.quit" -> {"FEATURE_DISABLED", "APP_NOT_FOUND", "INVALID_PARAMS"}
      [] method \in AppMethods \ {"apps.quit"} -> {"APP_NOT_FOUND", "INVALID_PARAMS"}
      [] method \in WindowMethods -> {"WINDOW_NOT_FOUND", "INVALID_PARAMS"}
      [] method = "screens.get" -> {"SCREEN_NOT_FOUND", "INVALID_PARAMS"}
      [] method = "screens.setBrightness" ->
            {"SCREEN_NOT_FOUND", "FEATURE_DISABLED", "INVALID_PARAMS"}
      [] method = "screens.screenshot" ->
            {"SCREEN_NOT_FOUND", "SCREENSHOT_TOO_LARGE", "FEATURE_DISABLED", "INVALID_PARAMS"}
      [] method \in {"audio.setVolume", "audio.setMuted"} \cup DOMAIN InputClient ->
            {"FEATURE_DISABLED", "INVALID_PARAMS"}
      [] method = "clipboard.set" -> {"INVALID_PARAMS"}
      [] method \in {"system.lock", "system.screensaver"} -> {"FEATURE_DISABLED"}
      [] OTHER -> {}

\* A method ends with the errors it is documented to, but for a move without a
\* screen; and the literal types and ranges of the client are those of the server:
\* arguments of the declared types are INVALID_PARAMS only where a string is empty.
ErrorsDocumented ==
    Sent /\ last.code # None =>
        /\ \/ last.code \in Documented(last.request.method)
           \/ last.code = "INTERNAL_ERROR" /\ mac.screens = {}
        /\ last.request.typed /\ last.code = "INVALID_PARAMS" =>
              "empty" \in {last.request.id, last.request.value}

\* Client and server agree on how each call ends, with a result or with an error.
AnswersFit == ResultsFitTypes /\ ErrorsDocumented

\* The sides of the screen that a frame in the position lies on
Sides(position) ==
    CASE position = "left-half"    -> {"left", "top", "bottom"}
      [] position = "right-half"   -> {"right", "top", "bottom"}
      [] position = "top-half"     -> {"left", "right", "top"}
      [] position = "bottom-half"  -> {"left", "right", "bottom"}
      [] position = "top-left"     -> {"left", "top"}
      [] position = "top-right"    -> {"right", "top"}
      [] position = "bottom-left"  -> {"left", "bottom"}
      [] position = "bottom-right" -> {"right", "bottom"}
      [] position = "maximize"     -> {"left", "right", "top", "bottom"}
      [] position = "center"       -> {}

\* How far each side of the frame is from that side of the screen
Gap(side, f, s) ==
    CASE side = "left"   -> f.x - s.x
      [] side = "right"  -> (s.x + s.w) - (f.x + f.w)
      [] side = "top"    -> f.y - s.y
      [] side = "bottom" -> (s.y + s.h) - (f.y + f.h)

\* windows.move puts the window inside the screen it is on, wherever that lies
\* among the others, on exactly the sides its position names; a half leaves a half,
\* and the center has equal margins.
MovedOnScreen ==
    Succeeded /\ last.request.method = "windows.move" =>
        LET p == last.request.value
            s == ScreenFrame[last.of.screen]
            gap(side) == Gap(side, last.of.frame, s)
            free == {"left", "right", "top", "bottom"} \ Sides(p)
        IN /\ \A side \in Sides(p) : gap(side) = 0
           /\ \A side \in free : gap(side) > 0
           /\ IF p = "center"
              THEN gap("left") = gap("right") /\ gap("top") = gap("bottom")
              ELSE \A side \in free :
                      gap(side) = (IF side \in {"left", "right"} THEN s.w ELSE s.h) \div 2

\* Violated (ServicesDocs.cfg).  screens.screenshot is documented to fail with
\* SCREEN_NOT_FOUND: an identifier given names the screen that is captured.
ScreenshotOfRequested ==
    Succeeded /\ last.request.method = "screens.screenshot" =>
        last.request.id \in {None, last.of}

\* Violated (ServicesDocs.cfg).  windows.list, windows.focused and audio.get are documented
\* to have no errors: what a method returns is accepted.
ResultsAccepted == Succeeded => last.ending = "returned"

\* Violated (ServicesDocs.cfg).  "Known events map to typed event classes":
\* also those that come without their data (include_data = FALSE) or of a window
\* without an id.
KnownEventsTyped == event # None /\ ~event.newer => event.class = event.name
=============================================================================
