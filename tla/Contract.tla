------------------------------ MODULE Contract ------------------------------
(***************************************************************************)
(* What the typed client accepts: the pydantic classes of models.py and    *)
(* events.py, the result type each namespace asks for, and the tables that *)
(* choose an exception or an event class.  A JSON value is described by    *)
(* its shape and the names of its fields.  Values have the types the       *)
(* server gives them; what can go wrong is a field that is not there.      *)
(***************************************************************************)

\* Tables with no key in common, as one
Merged(tables) ==
    [key \in UNION {DOMAIN t : t \in tables} |->
        (CHOOSE t \in tables : key \in DOMAIN t)[key]]

\* "items" holds the field sets of the objects in an array.
Null == [kind |-> "null", fields |-> {}, items |-> {}]
Object(fields) == [kind |-> "object", fields |-> fields, items |-> {}]
Array(items) == [kind |-> "array", fields |-> {}, items |-> items]

-----------------------------------------------------------------------------
\* Classes of models.py: the fields that have no default, those that have one,
\* and the pairs <<part, field>> such that a part that is there has the field.

Class(needs, may) == [needs |-> needs, may |-> may, parts |-> {}]

\* Model._decode_empty_object_compatibility
Normalised(json) == IF json = Array({}) THEN Object({}) ELSE json

Accepts(class, json) ==
    LET value == Normalised(json)
    IN /\ value.kind = "object"
       /\ class.needs \subseteq value.fields
       /\ \A p \in class.parts : p[1] \in value.fields => p[2] \in value.fields

\* Mutant of ApplicationInfo: an application must have a bundle identifier.
ApplicationInfoBundled == Class({"name", "pid", "bundle_id"}, {"hidden", "frontmost"})

ApplicationInfo == Class({"name", "pid"}, {"bundle_id", "hidden", "frontmost"})

WindowInfo ==
    Class({"id", "frame"},
          {"title", "app", "bundle_id", "focused", "visible", "minimized", "fullscreen"})

ScreenInfo == Class({"id", "frame"}, {"uuid", "name", "primary", "brightness"})

\* AudioOutputInfo and AudioInputInfo are its parts.
AudioInfo ==
    [needs |-> {}, may |-> {"output", "output.name", "output.volume", "output.muted",
                            "input", "input.name"},
     parts |-> {<<"output", "output.name">>, <<"input", "input.name">>}]

\* OSInfo is a part that must be there.
SystemInfo == Class({"hostname", "os", "os.name", "os.version"}, {"addresses"})

SystemStatus ==
    Class({}, {"locked", "screensaver", "sleeping", "power_source", "battery_percent"})

Capabilities ==
    Class({"protocol_version", "server_version", "transport", "framing",
           "authentication", "security", "single_client"},
          {"methods", "events", "features"})

ClipboardText == Class({}, {"text"})

NetworkInfo == Class({}, {"interfaces", "wifi"})

InlineScreenshot == Class({"mode", "mime", "encoding", "width", "height", "content"}, {})

FileScreenshot == Class({"mode", "mime", "path", "created_at"}, {})

\* WindowPosition
WindowPosition ==
    {"left-half", "right-half", "top-half", "bottom-half", "center", "maximize",
     "top-left", "top-right", "bottom-left", "bottom-right"}

-----------------------------------------------------------------------------
\* The result types of the namespaces: a shape, and the classes it may be of.

Nothing == [shape |-> "none", of |-> {}]
One(class) == [shape |-> "one", of |-> {class}]
Optional(class) == [shape |-> "optional", of |-> {class}]
ListOf(class) == [shape |-> "list", of |-> {class}]
Union(classes) == [shape |-> "one", of |-> classes]

\* parse_result: whether TypeAdapter(result_type) validates the result
Validates(type, json) ==
    CASE type.shape = "none"     -> json = Null
      [] type.shape = "list"     ->
            json.kind = "array" /\ \A i \in json.items, c \in type.of : Accepts(c, Object(i))
      [] type.shape = "one"      -> \E c \in type.of : Accepts(c, json)
      [] type.shape = "optional" -> json = Null \/ \E c \in type.of : Accepts(c, json)

AppsClient ==
    [m \in {"apps.list", "apps.frontmost", "apps.open", "apps.focus", "apps.hide",
            "apps.unhide", "apps.quit"} |->
        CASE m = "apps.list"      -> ListOf(ApplicationInfo)
          [] m = "apps.frontmost" -> Optional(ApplicationInfo)
          [] m = "apps.open"      -> One(ApplicationInfo)
          [] OTHER                -> Nothing]

WindowsClient ==
    [m \in {"windows.list", "windows.focused", "windows.get", "windows.focus",
            "windows.setFrame", "windows.move", "windows.maximize", "windows.minimize",
            "windows.unminimize", "windows.setFullscreen"} |->
        CASE m = "windows.list"    -> ListOf(WindowInfo)
          [] m = "windows.focused" -> Optional(WindowInfo)
          [] m = "windows.get"     -> One(WindowInfo)
          [] OTHER                 -> Nothing]

ScreensClient ==
    [m \in {"screens.list", "screens.get", "screens.setBrightness", "screens.screenshot"} |->
        CASE m = "screens.list"       -> ListOf(ScreenInfo)
          [] m = "screens.get"        -> One(ScreenInfo)
          [] m = "screens.screenshot" -> Union({InlineScreenshot, FileScreenshot})
          [] OTHER                    -> Nothing]

AudioClient ==
    [m \in {"audio.get", "audio.setVolume", "audio.setMuted"} |->
        IF m = "audio.get" THEN One(AudioInfo) ELSE Nothing]

ClipboardClient ==
    [m \in {"clipboard.get", "clipboard.set"} |->
        IF m = "clipboard.get" THEN One(ClipboardText) ELSE Nothing]

NetworkClient == [m \in {"network.get"} |-> One(NetworkInfo)]

InputClient ==
    [m \in {"input.keystroke", "input.type", "input.mouseMove", "input.mouseClick"} |-> Nothing]

SystemClient ==
    [m \in {"system.info", "system.status", "system.capabilities", "system.userActivity",
            "system.lock", "system.screensaver"} |->
        CASE m = "system.info"         -> One(SystemInfo)
          [] m = "system.status"       -> One(SystemStatus)
          [] m = "system.capabilities" -> One(Capabilities)
          [] OTHER                     -> Nothing]

\* What MacAPI puts together
ResultType ==
    Merged({SystemClient, AppsClient, WindowsClient, ScreensClient, AudioClient,
            ClipboardClient, NetworkClient, InputClient})

-----------------------------------------------------------------------------
\* Typed events: the data classes, and the names of the events that carry each.

ApplicationData == Class({"name"}, {"bundle_id", "pid"})
WindowData == Class({"window_id"}, {"title", "bundle_id", "frame"})
WindowStateData == Class({"window_id"}, {"title", "bundle_id", "frame", "enabled"})
ScreenData == Class({"screen_id"}, {"uuid", "name"})
ScreenChangedData == Class({}, {"screens"})
SystemEventData == Class({}, {"reason"})
ClipboardChangedData == Class({}, {"text"})
WifiChangedData == Class({}, {"interface", "ssid"})
AudioChangedData == Class({}, {"event"})
PowerSourceChangedData == Class({}, {"source"})
PowerBatteryChangedData == Class({}, {"percentage", "source"})

ApplicationEvents ==
    [e \in {"application.activated", "application.launched", "application.terminated",
            "application.hidden", "application.unhidden"} |-> ApplicationData]

WindowEvents ==
    [e \in {"window.created", "window.destroyed", "window.focused", "window.moved",
            "window.resized", "window.minimized", "window.unminimized",
            "window.fullscreenChanged"} |->
        IF e \in {"window.minimized", "window.unminimized", "window.fullscreenChanged"}
        THEN WindowStateData ELSE WindowData]

ScreenEvents ==
    [e \in {"screen.connected", "screen.disconnected", "screen.changed"} |->
        IF e = "screen.changed" THEN ScreenChangedData ELSE ScreenData]

SystemEvents ==
    [e \in {"system.willSleep", "system.didWake", "system.screensDidSleep",
            "system.screensDidWake", "system.sessionLocked", "system.sessionUnlocked"} |->
        SystemEventData]

AudioEvents ==
    [e \in {"audio.outputChanged", "audio.inputChanged", "audio.deviceChanged",
            "audio.volumeChanged", "audio.muteChanged"} |-> AudioChangedData]

DeviceEvents ==
    [e \in {"clipboard.changed", "wifi.changed", "power.sourceChanged",
            "power.batteryChanged"} |->
        CASE e = "clipboard.changed"    -> ClipboardChangedData
          [] e = "wifi.changed"         -> WifiChangedData
          [] e = "power.sourceChanged"  -> PowerSourceChangedData
          [] e = "power.batteryChanged" -> PowerBatteryChangedData]

\* Mutant of EventTypes: the events of the screens were not registered.
EventTypesIncomplete ==
    Merged({ApplicationEvents, WindowEvents, SystemEvents, AudioEvents, DeviceEvents})

\* _EVENT_TYPES
EventTypes ==
    Merged({ApplicationEvents, WindowEvents, ScreenEvents, SystemEvents, AudioEvents,
            DeviceEvents})

\* decode_message, for an event: [] is rewritten before RawEvent, which wants an
\* object, is validated.
RawData(data) == Normalised(data)

\* parse_event: the event's class, and the fields of its data that are kept
ParseEvent(name, data) ==
    IF name \in DOMAIN EventTypes /\ Accepts(EventTypes[name], data)
    THEN [class |-> name,
          data |-> data.fields \cap (EventTypes[name].needs \cup EventTypes[name].may)]
    ELSE [class |-> "UnknownEvent", data |-> data.fields]

-----------------------------------------------------------------------------

\* _RPC_ERROR_TYPES and rpc_exception
RpcException(code) ==
    CASE code = "METHOD_NOT_FOUND"    -> "MethodNotFoundError"
      [] code = "INVALID_PARAMS"      -> "InvalidParamsError"
      [] code = "FEATURE_DISABLED"    -> "FeatureDisabledError"
      [] code = "APP_NOT_FOUND"       -> "AppNotFoundError"
      [] code = "WINDOW_NOT_FOUND"    -> "WindowNotFoundError"
      [] code = "SCREEN_NOT_FOUND"    -> "ScreenNotFoundError"
      [] code = "PERMISSION_REQUIRED" -> "PermissionRequiredError"
      [] OTHER                        -> "RPCError"
=============================================================================
