--------------------------- MODULE ServicesProofs ---------------------------
(***************************************************************************)
(* Proofs about Services, for any screens of any size, anywhere.           *)
(***************************************************************************)
EXTENDS Services, TLAPS

Macs == [app : {"absent", "starting", "shown", "hidden"},
         window : {"gone", "normal", "minimized", "fullscreen"},
         screens : SUBSET Screen]

-----------------------------------------------------------------------------
\* The operators the handlers are built from

\* A table of Merged is found by any key of its own.
LEMMA MergedAt ==
  ASSUME NEW tables, NEW t \in tables, NEW key \in DOMAIN t,
         \A u \in tables : key \in DOMAIN u => u = t
  PROVE  key \in DOMAIN Merged(tables) /\ Merged(tables)[key] = t[key]
<1> DEFINE found == CHOOSE u \in tables : key \in DOMAIN u
<1>1. key \in UNION {DOMAIN u : u \in tables}
  OBVIOUS
<1>2. found = t
  OBVIOUS
<1>3. Merged(tables)[key] = found[key]
  BY <1>1 DEF Merged
<1> QED
  BY <1>1, <1>2, <1>3 DEF Merged

LEMMA FirstOfFive ==
  ASSUME NEW S \in SUBSET (1 .. 5), S # {}
  PROVE  Min(S) \in S
<1>1. \E i \in S : \A j \in S : i <= j
  <2>1. CASE 1 \in S
    BY <2>1
  <2>2. CASE 1 \notin S /\ 2 \in S
    BY <2>2
  <2>3. CASE 1 \notin S /\ 2 \notin S /\ 3 \in S
    BY <2>3
  <2>4. CASE 1 \notin S /\ 2 \notin S /\ 3 \notin S /\ 4 \in S
    BY <2>4
  <2>5. CASE 1 \notin S /\ 2 \notin S /\ 3 \notin S /\ 4 \notin S
    <3>1. \A j \in S : j = 5
      BY <2>5
    <3>2. PICK j \in S : TRUE
      OBVIOUS
    <3> QED
      BY <3>1, <3>2
  <2> QED
    BY <2>1, <2>2, <2>3, <2>4, <2>5
<1> QED
  BY <1>1 DEF Min

-----------------------------------------------------------------------------
\* How each request ends

\* The result type of each method is the one its own namespace declares.
LEMMA TablesOfClients ==
  /\ \A m \in DOMAIN SystemClient : m \in DOMAIN ResultType /\ ResultType[m] = SystemClient[m]
  /\ \A m \in DOMAIN AppsClient : m \in DOMAIN ResultType /\ ResultType[m] = AppsClient[m]
  /\ \A m \in DOMAIN WindowsClient : m \in DOMAIN ResultType /\ ResultType[m] = WindowsClient[m]
  /\ \A m \in DOMAIN ScreensClient : m \in DOMAIN ResultType /\ ResultType[m] = ScreensClient[m]
  /\ \A m \in DOMAIN AudioClient : m \in DOMAIN ResultType /\ ResultType[m] = AudioClient[m]
  /\ \A m \in DOMAIN ClipboardClient :
        m \in DOMAIN ResultType /\ ResultType[m] = ClipboardClient[m]
  /\ \A m \in DOMAIN NetworkClient : m \in DOMAIN ResultType /\ ResultType[m] = NetworkClient[m]
  /\ \A m \in DOMAIN InputClient : m \in DOMAIN ResultType /\ ResultType[m] = InputClient[m]
<1> DEFINE tables == {SystemClient, AppsClient, WindowsClient, ScreensClient, AudioClient,
                      ClipboardClient, NetworkClient, InputClient}
<1>1. ASSUME NEW t \in tables, NEW u \in tables, NEW m \in DOMAIN t, m \in DOMAIN u
      PROVE  t = u
  BY <1>1, SMTT(60) DEF SystemClient, AppsClient, WindowsClient, ScreensClient, AudioClient,
     ClipboardClient, NetworkClient, InputClient
<1>2. ASSUME NEW t \in tables, NEW m \in DOMAIN t
      PROVE  m \in DOMAIN ResultType /\ ResultType[m] = t[m]
  <2> HIDE DEF tables
  <2>1. \A u \in tables : m \in DOMAIN u => u = t
    BY <1>1
  <2>2. m \in DOMAIN Merged(tables) /\ Merged(tables)[m] = t[m]
    BY <2>1, MergedAt
  <2> QED
    BY <2>2 DEF ResultType, tables
<1> QED
  BY <1>2

\* What reaches the server: a namespace method sends only arguments that fit.
Sendable(r) == r.typed => r.id # "malformed" /\ r.value \notin {"malformed", "unsupported"}

\* The codes that a method may refuse a request with
MayRefuse(r, code) ==
    /\ code \in ErrorCodes
    /\ \/ code \in Documented(r.method)
       \/ code = "INTERNAL_ERROR" /\ mac.screens = {}
    /\ r.typed /\ code = "INVALID_PARAMS" => "empty" \in {r.id, r.value}

\* What is promised of the outcome of a request: the Mac stays one, with its screens; a
\* result is of the type declared, unless it shows what has no name, and then nothing was
\* done; a refusal is a documented one and has done nothing.
ResultFits(r, o) ==
    /\ Validates(ResultType[r.method], o.result) <=>
          \A f \in Shown(o.result) : ~Nameless(r.method, f)
    /\ Validates(ResultType[r.method], o.result) \/ o.did = {}
    /\ o.result.kind = "object" => o.result.fields \subseteq Fields(ResultType[r.method])

RefusalFits(r, o) ==
    /\ MayRefuse(r, o.code)
    /\ o.did \subseteq (IF r.method = "apps.open" THEN {"launch"} ELSE {})

Fits(r, o) ==
    /\ o.mac \in Macs /\ o.mac.screens = mac.screens
    /\ o.code = None => ResultFits(r, o)
    /\ o.code # None => RefusalFits(r, o)

LEMMA RefusedFits ==
  ASSUME mac \in Macs, NEW r, NEW code, MayRefuse(r, code)
  PROVE  Fits(r, Refused(code))
BY NoneAssumption DEF Fits, RefusalFits, MayRefuse, Refused

\* A check that fails refuses with a code it may.
MayFail(r, check) == check[1] => MayRefuse(r, check[2])

\* A handler fits if its checks may fail as they do, and what it does after them fits.
LEMMA CheckedFits ==
  ASSUME mac \in Macs, NEW r, NEW n \in 0 .. 5, NEW checks, DOMAIN checks = 1 .. n,
         \A i \in 1 .. n : MayFail(r, checks[i]),
         NEW outcomes, \A p \in outcomes : Fits(r, p),
         NEW o \in Checked(checks, outcomes)
  PROVE  Fits(r, o)
<1> DEFINE failed == {i \in DOMAIN checks : checks[i][1]}
<1>1. CASE failed = {}
  BY <1>1 DEF Checked
<1>2. CASE failed # {}
  <2>1. Min(failed) \in failed
    <3>1. failed \in SUBSET (1 .. 5)
      OBVIOUS
    <3> HIDE DEF failed
    <3> QED
      BY <1>2, <3>1, FirstOfFive
  <2>2. o = Refused(checks[Min(failed)][2])
    BY <1>2 DEF Checked
  <2>3. MayRefuse(r, checks[Min(failed)][2])
    BY <2>1 DEF MayFail
  <2> QED
    BY <2>2, <2>3, RefusedFits
<1> QED
  BY <1>1, <1>2

LEMMA CheckedOne ==
  ASSUME mac \in Macs, NEW r, NEW a, MayFail(r, a),
         NEW outcomes, \A p \in outcomes : Fits(r, p),
         NEW o \in Checked(<<a>>, outcomes)
  PROVE  Fits(r, o)
<1> DEFINE checks == <<a>>
<1>1. 1 \in 0 .. 5 /\ DOMAIN checks = 1 .. 1 /\ \A i \in 1 .. 1 : MayFail(r, checks[i])
  OBVIOUS
<1> HIDE DEF checks
<1>2. o \in Checked(checks, outcomes)
  BY DEF checks
<1> QED
  BY <1>1, <1>2, CheckedFits, Zenon

LEMMA CheckedTwo ==
  ASSUME mac \in Macs, NEW r, NEW a, NEW b, MayFail(r, a), MayFail(r, b),
         NEW outcomes, \A p \in outcomes : Fits(r, p),
         NEW o \in Checked(<<a, b>>, outcomes)
  PROVE  Fits(r, o)
<1> DEFINE checks == <<a, b>>
<1>1. 2 \in 0 .. 5 /\ DOMAIN checks = 1 .. 2 /\ \A i \in 1 .. 2 : MayFail(r, checks[i])
  OBVIOUS
<1> HIDE DEF checks
<1>2. o \in Checked(checks, outcomes)
  BY DEF checks
<1> QED
  BY <1>1, <1>2, CheckedFits, Zenon

LEMMA CheckedThree ==
  ASSUME mac \in Macs, NEW r, NEW a, NEW b, NEW c,
         MayFail(r, a), MayFail(r, b), MayFail(r, c),
         NEW outcomes, \A p \in outcomes : Fits(r, p),
         NEW o \in Checked(<<a, b, c>>, outcomes)
  PROVE  Fits(r, o)
<1> DEFINE checks == <<a, b, c>>
<1>1. 3 \in 0 .. 5 /\ DOMAIN checks = 1 .. 3 /\ \A i \in 1 .. 3 : MayFail(r, checks[i])
  OBVIOUS
<1> HIDE DEF checks
<1>2. o \in Checked(checks, outcomes)
  BY DEF checks
<1> QED
  BY <1>1, <1>2, CheckedFits, Zenon

LEMMA DoesFits ==
  ASSUME mac \in Macs, NEW r, ResultType[r.method] = Nothing,
         NEW new \in Macs, new.screens = mac.screens, NEW call
  PROVE  Fits(r, Does(call, new)) /\ Fits(r, Answer(Null))
BY DEF Fits, ResultFits, Does, Answer, Null, Nothing, Validates, Shown

\* An object is accepted if it has the fields that the class needs, with their parts.
LEMMA ObjectAccepted ==
  ASSUME NEW class, NEW fields
  PROVE  Accepts(class, Object(fields)) <=>
            /\ class.needs \subseteq fields
            /\ \A p \in class.parts : p[1] \in fields => p[2] \in fields
<1>1. Object(fields) # Array({})
  BY DEF Object, Array
<1> QED
  BY <1>1 DEF Accepts, Normalised, Object

\* The objects have no fields but those of the class, and it accepts them unless what they
\* show in a result of the method has no name.
Describes(method, objects, class) ==
    \A f \in objects :
        /\ Accepts(class, Object(f)) <=> ~Nameless(method, f)
        /\ f \subseteq class.needs \cup class.may

\* Of the other methods, nothing is without a name.
LEMMA NamedDescribes ==
  ASSUME NEW method, method \notin {"windows.list", "windows.focused", "audio.get"},
         NEW class, class.parts = {}, NEW objects,
         \A f \in objects : class.needs \subseteq f /\ f \subseteq class.needs \cup class.may
  PROVE  Describes(method, objects, class)
BY ObjectAccepted DEF Describes, Nameless

LEMMA ObjectFits ==
  ASSUME mac \in Macs, NEW r, NEW class, NEW objects, Describes(r.method, objects, class),
         ResultType[r.method] \in {One(class), Optional(class)},
         NEW fields \in objects
  PROVE  Fits(r, Answer(Object(fields)))
<1>1. /\ Accepts(class, Object(fields)) <=> ~Nameless(r.method, fields)
      /\ fields \subseteq class.needs \cup class.may
  BY DEF Describes
<1>2. fields \subseteq Fields(ResultType[r.method])
  BY <1>1 DEF Fields, One, Optional
<1>3. Validates(ResultType[r.method], Object(fields)) <=> Accepts(class, Object(fields))
  <2>1. CASE ResultType[r.method] = One(class)
    BY <2>1 DEF Validates, One
  <2>2. CASE ResultType[r.method] = Optional(class)
    <3>1. Object(fields) # Null
      BY DEF Object, Null
    <3> QED
      BY <2>2, <3>1 DEF Validates, Optional
  <2> QED
    BY <2>1, <2>2
<1>4. Shown(Object(fields)) = {fields}
  BY DEF Shown, Object
<1> QED
  BY <1>1, <1>2, <1>3, <1>4 DEF Fits, ResultFits, Answer, Object

LEMMA SnapshotFits ==
  ASSUME mac \in Macs, NEW r, NEW class, NEW objects, Describes(r.method, objects, class),
         ResultType[r.method] \in {One(class), Optional(class)},
         NEW o \in Snapshot(objects)
  PROVE  Fits(r, o)
BY ObjectFits DEF Snapshot

LEMMA NothingFits ==
  ASSUME mac \in Macs, NEW r, NEW class, ResultType[r.method] = Optional(class)
  PROVE  Fits(r, Answer(Null))
BY DEF Fits, ResultFits, Answer, Null, Optional, Validates, Shown

LEMMA ListedFits ==
  ASSUME mac \in Macs, NEW r, NEW class, NEW objects, Describes(r.method, objects, class),
         ResultType[r.method] = ListOf(class), NEW any, NEW o \in Listed(any, objects)
  PROVE  Fits(r, o)
<1>1. PICK items : o = Answer(Array(items)) /\ \A i \in items : i \in objects
  <2>1. CASE any
    BY <2>1 DEF Listed
  <2>2. CASE ~any
    BY <2>2 DEF Listed
  <2> QED
    BY <2>1, <2>2
<1>2. ASSUME NEW i \in items PROVE Accepts(class, Object(i)) <=> ~Nameless(r.method, i)
  BY <1>1 DEF Describes
<1>3. Validates(ResultType[r.method], Array(items)) <=> \A i \in items : ~Nameless(r.method, i)
  BY <1>2 DEF Validates, ListOf, Array
<1>4. Shown(Array(items)) = items /\ Array(items).kind # "object"
  BY DEF Shown, Array
<1> QED
  BY <1>1, <1>3, <1>4 DEF Fits, ResultFits, Answer

-----------------------------------------------------------------------------
\* What the checks of the services refuse with is documented of each method.

LEMMA CodesDocumented ==
  /\ \A m \in AppMethods : "INVALID_PARAMS" \in Documented(m) /\ "APP_NOT_FOUND" \in Documented(m)
  /\ \A m \in WindowMethods :
        "INVALID_PARAMS" \in Documented(m) /\ "WINDOW_NOT_FOUND" \in Documented(m)
  /\ \A m \in {"screens.get", "screens.setBrightness", "screens.screenshot"} :
        "INVALID_PARAMS" \in Documented(m) /\ "SCREEN_NOT_FOUND" \in Documented(m)
  /\ \A m \in {"apps.quit", "screens.setBrightness", "screens.screenshot", "audio.setVolume",
             "audio.setMuted", "system.lock", "system.screensaver"} :
        "FEATURE_DISABLED" \in Documented(m)
  /\ "SCREENSHOT_TOO_LARGE" \in Documented("screens.screenshot")
  /\ \A m \in {"audio.setVolume", "audio.setMuted", "clipboard.set"} :
        "INVALID_PARAMS" \in Documented(m)
  /\ \A m \in DOMAIN InputClient :
        "INVALID_PARAMS" \in Documented(m) /\ "FEATURE_DISABLED" \in Documented(m)
<1>1. \A m \in AppMethods :
        "INVALID_PARAMS" \in Documented(m) /\ "APP_NOT_FOUND" \in Documented(m)
  BY DEF Documented, AppMethods, WindowMethods, InputClient
<1>2. \A m \in WindowMethods :
        "INVALID_PARAMS" \in Documented(m) /\ "WINDOW_NOT_FOUND" \in Documented(m)
  BY DEF Documented, AppMethods, WindowMethods, InputClient
<1>3. \A m \in {"screens.get", "screens.setBrightness", "screens.screenshot"} :
        "INVALID_PARAMS" \in Documented(m) /\ "SCREEN_NOT_FOUND" \in Documented(m)
  BY DEF Documented, AppMethods, WindowMethods, InputClient
<1>4. /\ \A m \in {"apps.quit", "screens.setBrightness", "screens.screenshot"} :
           "FEATURE_DISABLED" \in Documented(m)
      /\ \A m \in {"audio.setVolume", "audio.setMuted"} : "FEATURE_DISABLED" \in Documented(m)
      /\ \A m \in {"system.lock", "system.screensaver"} : "FEATURE_DISABLED" \in Documented(m)
  <2>1. \A m \in {"apps.quit", "screens.setBrightness", "screens.screenshot"} :
           "FEATURE_DISABLED" \in Documented(m)
    BY DEF Documented, AppMethods, WindowMethods, InputClient
  <2>2. \A m \in {"audio.setVolume", "audio.setMuted"} : "FEATURE_DISABLED" \in Documented(m)
    BY DEF Documented, AppMethods, WindowMethods, InputClient
  <2>3. \A m \in {"system.lock", "system.screensaver"} : "FEATURE_DISABLED" \in Documented(m)
    BY DEF Documented, AppMethods, WindowMethods, InputClient
  <2> QED
    BY <2>1, <2>2, <2>3
<1>5. "SCREENSHOT_TOO_LARGE" \in Documented("screens.screenshot")
  BY DEF Documented, AppMethods, WindowMethods, InputClient
<1>6. \A m \in {"audio.setVolume", "audio.setMuted", "clipboard.set"} :
        "INVALID_PARAMS" \in Documented(m)
  BY DEF Documented, AppMethods, WindowMethods, InputClient
<1>7. \A m \in DOMAIN InputClient :
        "INVALID_PARAMS" \in Documented(m) /\ "FEATURE_DISABLED" \in Documented(m)
  BY DEF Documented, AppMethods, WindowMethods, InputClient
<1> QED
  BY <1>1, <1>2, <1>3, <1>4, <1>5, <1>6, <1>7

\* The checks of validators.lua, and the sets of supported values, refuse no arguments
\* that a namespace method sends but an empty string.
LEMMA ParamChecks ==
  ASSUME NEW r, Sendable(r), "INVALID_PARAMS" \in Documented(r.method)
  PROVE  /\ MayFail(r, IdRequired(r))
         /\ MayFail(r, ValueRequired(r))
         /\ MayFail(r, ValueSupported(r))
BY DEF MayFail, MayRefuse, Sendable, ErrorCodes, IdRequired, ValueRequired, ValueSupported

LEMMA OtherChecks ==
  ASSUME NEW r
  PROVE  /\ "FEATURE_DISABLED" \in Documented(r.method) => MayFail(r, Enabled)
         /\ "APP_NOT_FOUND" \in Documented(r.method) => MayFail(r, AppFound(r))
         /\ "WINDOW_NOT_FOUND" \in Documented(r.method) => MayFail(r, WindowFound(r))
         /\ "SCREEN_NOT_FOUND" \in Documented(r.method) => MayFail(r, ScreenFound(r))
BY DEF MayFail, MayRefuse, ErrorCodes, Enabled, AppFound, WindowFound, ScreenFound

-----------------------------------------------------------------------------
\* apps.lua

LEMMA AppActionFits ==
  ASSUME mac \in Macs, NEW r, Sendable(r),
         r.method \in {"apps.focus", "apps.hide", "apps.unhide"},
         NEW new \in Macs, new.screens = mac.screens, NEW call,
         NEW o \in AppAction(r, call, new)
  PROVE  Fits(r, o)
<1>1. ResultType[r.method] = Nothing
  BY TablesOfClients DEF AppsClient
<1>2. MayFail(r, IdRequired(r)) /\ MayFail(r, AppFound(r))
  BY CodesDocumented, ParamChecks, OtherChecks DEF AppMethods
<1>3. \A p \in {Does(call, new)} : Fits(r, p)
  BY <1>1, DoesFits
<1> QED
  BY <1>2, <1>3, CheckedTwo DEF AppAction

LEMMA QuitFits ==
  ASSUME mac \in Macs, NEW r, Sendable(r), r.method = "apps.quit", NEW o \in Quit(r)
  PROVE  Fits(r, o)
<1> DEFINE new == [mac EXCEPT !.app = "absent", !.window = "gone"]
<1>1. ResultType[r.method] = Nothing
  BY TablesOfClients DEF AppsClient
<1>2. MayFail(r, Enabled) /\ MayFail(r, IdRequired(r)) /\ MayFail(r, AppFound(r))
  BY CodesDocumented, ParamChecks, OtherChecks DEF AppMethods
<1>3. new \in Macs /\ new.screens = mac.screens
  BY DEF Macs
<1>4. \A p \in {Does("kill", new)} : Fits(r, p)
  BY <1>1, <1>3, DoesFits
<1> QED
  BY <1>2, <1>4, CheckedThree DEF Quit

\* An application is described with the fields its class needs, and no other.
LEMMA ApplicationFields ==
  \A method \in DOMAIN AppsClient : Describes(method, application_info, ApplicationInfo)
BY NamedDescribes DEF AppsClient, application_info, Objects, ApplicationInfo, Class

\* apps.open may have launched what it then does not find.
LEMMA OpenFits ==
  ASSUME mac \in Macs, NEW r, Sendable(r), r.method = "apps.open", NEW o \in Open(r)
  PROVE  Fits(r, o)
<1> DEFINE Opened(m) ==
             IF m.app = "starting"
             THEN {[Refused("APP_NOT_FOUND") EXCEPT !.did = {"launch"}, !.mac = m]}
             ELSE {[p EXCEPT !.did = {"launch"}, !.mac = m] : p \in Snapshot(application_info)}
           outcomes == UNION {Opened(m) : m \in Launched}
           unknown == <<r.id = "unknown", "APP_NOT_FOUND">>
<1>1. ResultType[r.method] = One(ApplicationInfo)
  BY TablesOfClients DEF AppsClient
<1>2. MayRefuse(r, "APP_NOT_FOUND")
  BY CodesDocumented DEF AppMethods, MayRefuse, ErrorCodes
<1>3. MayFail(r, IdRequired(r)) /\ MayFail(r, unknown)
  <2>1. MayFail(r, IdRequired(r))
    BY CodesDocumented, ParamChecks DEF AppMethods
  <2> QED
    BY <1>2, <2>1 DEF MayFail
<1>4. ASSUME NEW m \in Launched PROVE m \in Macs /\ m.screens = mac.screens
  BY DEF Launched, Macs
<1>5. ASSUME NEW m \in Launched, NEW p \in Opened(m) PROVE Fits(r, p)
  <2>1. CASE m.app = "starting"
    <3>1. p = [Refused("APP_NOT_FOUND") EXCEPT !.did = {"launch"}, !.mac = m]
      BY <1>5, <2>1
    <3>2. p.code = "APP_NOT_FOUND" /\ p.did = {"launch"} /\ p.mac = m
      BY <3>1 DEF Refused
    <3> QED
      BY <1>2, <1>4, <3>2, NoneAssumption DEF Fits, RefusalFits, ErrorCodes
  <2>2. CASE m.app # "starting"
    <3>1. PICK f \in application_info : p = [Answer(Object(f)) EXCEPT !.did = {"launch"}, !.mac = m]
      BY <1>5, <2>2 DEF Snapshot
    <3>2. p.code = None /\ p.result = Object(f) /\ p.mac = m
      BY <3>1 DEF Answer
    <3>3. Fits(r, Answer(Object(f)))
      <4>1. Describes(r.method, application_info, ApplicationInfo)
        BY ApplicationFields DEF AppsClient
      <4> QED
        BY <1>1, <4>1, ObjectFits
    <3>4. ResultFits(r, Answer(Object(f)))
      BY <3>3 DEF Fits, Answer
    <3>5. Validates(ResultType[r.method], Object(f))
      <4>1. ~Nameless(r.method, f)
        BY DEF Nameless
      <4>2. Shown(Object(f)) = {f}
        BY DEF Shown, Object
      <4> QED
        BY <3>4, <4>1, <4>2 DEF ResultFits, Answer
    <3> QED
      BY <1>4, <3>2, <3>4, <3>5 DEF Fits, ResultFits, Answer
  <2> QED
    BY <2>1, <2>2
<1>6. \A p \in outcomes : Fits(r, p)
  BY <1>5
<1>7. o \in Checked(<<IdRequired(r), unknown>>, outcomes)
  BY DEF Open
<1> HIDE DEF outcomes, unknown
<1> QED
  BY <1>3, <1>6, <1>7, CheckedTwo

LEMMA AppsFits ==
  ASSUME mac \in Macs, NEW r, Sendable(r), r.method \in DOMAIN AppsClient, NEW o \in Apps(r)
  PROVE  Fits(r, o)
<1>1. CASE r.method = "apps.list"
  <2>1. ResultType[r.method] = ListOf(ApplicationInfo)
    BY <1>1, TablesOfClients DEF AppsClient
  <2>2. o \in Listed(Running, application_info)
    BY <1>1 DEF Apps
  <2> QED
    BY <2>1, <2>2, ApplicationFields, ListedFits
<1>2. CASE r.method = "apps.frontmost"
  <2>1. ResultType[r.method] = Optional(ApplicationInfo)
    BY <1>2, TablesOfClients DEF AppsClient
  <2>2. o = Answer(Null) \/ o \in Snapshot(application_info)
    BY <1>2 DEF Apps
  <2> QED
    BY <2>1, <2>2, ApplicationFields, SnapshotFits, NothingFits
<1>3. CASE r.method = "apps.open"
  BY <1>3, OpenFits DEF Apps
<1>4. CASE r.method \in {"apps.focus", "apps.unhide", "apps.hide"}
  <2>1. PICK a \in {"shown", "hidden"}, call \in {"activate", "hide", "unhide"} :
           o \in AppAction(r, call, [mac EXCEPT !.app = a])
    BY <1>4 DEF Apps
  <2>2. [mac EXCEPT !.app = a] \in Macs /\ [mac EXCEPT !.app = a].screens = mac.screens
    BY DEF Macs
  <2> QED
    BY <1>4, <2>1, <2>2, AppActionFits
<1>5. CASE r.method = "apps.quit"
  BY <1>5, QuitFits DEF Apps
<1> QED
  BY <1>1, <1>2, <1>3, <1>4, <1>5 DEF AppsClient

-----------------------------------------------------------------------------
\* windows.lua

\* A window that is listed or focused may have no id; one that is found by its id has it.
LEMMA WindowFields ==
  /\ \A method \in {"windows.list", "windows.focused"} :
        Describes(method, window_info, WindowInfo)
  /\ Describes("windows.get", {w \in window_info : "id" \in w}, WindowInfo)
<1>1. \A f \in window_info :
        /\ f \subseteq WindowInfo.needs \cup WindowInfo.may
        /\ WindowInfo.needs \subseteq f <=> "id" \in f
  BY DEF window_info, Objects, WindowInfo, Class
<1>2. WindowInfo.parts = {}
  BY DEF WindowInfo, Class
<1>3. \A f \in window_info : Accepts(WindowInfo, Object(f)) <=> "id" \in f
  BY <1>1, <1>2, ObjectAccepted
<1>4. \A method \in {"windows.list", "windows.focused"}, f \in window_info :
        Nameless(method, f) <=> "id" \notin f
  BY DEF Nameless
<1>5. Describes("windows.get", {w \in window_info : "id" \in w}, WindowInfo)
  BY <1>1, <1>2, NamedDescribes
<1> QED
  BY <1>1, <1>3, <1>4, <1>5 DEF Describes

LEMMA WindowActionFits ==
  ASSUME mac \in Macs, NEW r, Sendable(r), r.method \in WindowMethods,
         ResultType[r.method] = Nothing,
         NEW new \in Macs, new.screens = mac.screens, NEW call,
         NEW o \in WindowAction(r, call, new)
  PROVE  Fits(r, o)
<1>1. MayFail(r, IdRequired(r)) /\ MayFail(r, WindowFound(r))
  BY CodesDocumented, ParamChecks, OtherChecks
<1>2. \A p \in {Does(call, new)} : Fits(r, p)
  BY DoesFits
<1> QED
  BY <1>1, <1>2, CheckedTwo DEF WindowAction

\* Without a screen there is an answer that no document names.
LEMMA MoveFits ==
  ASSUME mac \in Macs, NEW r, Sendable(r), r.method = "windows.move", NEW o \in Move(r)
  PROVE  Fits(r, o)
<1> DEFINE screenless == <<mac.screens = {}, "INTERNAL_ERROR">>
           checks == <<IdRequired(r), WindowFound(r), ValueRequired(r), screenless,
                       ValueSupported(r)>>
           moved(s) == [screen |-> s, frame |-> PositionFrame(r.value, ScreenFrame[s])]
           outcomes == {[Does("setFrame", mac) EXCEPT !.of = moved(s)] : s \in mac.screens}
<1>1. ResultType[r.method] = Nothing
  BY TablesOfClients DEF WindowsClient
<1>2. /\ MayFail(r, IdRequired(r)) /\ MayFail(r, WindowFound(r)) /\ MayFail(r, ValueRequired(r))
      /\ MayFail(r, ValueSupported(r))
  BY CodesDocumented, ParamChecks, OtherChecks DEF WindowMethods
<1>3. MayFail(r, screenless)
  BY DEF MayFail, MayRefuse, ErrorCodes
<1>4. ASSUME NEW p \in outcomes PROVE Fits(r, p)
  <2>1. Fits(r, Does("setFrame", mac))
    BY <1>1, DoesFits
  <2>2. /\ p.code = Does("setFrame", mac).code /\ p.result = Does("setFrame", mac).result
        /\ p.did = Does("setFrame", mac).did /\ p.mac = Does("setFrame", mac).mac
    <3> HIDE DEF moved
    <3> QED
      BY DEF Does, Answer
  <2> QED
    BY <2>1, <2>2 DEF Fits, ResultFits, RefusalFits
<1>5. o \in Checked(checks, outcomes)
  BY DEF Move
<1>6. 5 \in 0 .. 5 /\ DOMAIN checks = 1 .. 5
  OBVIOUS
<1>7. \A i \in 1 .. 5 : MayFail(r, checks[i])
  <2> HIDE DEF screenless
  <2>1. /\ MayFail(r, checks[1]) /\ MayFail(r, checks[2]) /\ MayFail(r, checks[3])
        /\ MayFail(r, checks[4]) /\ MayFail(r, checks[5])
    BY <1>2, <1>3
  <2> HIDE DEF checks
  <2> QED
    BY <2>1
<1>8. \A p \in outcomes : Fits(r, p)
  BY <1>4
<1> HIDE DEF checks, outcomes
<1> QED
  BY <1>5, <1>6, <1>7, <1>8, CheckedFits, Zenon

LEMMA SetFullscreenFits ==
  ASSUME mac \in Macs, NEW r, Sendable(r), r.method = "windows.setFullscreen",
         NEW o \in SetFullscreen(r)
  PROVE  Fits(r, o)
<1> DEFINE new(w) == [mac EXCEPT !.window = w]
           outcomes == {Does("setFullScreen", new(w)) : w \in {"normal", "fullscreen"}}
<1>1. ResultType[r.method] = Nothing
  BY TablesOfClients DEF WindowsClient
<1>2. MayFail(r, IdRequired(r)) /\ MayFail(r, WindowFound(r)) /\ MayFail(r, ValueRequired(r))
  BY CodesDocumented, ParamChecks, OtherChecks DEF WindowMethods
<1>3. ASSUME NEW w \in {"normal", "fullscreen"}
      PROVE  new(w) \in Macs /\ new(w).screens = mac.screens
  BY DEF Macs
<1>4. \A p \in outcomes : Fits(r, p)
  <2> HIDE DEF new
  <2> QED
    BY <1>1, <1>3, DoesFits
<1>5. o \in Checked(<<ValueRequired(r), IdRequired(r), WindowFound(r)>>, outcomes)
  BY DEF SetFullscreen
<1> HIDE DEF outcomes
<1> QED
  BY <1>2, <1>4, <1>5, CheckedThree

LEMMA WindowsFits ==
  ASSUME mac \in Macs, NEW r, Sendable(r), r.method \in DOMAIN WindowsClient, NEW o \in Windows(r)
  PROVE  Fits(r, o)
<1>1. CASE r.method = "windows.list"
  <2>1. ResultType[r.method] = ListOf(WindowInfo)
    BY <1>1, TablesOfClients DEF WindowsClient
  <2>2. o \in Listed(mac.window # "gone", window_info)
    BY <1>1 DEF Windows
  <2>3. Describes(r.method, window_info, WindowInfo)
    BY <1>1, WindowFields
  <2> QED
    BY <2>1, <2>2, <2>3, ListedFits
<1>2. CASE r.method = "windows.focused"
  <2>1. ResultType[r.method] = Optional(WindowInfo)
    BY <1>2, TablesOfClients DEF WindowsClient
  <2>2. o = Answer(Null) \/ o \in Snapshot(window_info)
    BY <1>2 DEF Windows
  <2>3. Describes(r.method, window_info, WindowInfo)
    BY <1>2, WindowFields
  <2> QED
    BY <2>1, <2>2, <2>3, SnapshotFits, NothingFits
<1>3. CASE r.method = "windows.get"
  <2>1. ResultType[r.method] = One(WindowInfo)
    BY <1>3, TablesOfClients DEF WindowsClient
  <2>2. MayFail(r, IdRequired(r)) /\ MayFail(r, WindowFound(r))
    BY <1>3, CodesDocumented, ParamChecks, OtherChecks DEF WindowMethods
  <2> DEFINE found == {w \in window_info : "id" \in w}
  <2>3. o \in Checked(<<IdRequired(r), WindowFound(r)>>, Snapshot(found))
    BY <1>3 DEF Windows
  <2>4. \A p \in Snapshot(found) : Fits(r, p)
    <3>1. Describes(r.method, found, WindowInfo)
      BY <1>3, WindowFields
    <3> HIDE DEF found
    <3> QED
      BY <2>1, <3>1, SnapshotFits
  <2> HIDE DEF found
  <2> QED
    BY <2>2, <2>3, <2>4, CheckedTwo
<1>4. CASE r.method \in {"windows.focus", "windows.maximize", "windows.minimize",
                         "windows.unminimize"}
  <2>1. ResultType[r.method] = Nothing
    BY <1>4, TablesOfClients DEF WindowsClient
  <2>2. /\ mac \in Macs
        /\ [mac EXCEPT !.window = "minimized"] \in Macs
        /\ [mac EXCEPT !.window = "minimized"].screens = mac.screens
        /\ [mac EXCEPT !.window = "normal"] \in Macs
        /\ [mac EXCEPT !.window = "normal"].screens = mac.screens
    BY DEF Macs
  <2>3. \E new \in {mac, [mac EXCEPT !.window = "minimized"], [mac EXCEPT !.window = "normal"]},
           call \in {"focus", "maximize", "minimize", "unminimize"} :
              o \in WindowAction(r, call, new)
    BY <1>4 DEF Windows
  <2>4. r.method \in WindowMethods
    BY <1>4 DEF WindowMethods
  <2> QED
    BY <2>1, <2>2, <2>3, <2>4, WindowActionFits
<1>7. CASE r.method = "windows.setFrame"
  <2>1. ResultType[r.method] = Nothing
    BY <1>7, TablesOfClients DEF WindowsClient
  <2>2. MayFail(r, IdRequired(r)) /\ MayFail(r, WindowFound(r)) /\ MayFail(r, ValueRequired(r))
    BY <1>7, CodesDocumented, ParamChecks, OtherChecks DEF WindowMethods
  <2>3. o \in Checked(<<IdRequired(r), WindowFound(r), ValueRequired(r)>>, {Does("setFrame", mac)})
    BY <1>7 DEF Windows
  <2>4. \A p \in {Does("setFrame", mac)} : Fits(r, p)
    BY <2>1, DoesFits
  <2> QED
    BY <2>2, <2>3, <2>4, CheckedThree
<1>5. CASE r.method = "windows.setFullscreen"
  BY <1>5, SetFullscreenFits DEF Windows
<1>6. CASE r.method = "windows.move"
  BY <1>6, MoveFits DEF Windows
<1> QED
  BY <1>1, <1>2, <1>3, <1>4, <1>5, <1>6, <1>7 DEF WindowsClient

-----------------------------------------------------------------------------
\* screens.lua

LEMMA ScreenFields ==
  \A method \in DOMAIN ScreensClient : Describes(method, screen_info, ScreenInfo)
BY NamedDescribes DEF ScreensClient, screen_info, Objects, ScreenInfo, Class

LEMMA SetBrightnessFits ==
  ASSUME mac \in Macs, NEW r, Sendable(r), r.method = "screens.setBrightness",
         NEW o \in SetBrightness(r)
  PROVE  Fits(r, o)
<1> DEFINE checks == <<IdRequired(r), ScreenFound(r), ValueRequired(r), ValueSupported(r)>>
           outcomes == {Refused("FEATURE_DISABLED"), Does("setBrightness", mac)}
<1>1. ResultType[r.method] = Nothing
  BY TablesOfClients DEF ScreensClient
<1>2. /\ MayFail(r, IdRequired(r)) /\ MayFail(r, ScreenFound(r)) /\ MayFail(r, ValueRequired(r))
      /\ MayFail(r, ValueSupported(r))
  BY CodesDocumented, ParamChecks, OtherChecks
<1>3. MayRefuse(r, "FEATURE_DISABLED")
  BY CodesDocumented DEF MayRefuse, ErrorCodes
<1>4. \A p \in outcomes : Fits(r, p)
  BY <1>1, <1>3, DoesFits, RefusedFits
<1>5. o \in Checked(checks, outcomes)
  BY DEF SetBrightness
<1>6. 4 \in 0 .. 5 /\ DOMAIN checks = 1 .. 4
  OBVIOUS
<1>7. \A i \in 1 .. 4 : MayFail(r, checks[i])
  BY <1>2
<1> HIDE DEF checks, outcomes
<1> QED
  BY <1>4, <1>5, <1>6, <1>7, CheckedFits, Zenon

LEMMA ScreenshotFits ==
  ASSUME mac \in Macs, NEW r, Sendable(r), r.method = "screens.screenshot",
         NEW o \in Screenshot(r)
  PROVE  Fits(r, o)
<1> DEFINE inline == {"mode", "mime", "encoding", "width", "height", "content"}
           file == {"mode", "mime", "path", "created_at"}
           taken == {[Answer(Object(f)) EXCEPT !.of = s] : s \in Captured(r), f \in {inline, file}}
           refusals == {Refused("FEATURE_DISABLED"), Refused("SCREENSHOT_TOO_LARGE")}
           outcomes == refusals \cup taken
           screenless == <<Captured(r) = {}, "SCREEN_NOT_FOUND">>
<1>1. ResultType[r.method] = Union({InlineScreenshot, FileScreenshot})
  BY TablesOfClients DEF ScreensClient
<1>2. MayFail(r, ValueRequired(r)) /\ MayFail(r, ValueSupported(r))
  BY CodesDocumented, ParamChecks
<1>3. /\ MayRefuse(r, "FEATURE_DISABLED") /\ MayRefuse(r, "SCREENSHOT_TOO_LARGE")
      /\ MayRefuse(r, "SCREEN_NOT_FOUND")
  BY CodesDocumented DEF MayRefuse, ErrorCodes
<1>4. MayFail(r, screenless)
  BY <1>3 DEF MayFail
<1>5. ASSUME NEW f \in {inline, file}
      PROVE  /\ Validates(ResultType[r.method], Object(f))
             /\ Object(f).fields \subseteq Fields(ResultType[r.method])
             /\ \A g \in Shown(Object(f)) : ~Nameless(r.method, g)
  <2>1. Object(f) # Array({})
    BY DEF Object, Array
  <2>2. Accepts(InlineScreenshot, Object(f)) \/ Accepts(FileScreenshot, Object(f))
    BY <2>1 DEF Accepts, Normalised, Object, InlineScreenshot, FileScreenshot, Class
  <2>3. Validates(Union({InlineScreenshot, FileScreenshot}), Object(f))
    BY <2>2 DEF Validates, Union
  <2>4. f \subseteq Fields(Union({InlineScreenshot, FileScreenshot}))
    BY DEF Fields, Union, InlineScreenshot, FileScreenshot, Class
  <2>5. Shown(Object(f)) = {f} /\ ~Nameless(r.method, f)
    BY DEF Shown, Object, Nameless
  <2> QED
    BY <1>1, <2>3, <2>4, <2>5 DEF Object
<1>6. ASSUME NEW p \in taken PROVE Fits(r, p)
  <2>1. PICK s \in Captured(r), f \in {inline, file} : p = [Answer(Object(f)) EXCEPT !.of = s]
    OBVIOUS
  <2>2. p.code = None /\ p.result = Object(f) /\ p.mac = mac /\ p.did = {}
    <3> HIDE DEF inline, file
    <3> QED
      BY <2>1 DEF Answer
  <2> HIDE DEF inline, file, taken
  <2>3. ResultFits(r, p)
    <3>1. /\ Validates(ResultType[r.method], p.result)
          /\ p.result.fields \subseteq Fields(ResultType[r.method])
          /\ \A g \in Shown(p.result) : ~Nameless(r.method, g)
      BY <1>5, <2>2
    <3> QED
      BY <3>1 DEF ResultFits
  <2> QED
    BY <2>2, <2>3 DEF Fits
<1>7. \A p \in outcomes : Fits(r, p)
  BY <1>3, <1>6, RefusedFits
<1>8. o \in Checked(<<ValueRequired(r), ValueSupported(r), screenless>>, outcomes)
  BY DEF Screenshot
<1> HIDE DEF outcomes, screenless
<1> QED
  BY <1>2, <1>4, <1>7, <1>8, CheckedThree

LEMMA ScreensFits ==
  ASSUME mac \in Macs, NEW r, Sendable(r), r.method \in DOMAIN ScreensClient, NEW o \in Screens(r)
  PROVE  Fits(r, o)
<1>1. CASE r.method = "screens.list"
  <2>1. ResultType[r.method] = ListOf(ScreenInfo)
    BY <1>1, TablesOfClients DEF ScreensClient
  <2>2. o \in Listed(mac.screens # {}, screen_info)
    BY <1>1 DEF Screens
  <2> QED
    BY <2>1, <2>2, ScreenFields, ListedFits
<1>2. CASE r.method = "screens.get"
  <2>1. ResultType[r.method] = One(ScreenInfo)
    BY <1>2, TablesOfClients DEF ScreensClient
  <2>2. MayFail(r, IdRequired(r)) /\ MayFail(r, ScreenFound(r))
    BY <1>2, CodesDocumented, ParamChecks, OtherChecks
  <2>3. o \in Checked(<<IdRequired(r), ScreenFound(r)>>, Snapshot(screen_info))
    BY <1>2 DEF Screens
  <2>4. \A p \in Snapshot(screen_info) : Fits(r, p)
    BY <2>1, ScreenFields, SnapshotFits
  <2> QED
    BY <2>2, <2>3, <2>4, CheckedTwo
<1>3. CASE r.method = "screens.setBrightness"
  BY <1>3, SetBrightnessFits DEF Screens
<1>4. CASE r.method = "screens.screenshot"
  BY <1>4, ScreenshotFits DEF Screens
<1> QED
  BY <1>1, <1>2, <1>3, <1>4 DEF ScreensClient

-----------------------------------------------------------------------------
\* audio.lua, clipboard.lua, network.lua, system.lua, input.lua

\* An array for an object that is empty is read as one; nothing in it lacks a name.
LEMMA MarkedFits ==
  ASSUME mac \in Macs, NEW r, NEW class, NEW fields, Describes(r.method, {fields}, class),
         fields = {} => ~Nameless(r.method, fields), ResultType[r.method] = One(class)
  PROVE  Fits(r, Answer(Marked(fields)))
<1>1. CASE Marked(fields) = Object(fields)
  BY <1>1, ObjectFits
<1>2. CASE fields = {} /\ Marked(fields) = Array({})
  <2>1. Object(fields) # Array({})
    BY DEF Object, Array
  <2>2. Normalised(Array({})) = Object(fields) /\ Normalised(Object(fields)) = Object(fields)
    BY <1>2, <2>1 DEF Normalised
  <2>3. Accepts(class, Array({}))
    <3>1. Accepts(class, Object(fields))
      BY <1>2 DEF Describes
    <3> QED
      BY <2>2, <3>1 DEF Accepts
  <2>4. Validates(ResultType[r.method], Array({}))
    BY <2>3 DEF Validates, One
  <2>5. Shown(Array({})) = {} /\ Array({}).kind # "object"
    BY DEF Shown, Array
  <2> QED
    BY <1>2, <2>4, <2>5 DEF Fits, ResultFits, Answer
<1> QED
  BY <1>1, <1>2 DEF Marked

LEMMA SetOutputFits ==
  ASSUME mac \in Macs, NEW r, Sendable(r), r.method \in {"audio.setVolume", "audio.setMuted"},
         NEW call, NEW o \in SetOutput(r, call)
  PROVE  Fits(r, o)
<1> DEFINE checks == <<ValueRequired(r), ValueSupported(r)>>
           outcomes == {Refused("FEATURE_DISABLED"), Answer(Null), Does(call, mac)}
<1>1. ResultType[r.method] = Nothing
  BY TablesOfClients DEF AudioClient
<1>2. MayFail(r, ValueRequired(r)) /\ MayFail(r, ValueSupported(r))
  BY CodesDocumented, ParamChecks
<1>3. MayRefuse(r, "FEATURE_DISABLED")
  BY CodesDocumented DEF MayRefuse, ErrorCodes
<1>4. \A p \in outcomes : Fits(r, p)
  BY <1>1, <1>3, DoesFits, RefusedFits
<1>5. o \in Checked(checks, outcomes)
  BY DEF SetOutput
<1> HIDE DEF outcomes
<1> QED
  BY <1>2, <1>4, <1>5, CheckedTwo

LEMMA OthersFits ==
  ASSUME mac \in Macs, NEW r, Sendable(r),
         r.method \in DOMAIN AudioClient \cup DOMAIN ClipboardClient \cup DOMAIN NetworkClient,
         NEW o \in Others(r)
  PROVE  Fits(r, o)
<1>1. CASE r.method = "audio.get"
  <2>1. ResultType[r.method] = One(AudioInfo)
    BY <1>1, TablesOfClients DEF AudioClient
  <2>2. PICK f \in AudioDevices : o = Answer(Marked(f))
    BY <1>1 DEF Others
  <2>3. PICK d \in {{}} \cup OutputDevice, i \in {{}} \cup InputDevice : f = d \cup i
    BY <2>2 DEF AudioDevices
  <2>4. f \subseteq {"output", "output.name", "output.volume", "output.muted",
                     "input", "input.name"}
    BY <2>3 DEF OutputDevice, InputDevice, Objects
  <2>5. Accepts(AudioInfo, Object(f)) <=> ~Nameless(r.method, f)
    <3>1. Accepts(AudioInfo, Object(f)) <=>
             /\ AudioInfo.needs \subseteq f
             /\ \A p \in AudioInfo.parts : p[1] \in f => p[2] \in f
      BY ObjectAccepted
    <3>2. AudioInfo.parts = {<<"output", "output.name">>, <<"input", "input.name">>}
          /\ AudioInfo.needs = {}
      BY DEF AudioInfo
    <3>3. Nameless(r.method, f) <=>
             ~(("output" \in f => "output.name" \in f) /\ ("input" \in f => "input.name" \in f))
      BY <1>1 DEF Nameless
    <3>4. (\A p \in AudioInfo.parts : p[1] \in f => p[2] \in f) <=>
             ("output" \in f => "output.name" \in f) /\ ("input" \in f => "input.name" \in f)
      BY <3>2
    <3> QED
      BY <3>1, <3>2, <3>3, <3>4
  <2>6. Describes(r.method, {f}, AudioInfo)
    BY <2>4, <2>5 DEF Describes, AudioInfo
  <2>7. f = {} => ~Nameless(r.method, f)
    BY <1>1 DEF Nameless
  <2> QED
    BY <2>1, <2>2, <2>6, <2>7, MarkedFits
<1>2. CASE r.method = "audio.setVolume"
  BY <1>2, SetOutputFits DEF Others
<1>3. CASE r.method = "audio.setMuted"
  BY <1>3, SetOutputFits DEF Others
<1>4. CASE r.method = "clipboard.get"
  <2>1. ResultType[r.method] = One(ClipboardText)
    BY <1>4, TablesOfClients DEF ClipboardClient
  <2>2. PICK f \in {{}, {"text"}} : o = Answer(Marked(f))
    BY <1>4 DEF Others, ClipboardGet
  <2>3. Describes(r.method, {f}, ClipboardText) /\ ~Nameless(r.method, f)
    BY <1>4, NamedDescribes DEF ClipboardText, Class, Nameless
  <2> QED
    BY <2>1, <2>2, <2>3, MarkedFits
<1>5. CASE r.method = "clipboard.set"
  <2>1. ResultType[r.method] = Nothing
    BY <1>5, TablesOfClients DEF ClipboardClient
  <2>2. o \in Checked(<<ValueRequired(r)>>, {Does("setContents", mac)})
    BY <1>5 DEF Others
  <2>3. MayFail(r, ValueRequired(r))
    BY <1>5, CodesDocumented, ParamChecks
  <2>4. \A p \in {Does("setContents", mac)} : Fits(r, p)
    BY <2>1, DoesFits
  <2> QED
    BY <2>2, <2>3, <2>4, CheckedOne
<1>6. CASE r.method = "network.get"
  <2> DEFINE fields == {"interfaces", "wifi"}
  <2>1. ResultType[r.method] = One(NetworkInfo)
    BY <1>6, TablesOfClients DEF NetworkClient
  <2>2. o = Answer(Object(fields))
    BY <1>6 DEF Others
  <2>3. Describes(r.method, {fields}, NetworkInfo)
    BY <1>6, NamedDescribes DEF NetworkInfo, Class
  <2> HIDE DEF fields
  <2> QED
    BY <2>1, <2>2, <2>3, ObjectFits
<1> QED
  BY <1>1, <1>2, <1>3, <1>4, <1>5, <1>6 DEF AudioClient, ClipboardClient, NetworkClient

LEMMA SystemFits ==
  ASSUME mac \in Macs, NEW r, Sendable(r), r.method \in DOMAIN SystemClient, NEW o \in System(r)
  PROVE  Fits(r, o)
<1>1. CASE r.method = "system.info"
  <2> DEFINE fields == {"hostname", "os", "os.name", "os.version", "addresses"}
  <2>1. ResultType[r.method] = One(SystemInfo)
    BY <1>1, TablesOfClients DEF SystemClient
  <2>2. o = Answer(Object(fields))
    BY <1>1 DEF System
  <2>3. Describes(r.method, {fields}, SystemInfo)
    BY <1>1, NamedDescribes DEF SystemInfo, Class
  <2> HIDE DEF fields
  <2> QED
    BY <2>1, <2>2, <2>3, ObjectFits
<1>2. CASE r.method = "system.status"
  <2> DEFINE objects == Objects({"locked", "screensaver", "sleeping"},
                                {"power_source", "battery_percent"})
  <2>1. ResultType[r.method] = One(SystemStatus)
    BY <1>2, TablesOfClients DEF SystemClient
  <2>2. o \in Snapshot(objects)
    BY <1>2 DEF System
  <2>3. Describes(r.method, objects, SystemStatus)
    BY <1>2, NamedDescribes DEF Objects, SystemStatus, Class
  <2> HIDE DEF objects
  <2> QED
    BY <2>1, <2>2, <2>3, SnapshotFits
<1>3. CASE r.method = "system.capabilities"
  <2> DEFINE fields == {"protocol_version", "server_version", "transport", "framing",
                        "authentication", "security", "single_client", "methods",
                        "events", "features"}
  <2>1. ResultType[r.method] = One(Capabilities)
    BY <1>3, TablesOfClients DEF SystemClient
  <2>2. o = Answer(Object(fields))
    BY <1>3 DEF System
  <2>3. Describes(r.method, {fields}, Capabilities)
    BY <1>3, NamedDescribes DEF Capabilities, Class
  <2> HIDE DEF fields
  <2> QED
    BY <2>1, <2>2, <2>3, ObjectFits
<1>4. CASE r.method = "system.userActivity"
  <2>1. ResultType[r.method] = Nothing
    BY <1>4, TablesOfClients DEF SystemClient
  <2>2. o = Does("declareUserActivity", mac)
    BY <1>4 DEF System
  <2> QED
    BY <2>1, <2>2, DoesFits
<1>5. CASE r.method \in {"system.lock", "system.screensaver"}
  <2>1. ResultType[r.method] = Nothing
    BY <1>5, TablesOfClients DEF SystemClient
  <2>2. o \in Checked(<<Enabled>>, {Does("lock", mac)})
    BY <1>5 DEF System
  <2>3. MayFail(r, Enabled)
    BY <1>5, CodesDocumented, OtherChecks
  <2>4. \A p \in {Does("lock", mac)} : Fits(r, p)
    BY <2>1, DoesFits
  <2> QED
    BY <2>2, <2>3, <2>4, CheckedOne
<1> QED
  BY <1>1, <1>2, <1>3, <1>4, <1>5 DEF SystemClient

LEMMA InputFits ==
  ASSUME mac \in Macs, NEW r, Sendable(r), r.method \in DOMAIN InputClient, NEW o \in Input(r)
  PROVE  Fits(r, o)
<1>1. ResultType[r.method] = Nothing
  BY TablesOfClients DEF InputClient
<1>2. MayFail(r, Enabled) /\ MayFail(r, ValueRequired(r)) /\ MayFail(r, ValueSupported(r))
  BY CodesDocumented, ParamChecks, OtherChecks
<1>3. \A p \in {Does("inject", mac)} : Fits(r, p)
  BY <1>1, DoesFits
<1>4. o \in Checked(<<Enabled, ValueRequired(r), ValueSupported(r)>>, {Does("inject", mac)})
  BY DEF Input
<1> QED
  BY <1>2, <1>3, <1>4, CheckedThree

LEMMA OutcomesFit ==
  ASSUME mac \in Macs, NEW r, Sendable(r), r.method \in DOMAIN ResultType, NEW o \in Outcomes(r)
  PROVE  Fits(r, o)
<1>1. r.method \in DOMAIN AppsClient \cup DOMAIN WindowsClient \cup DOMAIN ScreensClient
                   \cup DOMAIN SystemClient \cup DOMAIN InputClient
                   \cup (DOMAIN AudioClient \cup DOMAIN ClipboardClient \cup DOMAIN NetworkClient)
  BY DEF ResultType, Merged
<1>2. CASE r.method \in DOMAIN AppsClient
  <2>1. o \in Apps(r)
    BY <1>2 DEF Outcomes, AppsClient, WindowsClient, ScreensClient, SystemClient, InputClient
  <2> QED
    BY <1>2, <2>1, AppsFits
<1>3. CASE r.method \in DOMAIN WindowsClient
  <2>1. o \in Windows(r)
    BY <1>3 DEF Outcomes, AppsClient, WindowsClient, ScreensClient, SystemClient, InputClient
  <2> QED
    BY <1>3, <2>1, WindowsFits
<1>4. CASE r.method \in DOMAIN ScreensClient
  <2>1. o \in Screens(r)
    BY <1>4 DEF Outcomes, AppsClient, WindowsClient, ScreensClient, SystemClient, InputClient
  <2> QED
    BY <1>4, <2>1, ScreensFits
<1>5. CASE r.method \in DOMAIN SystemClient
  <2>1. o \in System(r)
    BY <1>5 DEF Outcomes, AppsClient, WindowsClient, ScreensClient, SystemClient, InputClient
  <2> QED
    BY <1>5, <2>1, SystemFits
<1>6. CASE r.method \in DOMAIN InputClient
  <2>1. o \in Input(r)
    BY <1>6 DEF Outcomes, AppsClient, WindowsClient, ScreensClient, SystemClient, InputClient
  <2> QED
    BY <1>6, <2>1, InputFits
<1>7. CASE r.method \in DOMAIN AudioClient \cup DOMAIN ClipboardClient \cup DOMAIN NetworkClient
  <2>1. o \in Others(r)
    BY <1>7 DEF Outcomes, AppsClient, WindowsClient, ScreensClient, SystemClient, InputClient,
       AudioClient, ClipboardClient, NetworkClient
  <2> QED
    BY <1>7, <2>1, OthersFits
<1> QED
  BY <1>1, <1>2, <1>3, <1>4, <1>5, <1>6, <1>7

-----------------------------------------------------------------------------
\* The frames of positions

\* What MovedOnScreen says of a frame f in a position on a screen with frame s
InPosition(position, f, s) ==
    LET free == {"left", "right", "top", "bottom"} \ Sides(position)
    IN /\ \A side \in Sides(position) : Gap(side, f, s) = 0
       /\ \A side \in free : Gap(side, f, s) > 0
       /\ IF position = "center"
          THEN Gap("left", f, s) = Gap("right", f, s) /\ Gap("top", f, s) = Gap("bottom", f, s)
          ELSE \A side \in free :
                  Gap(side, f, s) = (IF side \in {"left", "right"} THEN s.w ELSE s.h) \div 2

LEMMA TenOf ==
  ASSUME NEW n \in Points
  PROVE  \E k \in Int : n = 10 * k /\ k > 0
<1>1. n \in Int /\ n > 0 /\ n % 10 = 0
  BY DEF Points
<1>2. n \div 10 \in Int /\ n = 10 * (n \div 10) + (n % 10)
  BY <1>1
<1> QED
  BY <1>1, <1>2

LEMMA Halves ==
  ASSUME NEW n \in Points
  PROVE  /\ n \in Int /\ n > 0
         /\ n \div 2 \in Int /\ n = 2 * (n \div 2) /\ n \div 2 > 0
<1>1. PICK k \in Int : n = 10 * k /\ k > 0
  BY TenOf
<1>2. n \div 2 = 5 * k
  BY <1>1
<1> QED
  BY <1>1, <1>2

LEMMA MinOfTwo ==
  ASSUME NEW a \in Int, NEW b \in Int
  PROVE  Min({a, b}) \in {a, b} /\ Min({a, b}) <= a
<1>1. \E i \in {a, b} : \A j \in {a, b} : i <= j
  <2>1. CASE a <= b
    BY <2>1
  <2>2. CASE b <= a
    BY <2>2
  <2> QED
    BY <2>1, <2>2
<1> QED
  BY <1>1 DEF Min

\* Centred, with at most four fifths of the length, the margins are equal.
LEMMA Centred ==
  ASSUME NEW n \in Points, NEW most \in Points, NEW w, w = Min({(n * 4) \div 5, most})
  PROVE  w \in Int /\ (n - w) \div 2 \in Int /\ n - w = 2 * ((n - w) \div 2) /\ (n - w) \div 2 > 0
<1>1. PICK k \in Int : n = 10 * k /\ k > 0
  BY TenOf
<1>2. PICK j \in Int : most = 10 * j /\ j > 0
  BY TenOf
<1>3. (n * 4) \div 5 = 8 * k
  BY <1>1
<1>4. w \in {8 * k, 10 * j} /\ w <= 8 * k
  BY <1>2, <1>3, MinOfTwo
<1>5. CASE w = 8 * k
  <2>1. n - w = 2 * k
    BY <1>1, <1>5
  <2>2. (n - w) \div 2 = k
    BY <2>1
  <2> QED
    BY <1>1, <1>5, <2>1, <2>2
<1>6. CASE w = 10 * j
  <2>1. n - w = 2 * (5 * (k - j)) /\ 5 * (k - j) > 0
    BY <1>1, <1>2, <1>4, <1>6
  <2>2. (n - w) \div 2 = 5 * (k - j)
    BY <2>1
  <2> QED
    BY <1>2, <1>6, <2>1, <2>2
<1> QED
  BY <1>4, <1>5, <1>6

\* Each position lies on the sides it is named for, whatever screen it is of.
LEMMA FrameInPosition ==
  ASSUME NEW s \in [x : Int, y : Int, w : Points, h : Points], NEW position \in WindowPosition
  PROVE  InPosition(position, PositionFrame(position, s), s)
<1> DEFINE f == PositionFrame(position, s)
<1>1. /\ s.x \in Int /\ s.y \in Int
      /\ s.w \in Int /\ s.w > 0 /\ s.w \div 2 \in Int /\ s.w = 2 * (s.w \div 2) /\ s.w \div 2 > 0
      /\ s.h \in Int /\ s.h > 0 /\ s.h \div 2 \in Int /\ s.h = 2 * (s.h \div 2) /\ s.h \div 2 > 0
  BY Halves
<1>2. CASE position = "center"
  <2> DEFINE w == Min({(s.w * 4) \div 5, CenterWidth})
             h == Min({(s.h * 4) \div 5, CenterHeight})
  <2>1. /\ w \in Int /\ (s.w - w) \div 2 \in Int /\ s.w - w = 2 * ((s.w - w) \div 2)
        /\ (s.w - w) \div 2 > 0
    BY Centred, ScreenAssumption
  <2>2. /\ h \in Int /\ (s.h - h) \div 2 \in Int /\ s.h - h = 2 * ((s.h - h) \div 2)
        /\ (s.h - h) \div 2 > 0
    BY Centred, ScreenAssumption
  <2>3. f = [x |-> s.x + (s.w - w) \div 2, y |-> s.y + (s.h - h) \div 2, w |-> w, h |-> h]
    BY <1>2 DEF PositionFrame
  <2> HIDE DEF w, h, f
  <2>4. /\ Gap("left", f, s) = (s.w - w) \div 2 /\ Gap("right", f, s) = (s.w - w) \div 2
        /\ Gap("top", f, s) = (s.h - h) \div 2 /\ Gap("bottom", f, s) = (s.h - h) \div 2
    BY <1>1, <2>1, <2>2, <2>3 DEF Gap
  <2>5. Sides(position) = {}
    BY <1>2 DEF Sides
  <2> QED
    BY <1>2, <2>1, <2>2, <2>4, <2>5 DEF InPosition, f
<1>3. CASE position # "center"
  <2> DEFINE wide == position \in HalfWide
             high == position \in HalfHigh
             right == position \in RightHalf
             below == position \in BottomHalf
  <2>1. /\ f.x = (IF right THEN s.x + s.w \div 2 ELSE s.x)
        /\ f.y = (IF below THEN s.y + s.h \div 2 ELSE s.y)
        /\ f.w = (IF wide THEN s.w \div 2 ELSE s.w)
        /\ f.h = (IF high THEN s.h \div 2 ELSE s.h)
    BY <1>3 DEF PositionFrame
  <2> HIDE DEF f
  <2>2. /\ Gap("left", f, s) = (IF right THEN s.w \div 2 ELSE 0)
        /\ Gap("right", f, s) = (IF wide /\ ~right THEN s.w \div 2 ELSE 0)
        /\ Gap("top", f, s) = (IF below THEN s.h \div 2 ELSE 0)
        /\ Gap("bottom", f, s) = (IF high /\ ~below THEN s.h \div 2 ELSE 0)
    <3>1. /\ right => wide
          /\ below => high
      BY DEF HalfWide, HalfHigh
    <3> QED
      BY <1>1, <2>1, <3>1 DEF Gap
  <2>3. /\ "left" \in Sides(position) <=> ~right
        /\ "right" \in Sides(position) <=> ~(wide /\ ~right)
        /\ "top" \in Sides(position) <=> ~below
        /\ "bottom" \in Sides(position) <=> ~(high /\ ~below)
        /\ Sides(position) \subseteq {"left", "right", "top", "bottom"}
    BY <1>3 DEF WindowPosition, Sides, HalfWide, HalfHigh, RightHalf, BottomHalf
  <2> HIDE DEF wide, high, right, below
  <2>4. \A side \in Sides(position) : Gap(side, f, s) = 0
    BY <2>2, <2>3
  <2>5. \A side \in {"left", "right", "top", "bottom"} \ Sides(position) :
           /\ Gap(side, f, s) > 0
           /\ Gap(side, f, s) = (IF side \in {"left", "right"} THEN s.w ELSE s.h) \div 2
    BY <1>1, <2>2, <2>3
  <2> QED
    BY <1>3, <2>4, <2>5 DEF InPosition, f
<1> QED
  BY <1>2, <1>3

-----------------------------------------------------------------------------
\* What a move that succeeds has been through

LEMMA CheckedPassed ==
  ASSUME NEW n \in 0 .. 5, NEW checks, DOMAIN checks = 1 .. n,
         \A i \in 1 .. n : checks[i][2] \in ErrorCodes,
         NEW outcomes, NEW o \in Checked(checks, outcomes), o.code = None
  PROVE  o \in outcomes /\ \A i \in 1 .. n : ~checks[i][1]
<1> DEFINE failed == {i \in DOMAIN checks : checks[i][1]}
<1>1. CASE failed = {}
  BY <1>1 DEF Checked
<1>2. CASE failed # {}
  <2>1. Min(failed) \in failed
    <3>1. failed \in SUBSET (1 .. 5)
      OBVIOUS
    <3> HIDE DEF failed
    <3> QED
      BY <1>2, <3>1, FirstOfFive
  <2>2. o = Refused(checks[Min(failed)][2])
    BY <1>2 DEF Checked
  <2>3. o.code \in ErrorCodes
    BY <2>1, <2>2 DEF Refused
  <2> QED
    BY <2>3, NoneAssumption
<1> QED
  BY <1>1, <1>2

LEMMA MovePlaces ==
  ASSUME mac \in Macs, NEW r \in Requests, r.method = "windows.move",
         NEW o \in Outcomes(r), o.code = None
  PROVE  /\ o.of.screen \in mac.screens
         /\ InPosition(r.value, o.of.frame, ScreenFrame[o.of.screen])
<1> DEFINE screenless == <<mac.screens = {}, "INTERNAL_ERROR">>
           checks == <<IdRequired(r), WindowFound(r), ValueRequired(r), screenless,
                       ValueSupported(r)>>
           moved(s) == [screen |-> s, frame |-> PositionFrame(r.value, ScreenFrame[s])]
           outcomes == {[Does("setFrame", mac) EXCEPT !.of = moved(s)] : s \in mac.screens}
<1>1. o \in Checked(checks, outcomes)
  BY DEF Outcomes, Windows, Move, AppsClient, WindowsClient, ScreensClient, SystemClient,
     InputClient
<1>2. 5 \in 0 .. 5 /\ DOMAIN checks = 1 .. 5
  OBVIOUS
<1>3. \A i \in 1 .. 5 : checks[i][2] \in ErrorCodes
  BY DEF ErrorCodes, IdRequired, WindowFound, ValueRequired, ValueSupported
<1>4. o \in outcomes /\ \A i \in 1 .. 5 : ~checks[i][1]
  <2> HIDE DEF checks, outcomes
  <2> QED
    BY <1>1, <1>2, <1>3, CheckedPassed, Zenon
<1>5. r.value \in WindowPosition
  <2>1. ~checks[3][1] /\ ~checks[5][1]
    <3> HIDE DEF checks
    <3> QED
      BY <1>4
  <2>2. r.value # "malformed" /\ r.value # "unsupported"
    BY <2>1 DEF ValueRequired, ValueSupported
  <2>3. r.value \in ValuesOf(r.method)
    BY DEF Requests
  <2> QED
    BY <2>2, <2>3 DEF ValuesOf
<1>6. PICK s \in mac.screens : o = [Does("setFrame", mac) EXCEPT !.of = moved(s)]
  BY <1>4
<1>7. o.of = moved(s)
  <2> HIDE DEF moved
  <2> QED
    BY <1>6 DEF Does, Answer
<1>8. ScreenFrame[s] \in [x : Int, y : Int, w : Points, h : Points]
  BY ScreenAssumption DEF Macs
<1> QED
  BY <1>5, <1>7, <1>8, FrameInPosition

-----------------------------------------------------------------------------
\* Events

\* What watchers.lua sends with an event has the fields its class needs, if it is not of a
\* window without an id, and but for two of an application that the class has no place for,
\* no other.
LEMMA EventDataFits ==
  ASSUME NEW name \in EventNames, NEW f \in EventData(name),
         name \in DOMAIN WindowEvents => "window_id" \in f
  PROVE  /\ name \in DOMAIN EventTypes /\ EventTypes[name].parts = {}
         /\ EventTypes[name].needs \subseteq f
         /\ f \ {"hidden", "frontmost"} \subseteq EventTypes[name].needs \cup EventTypes[name].may
<1> DEFINE tables == {ApplicationEvents, WindowEvents, ScreenEvents, SystemEvents, AudioEvents,
                      DeviceEvents}
           Fitting(class) == /\ class.parts = {} /\ class.needs \subseteq f
                             /\ f \ {"hidden", "frontmost"} \subseteq class.needs \cup class.may
<1>1. ASSUME NEW t \in tables, NEW u \in tables, name \in DOMAIN t, name \in DOMAIN u
      PROVE  t = u
  BY <1>1, SMTT(60) DEF ApplicationEvents, WindowEvents, ScreenEvents, SystemEvents, AudioEvents,
     DeviceEvents
<1>2. ASSUME NEW t \in tables, name \in DOMAIN t
      PROVE  name \in DOMAIN EventTypes /\ EventTypes[name] = t[name]
  <2> HIDE DEF tables
  <2>1. \A u \in tables : name \in DOMAIN u => u = t
    BY <1>1, <1>2
  <2>2. name \in DOMAIN Merged(tables) /\ Merged(tables)[name] = t[name]
    BY <1>2, <2>1, MergedAt
  <2> QED
    BY <2>2 DEF EventTypes, tables
<1>3. \E t \in tables : name \in DOMAIN t /\ Fitting(t[name])
  <2>1. CASE name \in DOMAIN ApplicationEvents
    <3>1. f \in application_info
      BY <2>1 DEF EventData, ApplicationEvents
    <3>2. Fitting(ApplicationData)
      BY <3>1 DEF application_info, Objects, ApplicationData, Class
    <3> QED
      BY <2>1, <3>2 DEF ApplicationEvents
  <2>2. CASE name \in {"window.minimized", "window.unminimized", "window.fullscreenChanged"}
    <3>1. f \in {d \cup {"enabled"} : d \in window_event_data}
      BY <2>2 DEF EventData
    <3>2. "window_id" \in f
      BY <2>2 DEF WindowEvents
    <3>3. Fitting(WindowStateData)
      BY <3>1, <3>2 DEF window_event_data, Objects, WindowStateData, Class
    <3> QED
      BY <2>2, <3>3 DEF WindowEvents
  <2>3. CASE name \in {"window.created", "window.destroyed", "window.focused", "window.moved",
                       "window.resized"}
    <3>1. f \in window_event_data
      BY <2>3 DEF EventData
    <3>2. "window_id" \in f
      BY <2>3 DEF WindowEvents
    <3>3. Fitting(WindowData)
      BY <3>1, <3>2 DEF window_event_data, Objects, WindowData, Class
    <3> QED
      BY <2>3, <3>3 DEF WindowEvents
  <2>4. CASE name \in {"screen.connected", "screen.disconnected"}
    <3>1. f \in Objects({"screen_id", "name"}, {"uuid"})
      BY <2>4 DEF EventData
    <3>2. Fitting(ScreenData)
      BY <3>1 DEF Objects, ScreenData, Class
    <3> QED
      BY <2>4, <3>2 DEF ScreenEvents
  <2>5. CASE name = "screen.changed"
    <3>1. f = {"screens"}
      BY <2>5 DEF EventData
    <3>2. Fitting(ScreenChangedData)
      BY <3>1 DEF ScreenChangedData, Class
    <3> QED
      BY <2>5, <3>2 DEF ScreenEvents
  <2>6. CASE name \in DOMAIN SystemEvents
    <3>1. f = {}
      BY <2>6 DEF EventData, SystemEvents
    <3>2. Fitting(SystemEventData)
      BY <3>1 DEF SystemEventData, Class
    <3> QED
      BY <2>6, <3>2 DEF SystemEvents
  <2>7. CASE name \in DOMAIN AudioEvents
    <3>1. f \subseteq {"event"}
      BY <2>7 DEF EventData, AudioEvents
    <3>2. Fitting(AudioChangedData)
      BY <3>1 DEF AudioChangedData, Class
    <3> QED
      BY <2>7, <3>2 DEF AudioEvents
  <2>8. CASE name = "clipboard.changed"
    <3>1. f \in Objects({}, {"text"})
      BY <2>8 DEF EventData
    <3>2. Fitting(ClipboardChangedData)
      BY <3>1 DEF Objects, ClipboardChangedData, Class
    <3>3. name \in DOMAIN DeviceEvents /\ DeviceEvents[name] = ClipboardChangedData
      BY <2>8 DEF DeviceEvents
    <3> QED
      BY <3>2, <3>3
  <2>9. CASE name = "wifi.changed"
    <3>1. f \in Objects({}, {"interface", "ssid"})
      BY <2>9 DEF EventData
    <3>2. Fitting(WifiChangedData)
      BY <3>1 DEF Objects, WifiChangedData, Class
    <3>3. name \in DOMAIN DeviceEvents /\ DeviceEvents[name] = WifiChangedData
      BY <2>9 DEF DeviceEvents
    <3> QED
      BY <3>2, <3>3
  <2>10. CASE name = "power.sourceChanged"
    <3>1. f \in Objects({}, {"source"})
      BY <2>10 DEF EventData
    <3>2. Fitting(PowerSourceChangedData)
      BY <3>1 DEF Objects, PowerSourceChangedData, Class
    <3>3. name \in DOMAIN DeviceEvents /\ DeviceEvents[name] = PowerSourceChangedData
      BY <2>10 DEF DeviceEvents
    <3> QED
      BY <3>2, <3>3
  <2>11. CASE name = "power.batteryChanged"
    <3>1. f \in Objects({}, {"percentage", "source"})
      BY <2>11 DEF EventData
    <3>2. Fitting(PowerBatteryChangedData)
      BY <3>1 DEF Objects, PowerBatteryChangedData, Class
    <3>3. name \in DOMAIN DeviceEvents /\ DeviceEvents[name] = PowerBatteryChangedData
      BY <2>11 DEF DeviceEvents
    <3> QED
      BY <3>2, <3>3
  <2> QED
    BY <2>1, <2>2, <2>3, <2>4, <2>5, <2>6, <2>7, <2>8, <2>9, <2>10, <2>11
       DEF EventNames, ApplicationEvents, SystemEvents, AudioEvents
<1> HIDE DEF tables
<1> QED
  BY <1>2, <1>3

\* However the server marks an empty object, the data reaches parse_event as an object.
LEMMA DataArrives ==
  ASSUME NEW fields
  PROVE  RawData(Marked(fields)) = Object(fields)
<1>1. Object(fields) # Array({})
  BY DEF Object, Array
<1> QED
  BY <1>1 DEF RawData, Marked, Normalised

LEMMA UnknownKeepsAll ==
  ASSUME NEW name, name # "UnknownEvent", NEW fields, NEW included, NEW newer,
         Received(name, fields, included, newer).class = "UnknownEvent"
  PROVE  Received(name, fields, included, newer).data = fields
BY DataArrives DEF Received, ParseEvent, Object

LEMMA KnownArrives ==
  ASSUME NEW name \in EventNames, NEW fields \in EventData(name), NEW included, NEW newer,
         name \in DOMAIN WindowEvents => "window_id" \in fields
  PROVE  /\ Received(name, fields, included, newer).class = name
         /\ fields \ {"hidden", "frontmost"} \subseteq Received(name, fields, included, newer).data
<1> DEFINE class == EventTypes[name]
<1>1. /\ name \in DOMAIN EventTypes /\ class.parts = {} /\ class.needs \subseteq fields
      /\ fields \ {"hidden", "frontmost"} \subseteq class.needs \cup class.may
  BY EventDataFits
<1>2. Accepts(class, Object(fields))
  <2>1. Object(fields) # Array({})
    BY DEF Object, Array
  <2> HIDE DEF class
  <2> QED
    BY <1>1, <2>1 DEF Accepts, Normalised, Object
<1>3. ParseEvent(name, Object(fields)) =
        [class |-> name, data |-> fields \cap (class.needs \cup class.may)]
  BY <1>1, <1>2 DEF ParseEvent, Object
<1> HIDE DEF class
<1> QED
  BY <1>1, <1>3, DataArrives DEF Received

-----------------------------------------------------------------------------
\* The invariant: what the last call or event left behind.  It follows from the step
\* that left it, the Mac being one; every other step clears it.

Inv == mac \in Macs /\ AnswersFit /\ EventsFitTypes /\ RefusedDoesNothing /\ MovedOnScreen

LEMMA InitInv == Init => Inv
BY DEF Init, Inv, Macs, AnswersFit, ResultsFitTypes, ErrorsDocumented, EventsFitTypes,
   RefusedDoesNothing, MovedOnScreen, Succeeded, Sent

LEMMA NoCallFits ==
  ASSUME last' = None
  PROVE  AnswersFit' /\ RefusedDoesNothing' /\ MovedOnScreen'
BY DEF AnswersFit, ResultsFitTypes, ErrorsDocumented, RefusedDoesNothing, MovedOnScreen,
   Succeeded, Sent

LEMMA CallInv ==
  ASSUME Inv, NEW r \in Requests, r.typed => Declared(r.method, r.id, r.value), Call(r)
  PROVE  Inv'
<1>1. mac \in Macs
  BY DEF Inv
<1>2. EventsFitTypes'
  BY DEF Call, EventsFitTypes
<1>3. CASE RefusedLocally(r)
  <2>1. last' = [request |-> r, ending |-> "ValueError", did |-> {}] /\ mac' = mac
    BY <1>3 DEF Call
  <2>2. AnswersFit' /\ RefusedDoesNothing' /\ MovedOnScreen'
    BY <2>1 DEF AnswersFit, ResultsFitTypes, ErrorsDocumented, RefusedDoesNothing,
       MovedOnScreen, Succeeded, Sent
  <2> QED
    BY <1>1, <1>2, <2>1, <2>2 DEF Inv
<1>4. CASE ~RefusedLocally(r)
  <2>1. PICK o \in Outcomes(r) :
           /\ last' = [request |-> r, ending |-> Ending(r, o), did |-> o.did,
                       code |-> o.code, result |-> o.result, of |-> o.of]
           /\ mac' = o.mac
    BY <1>4 DEF Call
  <2>2. Fits(r, o)
    <3>1. Sendable(r)
      BY <1>4 DEF Sendable, Declared, RefusedLocally
    <3>2. r.method \in DOMAIN ResultType
      BY DEF Requests
    <3> QED
      BY <1>1, <3>1, <3>2, OutcomesFit
  <2>3. mac' \in Macs /\ mac'.screens = mac.screens
    BY <2>1, <2>2 DEF Fits
  <2>4. ASSUME o.code = None
        PROVE  /\ Ending(r, o) = IF \E f \in Shown(o.result) : Nameless(r.method, f)
                                 THEN "ProtocolError" ELSE "returned"
               /\ Ending(r, o) # "returned" => o.did = {}
               /\ o.result.kind = "object" =>
                     o.result.fields \subseteq Fields(ResultType[r.method])
    <3>1. ResultFits(r, o)
      BY <2>2, <2>4 DEF Fits
    <3>2. Ending(r, o) = IF Validates(ResultType[r.method], o.result)
                         THEN "returned" ELSE "ProtocolError"
      BY <2>4 DEF Ending
    <3> QED
      BY <3>1, <3>2 DEF ResultFits
  <2>5. o.code # None => RefusalFits(r, o)
    BY <2>2 DEF Fits
  <2>6. /\ last'.request = r /\ last'.ending = Ending(r, o) /\ last'.did = o.did
        /\ last'.code = o.code /\ last'.result = o.result /\ last'.of = o.of
    BY <2>1
  <2>7. ResultsFitTypes'
    BY <2>4, <2>6 DEF ResultsFitTypes, Succeeded, Sent
  <2>8. ErrorsDocumented'
    BY <2>3, <2>5, <2>6 DEF ErrorsDocumented, Sent, RefusalFits, MayRefuse
  <2>9. RefusedDoesNothing'
    BY <2>4, <2>5, <2>6 DEF RefusedDoesNothing, RefusalFits
  <2>10. MovedOnScreen'
    <3> SUFFICES ASSUME o.code = None, r.method = "windows.move" PROVE MovedOnScreen'
      BY <2>6 DEF MovedOnScreen, Succeeded, Sent
    <3>1. InPosition(r.value, o.of.frame, ScreenFrame[o.of.screen])
      BY <1>1, MovePlaces
    <3> QED
      BY <2>6, <3>1 DEF MovedOnScreen, InPosition
  <2> QED
    BY <1>2, <2>3, <2>7, <2>8, <2>9, <2>10 DEF Inv, AnswersFit
<1> QED
  BY <1>3, <1>4

LEMMA DeliverInv ==
  ASSUME Inv, NEW name \in EventNames, Deliver(name)
  PROVE  Inv'
<1>1. PICK fields \in EventData(name), include \in BOOLEAN :
         event' = Received(name, IF include THEN fields ELSE {}, include, FALSE)
  BY DEF Deliver
<1> DEFINE sent == IF include THEN fields ELSE {}
           came == Received(name, sent, include, FALSE)
<1>2. event' = came
  BY <1>1
<1>3. came.sent = sent /\ came.name = name /\ came.include = include
  BY DEF Received
<1>4. came.class = "UnknownEvent" => came.data = sent
  <2>1. name # "UnknownEvent"
    BY DEF EventNames
  <2> HIDE DEF sent
  <2> QED
    BY <2>1, UnknownKeepsAll
<1>5. ASSUME include, name \in DOMAIN WindowEvents => "window_id" \in sent
      PROVE  came.class = name /\ sent \ {"hidden", "frontmost"} \subseteq came.data
  <2>1. sent = fields
    BY <1>5
  <2>2. /\ Received(name, fields, include, FALSE).class = name
        /\ fields \ {"hidden", "frontmost"} \subseteq Received(name, fields, include, FALSE).data
    BY <1>5, <2>1, KnownArrives
  <2> HIDE DEF sent
  <2> QED
    BY <2>1, <2>2
<1>6. EventsFitTypes'
  <2> HIDE DEF came, sent
  <2> QED
    BY <1>2, <1>3, <1>4, <1>5 DEF EventsFitTypes
<1> QED
  BY <1>6, NoCallFits DEF Inv, Deliver

LEMMA DeliverNewerInv ==
  ASSUME Inv, NEW name \in EventNames \cup {"future.event"}, DeliverNewer(name)
  PROVE  Inv'
<1>1. event' = Received(name, {"future"}, TRUE, TRUE)
  BY DEF DeliverNewer
<1>2. event'.newer = TRUE /\ event'.sent = {"future"}
  BY <1>1 DEF Received
<1>3. event'.class = "UnknownEvent" => event'.data = event'.sent
  <2>1. name # "UnknownEvent"
    BY DEF EventNames
  <2> QED
    BY <1>1, <1>2, <2>1, UnknownKeepsAll
<1>4. EventsFitTypes'
  BY <1>2, <1>3 DEF EventsFitTypes
<1> QED
  BY <1>4, NoCallFits DEF Inv, DeliverNewer

LEMMA ChangeInv ==
  ASSUME Inv, Change
  PROVE  Inv'
<1>1. mac' \in Macs
  <2>1. mac \in Macs
    BY DEF Inv
  <2>2. CASE mac' = [mac EXCEPT !.app = "absent", !.window = "gone"]
    BY <2>1, <2>2 DEF Macs
  <2>3. CASE mac' = [mac EXCEPT !.app = "shown"]
    BY <2>1, <2>3 DEF Macs
  <2>4. CASE \E w \in {"gone", "normal"} \ {mac.window} : mac' = [mac EXCEPT !.window = w]
    BY <2>1, <2>4 DEF Macs
  <2>5. CASE \E s \in Screen :
                mac' = [mac EXCEPT !.screens = IF s \in @ THEN @ \ {s} ELSE @ \cup {s}]
    BY <2>1, <2>5 DEF Macs
  <2> QED
    BY <2>2, <2>3, <2>4, <2>5 DEF Change
<1>2. EventsFitTypes'
  BY DEF Change, EventsFitTypes
<1> QED
  BY <1>1, <1>2, NoCallFits DEF Inv, Change

LEMMA StutterInv == Inv /\ UNCHANGED vars => Inv'
BY DEF Inv, vars, AnswersFit, ResultsFitTypes, ErrorsDocumented, EventsFitTypes,
   RefusedDoesNothing, MovedOnScreen, Succeeded, Sent

LEMMA NextInv == Inv /\ [Next]_vars => Inv'
<1> SUFFICES ASSUME Inv, [Next]_vars PROVE Inv'
  OBVIOUS
<1>1. CASE \E r \in Requests : (r.typed => Declared(r.method, r.id, r.value)) /\ Call(r)
  BY <1>1, CallInv
<1>2. CASE \E name \in EventNames : Deliver(name)
  BY <1>2, DeliverInv
<1>3. CASE \E name \in EventNames \cup {"future.event"} : DeliverNewer(name)
  BY <1>3, DeliverNewerInv
<1>4. CASE Change
  BY <1>4, ChangeInv
<1>5. CASE UNCHANGED vars
  BY <1>5, StutterInv
<1> QED
  BY <1>1, <1>2, <1>3, <1>4, <1>5 DEF Next

LEMMA AlwaysInv == Spec => []Inv
<1>1. Init => Inv
  BY InitInv
<1>2. Inv /\ [Next]_vars => Inv'
  BY NextInv
<1> QED
  BY <1>1, <1>2, PTL DEF Spec

\* A result that a handler of the Lua services answers with is of the type that the
\* namespace method hands to parse_result, exactly unless it shows a window without an id
\* (windows.list, windows.focused) or an audio device without a name (audio.get).  Every
\* refusal is documented of the method, but for a move without a screen, and a namespace
\* method called with its declared types is INVALID_PARAMS only where a string is empty.
THEOREM AnswersAlwaysFit == Spec => []AnswersFit
<1>1. Inv => AnswersFit
  BY DEF Inv
<1> QED
  BY <1>1, AlwaysInv, PTL

\* An event of watchers.lua with its data becomes an object of the class registered
\* for its name in _EVENT_TYPES and keeps its documented fields, unless it is of a window
\* without an id; UnknownEvent keeps all.
THEOREM EventsAlwaysFit == Spec => []EventsFitTypes
<1>1. Inv => EventsFitTypes
  BY DEF Inv
<1> QED
  BY <1>1, AlwaysInv, PTL

\* A call that ends with an exception has changed nothing on the Mac: the handlers look
\* at the flag, the parameters and the target before they act.  apps.open may have
\* launched an application that has not come up.
THEOREM RefusalsDoNothing == Spec => []RefusedDoesNothing
<1>1. Inv => RefusedDoesNothing
  BY DEF Inv
<1> QED
  BY <1>1, AlwaysInv, PTL

\* position_frame puts a window inside its screen, on the sides the position names, for
\* screens of every size at every place, those left of and above the main one included.
THEOREM MovesStayOnScreen == Spec => []MovedOnScreen
<1>1. Inv => MovedOnScreen
  BY DEF Inv
<1> QED
  BY <1>1, AlwaysInv, PTL
=============================================================================
