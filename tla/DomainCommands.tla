--------------------------- MODULE DomainCommands ---------------------------
(***************************************************************************)
(* What the unary methods of every domain server under internal/server do  *)
(* with the shared client: one definition per server.  Each method sends   *)
(* exactly one command, whatever its request, keeps nothing, and returns   *)
(* the answer or the error of the call; its conversions are left out.  All *)
(* methods of a server send in the same way, through its send or its       *)
(* sendBrowser.                                                            *)
(***************************************************************************)
EXTENDS Naturals

\* n methods, on the session of the request, or on the client's default session
\* when the request names none (send), or on no session at all (sendBrowser).
OnSession(n) == [route |-> "session", methods |-> n]
OnBrowser(n) == [route |-> "browser", methods |-> n]

Accessibility        == OnSession(8)
Animation            == OnSession(10)
Audits               == OnSession(5)
Autofill             == OnSession(4)
BackgroundService    == OnSession(4)
BluetoothEmulation   == OnSession(4)
Browser              == OnBrowser(13)
CacheStorage         == OnSession(5)
Cast                 == OnSession(6)
Console              == OnSession(3)
CSS                  == OnSession(19)
Database             == OnSession(4)
Debugger             == OnSession(19)
DeviceAccess         == OnSession(4)
DeviceOrientation    == OnSession(2)
DOM                  == OnSession(28)
DOMDebugger          == OnSession(9)
DOMSnapshot          == OnSession(3)
DOMStorage           == OnSession(6)
Emulation            == OnSession(19)
EventBreakpoints     == OnSession(3)
Extensions           == OnSession(5)
FedCm                == OnSession(7)
Fetch                == OnSession(9)
FileSystem           == OnSession(1)
HeadlessExperimental == OnSession(3)
HeapProfiler         == OnSession(11)
IndexedDB            == OnSession(9)
Input                == OnSession(11)
Inspector            == OnSession(2)
IO                   == OnSession(3)
LayerTree            == OnSession(9)
Log                  == OnSession(5)
Media                == OnSession(2)
Memory               == OnSession(10)
Network              == OnSession(18)
Overlay              == OnSession(13)
Page                 == OnSession(45)
Performance          == OnSession(3)
PerformanceTimeline  == OnSession(1)
Preload              == OnSession(2)
Profiler             == OnSession(9)
PWA                  == OnSession(6)
Runtime              == OnSession(15)
Schema               == OnSession(1)
Security             == OnSession(3)
ServiceWorker        == OnBrowser(13)
Storage              == OnBrowser(10)
SystemInfo           == OnBrowser(3)
Target               == OnBrowser(13)
Tethering            == OnBrowser(2)
Tracing              == OnSession(5)
WebAudio             == OnSession(3)
WebAuthn             == OnSession(12)

Servers == {
    Accessibility, Animation, Audits, Autofill, BackgroundService,
    BluetoothEmulation, Browser, CacheStorage, Cast, Console, CSS, Database,
    Debugger, DeviceAccess, DeviceOrientation, DOM, DOMDebugger, DOMSnapshot,
    DOMStorage, Emulation, EventBreakpoints, Extensions, FedCm, Fetch,
    FileSystem, HeadlessExperimental, HeapProfiler, IndexedDB, Input,
    Inspector, IO, LayerTree, Log, Media, Memory, Network, Overlay, Page,
    Performance, PerformanceTimeline, Preload, Profiler, PWA, Runtime,
    Schema, Security, ServiceWorker, Storage, SystemInfo, Target, Tethering,
    Tracing, WebAudio, WebAuthn}

DomainRoutes == {d.route : d \in Servers}
=============================================================================
