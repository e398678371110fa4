---------------------------- MODULE EventDomains ----------------------------
(***************************************************************************)
(* How every domain server under internal/server subscribes: one           *)
(* definition per SubscribeEvents handler.  There are two kinds.  A        *)
(* blocking one sends every event to its channel from within the handler,  *)
(* whatever the session, and closes the channel when it returns.  A        *)
(* dropping one gives an event up when the channel is full, forwards the   *)
(* requested session only, and returns when the client is closed; it never *)
(* closes its channel.                                                     *)
(***************************************************************************)
EXTENDS Naturals

\* blocking: ch <- evt without a default case, and defer close(ch)
\* bySession: req.SessionId is compared; endsWithClient: <-client.Done()
\* cap: capacity of the channel; events: the CDP events it registers for (some
\* register for the bare prefix of the domain too, which matches no event)
Blocking(n) == [blocking |-> TRUE, bySession |-> FALSE, endsWithClient |-> FALSE,
                cap |-> 64, events |-> n]
Dropping(n) == [blocking |-> FALSE, bySession |-> TRUE, endsWithClient |-> TRUE,
                cap |-> 128, events |-> n]

Accessibility        == Blocking(2)
Animation            == Blocking(3)
Audits               == Blocking(1)
Autofill             == Dropping(1)
BackgroundService    == Dropping(2)
Cast                 == Dropping(2)
Console              == Blocking(1)
CSS                  == [Dropping(5) EXCEPT !.bySession = FALSE]
Database             == Dropping(1)
Debugger             == Dropping(4)
DeviceAccess         == Dropping(1)
DOM                  == Dropping(7)
DOMStorage           == Blocking(4)
FedCm                == Dropping(2)
Fetch                == [Dropping(2) EXCEPT !.bySession = FALSE]
HeadlessExperimental == Dropping(1)
HeapProfiler         == Blocking(4)
Inspector            == Dropping(3)
LayerTree            == Blocking(2)
Log                  == Blocking(1)
Media                == Blocking(5)
Network              == Dropping(6)
Overlay              == Blocking(3)
Page                 == Dropping(23)
Performance          == Blocking(1)
PerformanceTimeline  == Dropping(1)
Preload              == Dropping(6)
Profiler             == Blocking(3)
Runtime              == Dropping(7)
Security             == Blocking(1)
ServiceWorker        == Blocking(3)
Storage              == Blocking(4)
Target               == [Dropping(6) EXCEPT !.bySession = FALSE, !.cap = 64]
Tracing              == Blocking(3)
WebAudio             == Dropping(9)
WebAuthn             == Dropping(2)

Domains == {
    Accessibility, Animation, Audits, Autofill, BackgroundService, Cast,
    Console, CSS, Database, Debugger, DeviceAccess, DOM, DOMStorage, FedCm,
    Fetch, HeadlessExperimental, HeapProfiler, Inspector, LayerTree, Log,
    Media, Network, Overlay, Page, Performance, PerformanceTimeline, Preload,
    Profiler, Runtime, Security, ServiceWorker, Storage, Target, Tracing,
    WebAudio, WebAuthn}

\* What EventStream tells apart: capacities are scaled, several events are several.
ProfileOf(d) == [blocking |-> d.blocking, bySession |-> d.bySession,
                 endsWithClient |-> d.endsWithClient, several |-> d.events > 1]
=============================================================================
