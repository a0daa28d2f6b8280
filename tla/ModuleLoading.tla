--------------------------- MODULE ModuleLoading ---------------------------
(***************************************************************************)
(* Which build of the engine a page takes and what becomes of loading it:  *)
(* platform.ts and instantiateWasm of bindings_browser_base.ts.            *)
(*                                                                         *)
(* A page is a record of the browser's features and of what it was given:  *)
(*   exceptions, simd, threads, isolated    what WebAssembly can do here   *)
(*   streaming, transform, xhr              ways to load a module          *)
(*   reachable, mime     the module can be fetched, comes as wasm by type  *)
(*   starts              its worker can be created                         *)
(*   bundles, named      the builds offered, the one in the page's URL     *)
(*   config              a configuration is passed to open                 *)
(***************************************************************************)
EXTENDS Naturals

CONSTANT Null

\* The builds that the web application and the CDN offer.
AppBundles == {"mvp", "eh", "coi"}
JsDelivrBundles == {"eh", "coi"}

GetPlatformFeatures(page) ==
  {f \in {"exceptions", "simd", "threads", "isolated"} : page[f]}

\* The build for this browser, Null where selectBundle throws.  eh is also
\* the last resort of a browser that cannot compile it.
SelectBundle(page) ==
  LET can == GetPlatformFeatures(page)
      offered == page.bundles
  IN  IF can = {"exceptions", "simd", "threads", "isolated"} /\ "coi" \in offered THEN "coi"
      ELSE IF "exceptions" \in can /\ "eh" \in offered THEN "eh"
      ELSE IF "mvp" \in offered THEN "mvp"
      ELSE IF "eh" \in offered THEN "eh" ELSE Null

\* The build that the page's URL names is taken unseen.
BundleOf(page) ==
  IF page.named \in page.bundles THEN page.named ELSE SelectBundle(page)

\* How the module is loaded, and whether that tells of progress.
LoadMode(page) ==
  IF page.streaming THEN (IF page.transform THEN "stream" ELSE "streamQuietly")
  ELSE IF page.xhr THEN "xhr" ELSE "fetch"

StreamReports(mode) == mode = "stream"
XhrReports(mode) == mode = "xhr"

\* A chunk less than 20 ms after updatedAt only moves updatedAt.  A chunk that
\* is reported leaves it, so that every later one is reported.
MayBeReported(mode) == StreamReports(mode) \/ XhrReports(mode)
MayBeHeldBack(mode, reported) == MayBeReported(mode) => ~reported

(***************************************************************************)
(* Emscripten's part: a build with threads does not start without shared   *)
(* memory and says so; a module that a browser cannot compile is refused   *)
(* where it is compiled.                                                   *)
(***************************************************************************)
Starts(page, build) == build = "coi" => page.threads /\ page.isolated
Compiles(page, build) == build \in {"eh", "coi"} => page.exceptions

\* Whether the bytes come to the compiler; streaming wants them typed.
StreamArrives(page) == page.reachable /\ page.mime
XhrArrives(page) == page.reachable
FetchArrives(page) == page.reachable

Arrives(page) ==
  CASE LoadMode(page) = "xhr" -> XhrArrives(page)
    [] LoadMode(page) = "fetch" -> FetchArrives(page)
    [] OTHER -> StreamArrives(page)

\* A fetch or a compilation that fails does so in a promise or a callback
\* that nobody waits for: instantiate is never answered.
Outcome(page, build) ==
  IF ~Starts(page, build) THEN "error"
  ELSE IF Arrives(page) /\ Compiles(page, build) THEN "ok" ELSE "hung"
=============================================================================
