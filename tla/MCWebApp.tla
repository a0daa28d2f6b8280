------------------------------ MODULE MCWebApp ------------------------------
(* Browsers of each kind that the code tells apart, over the bundles of    *)
(* the web application, of jsDelivr and none; two connections; a ring of   *)
(* two inputs, gone round by the third.                                    *)
EXTENDS WebApp, TLC

Modern ==
  [exceptions |-> TRUE, simd |-> TRUE, threads |-> TRUE, isolated |-> TRUE,
   streaming |-> TRUE, transform |-> TRUE, xhr |-> TRUE,
   reachable |-> TRUE, mime |-> TRUE, starts |-> TRUE,
   bundles |-> AppBundles, named |-> Null, config |-> FALSE]

MCPages ==
  { Modern,
    [Modern EXCEPT !.isolated = FALSE, !.config = TRUE],
    [Modern EXCEPT !.exceptions = FALSE, !.transform = FALSE],
    [Modern EXCEPT !.exceptions = FALSE, !.streaming = FALSE, !.bundles = JsDelivrBundles],
    [Modern EXCEPT !.streaming = FALSE, !.bundles = JsDelivrBundles, !.mime = FALSE],
    [Modern EXCEPT !.streaming = FALSE, !.xhr = FALSE, !.simd = FALSE],
    [Modern EXCEPT !.reachable = FALSE],
    [Modern EXCEPT !.mime = FALSE],
    [Modern EXCEPT !.named = "coi", !.isolated = FALSE],
    [Modern EXCEPT !.starts = FALSE, !.bundles = JsDelivrBundles],
    [Modern EXCEPT !.bundles = {}] }

\* The history and the connections of a page have nothing in common: inputs
\* are typed on one kind of page, with no connection dialed.
TypedAlone == typed > 0 => page = Modern /\ dials = 0

MCTexts == << <<"a", " ", "-", "b", ";">>, <<"~">>, <<"b">> >>
=============================================================================
