--------------------------- MODULE MCEngineScopes ---------------------------
(* Two pthreads, options with patterns of each kind or none at all, one    *)
(* file with a cloneable and an uncloneable handle; chunks of two rows.    *)
EXTENDS EngineScopes, TLC

Alike == Permutations(Pthreads)

\* "a" is a host's character and "/" separates a host from its path.
MCUrls == {<<"b", "a", "/">>, <<"a", "/", "b">>, <<"b", "/", "a", "/">>}

MCConfigs ==
  {[all |-> FALSE, creds |-> {<<"a">>, <<"*", "*", "a", "/">>},
    headers |-> {<<"*", "a", "/">>, <<"*", "/", "*", "/">>}]}

MCChunks ==
  [kind : ViewedKinds, valid : {<<TRUE, TRUE>>, <<FALSE, TRUE>>}, value : {<<"x", "y">>}]
    \cup [kind : {"unsupported"}, valid : {<<TRUE, TRUE>>}, value : {<<"x", "y">>}]
    \cup [kind : {"struct"}, valid : {<<TRUE, FALSE>>}, value : {<<Null, "y">>}]
    \cup [kind : {"flat"}, valid : {<<TRUE, TRUE>>}, value : {<<"y", "x">>}]

\* A request and a call are looked at and not continued from: they change
\* nothing but the view of the scope that made them.  At most three messages
\* are under way in all.
Bounded ==
  /\ sent = <<>> /\ answer = <<>>
  /\ \A v, w \in Pthreads : v # w => Len(mail[v]) + Len(mail[w]) <= 3

\* The patterns of the instance match what they cover.
ASSUME OptionsMatch == PatternsMatch
=============================================================================
