----------------------------- MODULE MCWebFiles -----------------------------
(* Instances of WebFiles for TLC.                                          *)
EXTENDS WebFiles

AllNames == {"o", "s", "p", "q"}
KindOf == [n \in AllNames |-> CASE n = "o" -> "opfs" [] n = "s" -> "s3" [] OTHER -> "path"]
UrlOf == [n \in AllNames |-> [bucket |-> "b", key |-> n]]

ServerOf(head, get, shows, page) ==
  [head |-> head, get |-> get, shows |-> shows, page |-> page, put |-> TRUE]
TypicalServer == ServerOf("partial", "partial", TRUE, NoLength)
SomeServers ==
  {ServerOf(h, g, s, NoLength) : h \in {"partial", "full", "denied", "unreachable"},
                                 g \in {"partial", "full", "denied"}, s \in BOOLEAN}
    \cup {[TypicalServer EXCEPT !.put = FALSE]}
OnlyTypical == {TypicalServer}
AllOrNone == {AllNames, {}}
SomeSettings == [reliable : BOOLEAN, allowFull : BOOLEAN, forceFull : BOOLEAN]
TwoConfigs == <<S3Config(Endpoint("url", <<"e">>), "k1"), S3Config(Endpoint("domain", <<>>), "k2")>>
TypicalSettings == {[reliable |-> TRUE, allowFull |-> TRUE, forceFull |-> FALSE]}
SomeAliases == {<<"o", "o">>, <<"s", "s">>, <<"p", "p">>, <<"p", "s">>}
Bytes == <<1, 2, 3>>

ASSUME HypothesesHold == Honest /\ NoBareSlash

(* A file that was moved is followed by itself, or with the one that had    *)
(* the name; what servers may be like matters for the file that comes from  *)
(* one, and two handles of it for the settings that are usual.  An upload   *)
(* that a server refuses can be tried again for ever, and raises the epoch  *)
(* each time.                                                              *)
MaxEpoch == 3
TypicalEnv == env.server = TypicalServer /\ env.set \in TypicalSettings
OneHandle == \A h \in 2..MaxHandles : w.handle[h] = NoHandle
Bounded ==
  /\ w.epoch <= MaxEpoch
  /\ w.moved # {} => w.config = 1
  /\ w.moved # {} /\ w.last > 1 =>
       /\ OneHandle /\ w.handle[1].mode \in {"none", "read"} /\ Len(w.os) <= 1
       /\ \A i \in Ids : {w.file[i].name, w.file[i].url} \subseteq {"p", "q", NoUrl}
  /\ env.intact = {} => TypicalEnv /\ w.config = 1 /\ w.moved = {} /\ OneHandle
  /\ env.set \notin TypicalSettings => OneHandle
  /\ ~TypicalEnv => /\ w.config = 1 /\ w.os = <<>>
                    /\ \A n \in Names : w.pin[n] = None
                    /\ \A i \in Ids : w.file[i].name \in {"s", NoUrl}
=============================================================================
