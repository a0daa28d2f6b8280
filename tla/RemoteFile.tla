----------------------------- MODULE RemoteFile -----------------------------
(***************************************************************************)
(* What the browser runtime makes of a web server: how openFile learns the  *)
(* size of an HTTP or S3 file and whether it can be read in ranges, how     *)
(* readFile reads a range, and how requests to S3 are addressed and signed  *)
(* (runtime_browser.ts, s3_helper.ts).  No state: WebFiles uses these       *)
(* operators in its steps.                                                  *)
(*                                                                         *)
(* A file is a sequence of bytes, Absent if it does not exist.  A server is *)
(* a record:                                                                *)
(*   head   what HEAD gets: "partial" (206), "full" (200), "denied" (403),  *)
(*          or "unreachable" (the request throws)                           *)
(*   get    what GET with a range gets: "partial", "full", "denied"         *)
(*   shows  whether the script may see Content-Length (CORS)                *)
(*   page   the Content-Length of a refusal, if it has one                  *)
(*   put    whether it takes an upload                                      *)
(***************************************************************************)
EXTENDS Integers, Sequences

Absent == <<>>
NoLength == -1

Response(answer, server, file, body) ==
  LET found == answer \in {"partial", "full"} /\ file # Absent
  IN  [status |-> CASE answer = "denied" -> 403
                    [] file = Absent -> 404
                    [] answer = "partial" -> IF body = <<>> THEN 416 ELSE 206
                    [] OTHER -> 200,
       length |-> CASE ~server.shows -> NoLength
                    [] found -> Len(body)
                    [] OTHER -> server.page,
       body |-> IF found THEN body ELSE <<>>]

Upto(file, hi) == IF hi < Len(file) THEN hi + 1 ELSE Len(file)

(* HEAD with the header Range: bytes=0-.                                   *)
HeadRange(server, file) == Response(server.head, server, file, file)
(* GET of the bytes lo..hi; only a server of ranges answers with these.    *)
Get(server, file, lo, hi) ==
  Response(server.get, server, file,
           IF server.get = "partial" THEN SubSeq(file, lo + 1, Upto(file, hi)) ELSE file)
(* HEAD and GET without a range.                                           *)
Plain(answer) == IF answer = "partial" THEN "full" ELSE answer
HeadAll(server, file) == Response(Plain(server.head), server, file, file)
GetAll(server, file) == Response(Plain(server.get), server, file, file)

-----------------------------------------------------------------------------
(* openFile.  "ranges": a size, reads go to the server; "buffer": the       *)
(* bytes; "null": nothing; "error": it fails.                              *)
Opened(kind, size, data) == [kind |-> kind, size |-> size, data |-> data]
Fails == Opened("error", 0, <<>>)
Nothing == Opened("null", 0, <<>>)
Whole(data) == Opened("buffer", Len(data), data)

AsksHead(set) == ~set.forceFull /\ (set.reliable \/ ~set.allowFull)
HeadThrows(server, set) == AsksHead(set) /\ server.head = "unreachable"

(* The last resort, a GET without a range.                                 *)
FullRead(server, set, file) ==
  LET all == GetAll(server, file)
  IN  CASE set.allowFull /\ all.status = 200 -> Whole(all.body)
        [] HeadThrows(server, set) -> Fails
        [] OTHER -> Nothing

(* contentRange is looked for in Content-Length, where it never is; the     *)
(* length that is presumed is the one of a HEAD, whatever its status.       *)
PresumedLength(server, set, file) ==
  LET length == HeadRange(server, file).length
  IN  IF ~set.reliable /\ length # NoLength /\ length > 1 THEN length ELSE NoLength

(* A GET of the first byte: 206 shows that ranges work, 200 with the length *)
(* of the HEAD that the whole file has just come.                          *)
Probe(server, set, file) ==
  LET probe == Get(server, file, 0, 0)
      length == IF server.head = "unreachable" THEN NoLength ELSE HeadRange(server, file).length
      presumed == PresumedLength(server, set, file)
  IN  CASE ~set.reliable /\ server.head = "unreachable" -> Fails
        [] probe.status = 206 /\ probe.length = 1 /\ presumed # NoLength ->
             Opened("ranges", presumed, <<>>)
        [] probe.status = 200 /\ probe.length # NoLength /\ probe.length = length ->
             Whole(probe.body)
        [] OTHER -> FullRead(server, set, file)

OpenForRead(server, set, file) ==
  LET head == HeadRange(server, file)
  IN  CASE AsksHead(set) /\ ~HeadThrows(server, set)
             /\ head.status = 206 /\ head.length # NoLength -> Opened("ranges", head.length, <<>>)
        [] set.allowFull /\ ~set.forceFull -> Probe(server, set, file)
        [] OTHER -> FullRead(server, set, file)

(* A file that is written is an empty buffer until it is closed; the HEAD   *)
(* only finds out whether there is anything to be created.                 *)
OpenForWrite(server, file, creates) ==
  LET head == HeadAll(server, file)
  IN  IF \/ server.head = "unreachable"
         \/ head.status \notin {200, 404}
         \/ head.status = 404 /\ ~creates
        THEN Fails ELSE Opened("buffer", 1, <<0>>)

(* readFile: the bytes, or an exception.  A server that ignores the range   *)
(* sends the whole file, of which the rest is thrown away; asking beyond    *)
(* its end is a RangeError of the typed array.                             *)
Threw == <<-1>>
\* Mutant: the whole file that comes instead of the range is not cut to it.
ReadStart(server, file, at, n) ==
  LET get == Get(server, file, at, at + n - 1)
  IN  IF get.status \in {200, 206} THEN SubSeq(get.body, 1, Upto(get.body, n - 1)) ELSE Threw
ReadRange(server, file, at, n) ==
  LET get == Get(server, file, at, at + n - 1)
  IN  CASE get.status = 206 \/ (get.status = 200 /\ n = Len(get.body) /\ at = 0) ->
             SubSeq(get.body, 1, Upto(get.body, n - 1))
        [] get.status = 200 /\ at <= Len(get.body) -> SubSeq(get.body, at + 1, Upto(get.body, at + n - 1))
        [] OTHER -> Threw

(* checkFile and glob: whether the file is taken to exist.                 *)
Exists(server, file) ==
  server.head # "unreachable" /\ HeadAll(server, file).status \in {200, 206}
GlobFallsBack(server, set, file) ==
  server.head # "unreachable" /\ ~Exists(server, file) /\ set.allowFull
Globs(server, set, file) ==
  \/ Exists(server, file)
  \/ GlobFallsBack(server, set, file) /\ Get(server, file, 0, 0).status \in {200, 206}

-----------------------------------------------------------------------------
(* S3.  An endpoint is "" (AWS), a domain, or a URL with a path, here the   *)
(* segments after the host; s3://bucket/key is the record below.            *)
Endpoint(kind, path) == [kind |-> kind, path |-> path]
S3Config(endpoint, secret) == [endpoint |-> endpoint, secret |-> secret]
PathStyle(config) == config.endpoint.kind = "url"
Host(config, bucket) ==
  IF PathStyle(config) THEN <<"endpoint">>
  ELSE IF config.endpoint.kind = "domain" THEN <<bucket, "endpoint">> ELSE <<bucket, "aws">>

(* getHTTPUrl: the endpoint is pasted as it is, with its last slash if it   *)
(* has one (an empty last segment).                                        *)
HTTPUrl(config, url) ==
  [host |-> Host(config, url.bucket),
   path |-> IF PathStyle(config) THEN config.endpoint.path \o <<url.bucket, url.key>>
                                 ELSE <<url.key>>]
(* getS3Params: the path of the endpoint unless it is "/".                 *)
SignedUrl(config, url) ==
  [host |-> Host(config, url.bucket),
   path |-> IF PathStyle(config)
              THEN (IF config.endpoint.path = <<"">> THEN <<>> ELSE config.endpoint.path)
                     \o <<url.bucket, url.key>>
              ELSE <<url.key>>]
(* addS3Headers signs only for somebody who has a key or a token.          *)
S3Headers(config, url, method, payload) ==
  IF config.secret = "" THEN [method |-> "", secret |-> ""]
  ELSE [url |-> SignedUrl(config, url), method |-> method, payload |-> payload,
        secret |-> config.secret]
S3Request(config, url, method, signedAs, payload) ==
  [url |-> HTTPUrl(config, url), method |-> method, payload |-> payload,
   headers |-> S3Headers(config, url, signedAs, payload)]
=============================================================================
