------------------------------ MODULE StaticServing ------------------------------
(***************************************************************************)
(* A file that the runtime serves itself (src/runtime/static-files.ts):    *)
(* off the disk, with Next.js's `send`, or a public/ file from the assets  *)
(* bucket, with S3 asked for what `send` would have looked at.             *)
(***************************************************************************)
EXTENDS Integers, Sequences

CONSTANT Names \* of files: a name is its characters

\* The object's CacheControl, which the edge also serves it with.
Files == [name : Names, cc : {"none", "object"}]

\* The request: what comes of its If-Match or If-Unmodified-Since, its If-None-Match, its
\* If-Modified-Since and its Range; whether an If-Range, which the file still has, and a
\* Cache-Control: no-cache go with them; a headers() rule for Cache-Control, generateEtags.
Serving == [file : Files, method : {"GET", "HEAD"},
            pre : {"none", "match", "other", "unmodified", "modified"}, inm : {"none", "match", "other"},
            ims : {"none", "unmodified", "modified", "junk"}, range : {"none", "within", "beyond"},
            ifRange : BOOLEAN, reload : BOOLEAN, rule : BOOLEAN, etag : BOOLEAN]

Answer(status, s, tag, whole, cc) ==
    [status |-> status, file |-> s.file.name, tag |-> tag, whole |-> whole, cc |-> cc]
CacheControl(s, own) == IF s.rule THEN "rule" ELSE own

-----------------------------------------------------------------------------
(* send, and S3's GetObject and HeadObject. *)

Encode(name) == [i \in DOMAIN name |-> IF name[i] = "%" THEN "%25" ELSE name[i]]
\* What a URL path names: "%" and "20" are a space, and "%" alone is malformed.
Decodes(path) == ~\E i \in DOMAIN path : path[i] = "%" /\ (i = Len(path) \/ path[i + 1] # "20")
Decode(path) ==
    LET starts == {i \in DOMAIN path : i < Len(path) /\ path[i] = "%" /\ path[i + 1] = "20"}
        Char(i) == IF i \in starts THEN " " ELSE IF path[i] = "%25" THEN "%" ELSE path[i]
        kept == SelectSeq([i \in DOMAIN path |-> [at |-> i, char |-> Char(i)]], LAMBDA c : c.at - 1 \notin starts)
    IN  [n \in DOMAIN kept |-> kept[n].char]

\* What the tag of the file comes to, which it has none of without generateEtags.
PreconditionFails(s) == s.pre \in {"other", "modified"} \/ (s.pre = "match" /\ ~s.etag)
\* `fresh`: an If-Modified-Since is looked at only without an If-None-Match.
Fresh(s) == ~s.reload /\ IF s.inm # "none" THEN s.inm = "match" /\ s.etag ELSE s.ims = "unmodified"

\* 400, 412 and 416 are errors that it throws, the head being written so far.
Send(s, path) ==
    IF ~Decodes(path) THEN Answer(400, [s EXCEPT !.file.name = path], FALSE, FALSE, CacheControl(s, "none"))
    ELSE LET answer(status, whole) ==
                 [Answer(status, s, s.etag, whole, CacheControl(s, "default")) EXCEPT !.file = Decode(path)]
         IN  CASE PreconditionFails(s) -> answer(412, FALSE)
               [] ~PreconditionFails(s) /\ Fresh(s) -> answer(304, FALSE)
               [] OTHER -> CASE s.range = "beyond" -> answer(416, FALSE)
                             [] s.range = "within" -> answer(206, FALSE)
                             [] s.range = "none" -> answer(200, s.method = "GET")

\* The status, of what S3 is asked.
Object(inm, ims, range) ==
    IF inm = "match" \/ (inm = "none" /\ ims = "unmodified") THEN 304
    ELSE CASE range = "beyond" -> 416 [] range = "within" -> 206 [] OTHER -> 200

-----------------------------------------------------------------------------
\* Mutant: the path as it is in the file system.
RawPath(name) == name
\* serveStaticFile, `send` taking a URL's path.
StaticPath(name) == Encode(name)

\* Mutant: only what `send` says of a range.
RangeStatus(status) == IF status = 416 THEN status ELSE 500
\* httpErrorStatus: what the client is to blame for; the rest is an error page.
HttpErrorStatus(status) == IF status \in 400 .. 499 THEN status ELSE 500

ServeStaticFile(s) ==
    LET sent == Send(s, StaticPath(s.file.name))
    IN  IF sent.status < 400 THEN sent ELSE [sent EXCEPT !.status = HttpErrorStatus(sent.status)]

\* Mutant: the range although the file may be another by now.
RangeAnyway(s) == s.range
\* S3 has no If-Range.
AskedRange(s) == IF s.ifRange THEN "none" ELSE s.range
\* Mutant: beside an If-None-Match that is not looked at.
SinceAnyway(s) == IF s.ims = "junk" THEN "none" ELSE s.ims
AskedSince(s) == IF s.inm # "none" \/ s.ims = "junk" THEN "none" ELSE s.ims

\* serveS3PublicFile, which passes on neither If-Match nor If-Unmodified-Since.
ServeS3PublicFile(s) ==
    LET status == Object(IF s.etag THEN s.inm ELSE "none", AskedSince(s), AskedRange(s))
        own == IF s.file.cc = "none" THEN "default" ELSE s.file.cc
    IN  Answer(status, s, status = 304 \/ (status # 416 /\ s.etag), status = 200 /\ s.method = "GET",
               CacheControl(s, CASE status = 304 -> "default" [] status = 416 -> "none" [] OTHER -> own))

-----------------------------------------------------------------------------
(* Properties. *)

\* What of a request S3 is not told.
Untold(s) == [s EXCEPT !.pre = "none", !.reload = FALSE, !.range = IF s.ifRange THEN "none" ELSE @]

\* A file is itself, whatever its name. Off the disk a precondition that fails is a 412,
\* and nothing a client asks is a 500; and the bucket answers what the disk would if the
\* request had no precondition, no no-cache and, with an If-Range, no Range, but for an
\* object's CacheControl and the heads of a 304 and a 416 (static-files.ts,
\* serveStaticFile, httpErrorStatus, serveS3PublicFile).
ServedAlike(s) ==
    LET disk == ServeStaticFile(s)
        bucket == ServeS3PublicFile(s)
        alike == ServeStaticFile(Untold(s))
    IN  /\ disk.file = s.file.name /\ bucket.file = s.file.name
        /\ (disk.status = 412) = PreconditionFails(s)
        /\ disk.status < 500
        /\ bucket.status = alike.status
        /\ bucket.status \in {200, 206} => bucket = [alike EXCEPT !.cc = bucket.cc]
        /\ 304 \in {disk.status, bucket.status} => s.inm = "match" \/ (s.inm = "none" /\ s.ims = "unmodified")

\* With an If-Range the file may have changed, and a part of it is not what the client
\* has the rest of.
NoPartOfAnother(s) == s.ifRange => ServeS3PublicFile(s).status # 206
=================================================================================
