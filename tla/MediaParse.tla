----------------------------- MODULE MediaParse -----------------------------
(***************************************************************************)
(* The parse step of an upload: DocumentParserService picks a parser; the  *)
(* parsers of images, audio and video store the file in S3 and ask models  *)
(* about it, the one of videos also cuts frames with ffmpeg in a temporary *)
(* directory and stores each.  Only what the storage refuses is to fail    *)
(* the step.                                                               *)
(***************************************************************************)
EXTENDS Integers, FiniteSets

CONSTANTS Parses,      \* parse steps of the processes that share the storage
          MaxCuts,     \* frames that ffmpeg cuts at most
          MaxMediaFaults

VARIABLES
  parse,       \* by step: the kind of file, where it is, the frame it is at (0 is
               \* the file), frames cut, its temporary directory, assets it answers
  bucket,      \* the bucket is there; the process has seen it
  objects,     \* stored: <<step, frame>>
  mediaFaults, \* by step: what went wrong in it
  faultsLeft

mediaParseVars == <<parse, bucket, objects, mediaFaults, faultsLeft>>

MediaKinds == {"image", "audio", "video"}
TextKinds == {"text", "pdf", "office", "web"}
ParseFaults == {"storage", "collision", "asr", "model", "ffmpeg", "cleanup", "content"}
NoParse == [kind |-> "image", at |-> "none", frame |-> 0, cut |-> 0, dir |-> FALSE,
            assets |-> {}]
Stored(p) == {o[2] : o \in {x \in objects : x[1] = p}}

MediaParseTypeOK ==
  /\ parse \in [Parses -> [kind : MediaKinds \cup TextKinds,
                  at : {"none", "read", "head", "create", "put", "describe", "asr", "ffmpeg",
                        "extract", "clean", "done", "failed"},
                  frame : 0..MaxCuts, cut : 0..MaxCuts, dir : BOOLEAN,
                  assets : SUBSET (0..MaxCuts)]]
  /\ bucket \in [there : BOOLEAN, seen : BOOLEAN]
  /\ objects \subseteq Parses \X (0..MaxCuts)
  /\ mediaFaults \in [Parses -> SUBSET ParseFaults] /\ faultsLeft \in 0..MaxMediaFaults

MediaParseInit ==
  /\ parse = [p \in Parses |-> NoParse]
  /\ bucket = [there |-> FALSE, seen |-> FALSE] /\ objects = {}
  /\ mediaFaults = [p \in Parses |-> {}] /\ faultsLeft = MaxMediaFaults

-----------------------------------------------------------------------------
ParseIs(p, at) == parse[p].at = at
Parse(p, x) == parse' = [parse EXCEPT ![p] = x]
ParseAt(p, at) == Parse(p, [parse[p] EXCEPT !.at = at])
NoParseFault == UNCHANGED <<mediaFaults, faultsLeft>>
ParseFault(p, f) == /\ faultsLeft > 0 /\ faultsLeft' = faultsLeft - 1
               /\ mediaFaults' = [mediaFaults EXCEPT ![p] = @ \cup {f}]

ParseBegins(p, kind) ==
  /\ ParseIs(p, "none") /\ Parse(p, [NoParse EXCEPT !.kind = kind,
                                 !.at = IF kind \in MediaKinds THEN "head" ELSE "read"])
  /\ UNCHANGED <<bucket, objects>> /\ NoParseFault

\* The parsers of texts store nothing.  Those of PDF and Office files refuse a file
\* they cannot read or that holds no text; the others take whatever comes.
Refusable(kind) == kind \in {"pdf", "office"}
ReadText(p) ==
  /\ ParseIs(p, "read") /\ UNCHANGED <<bucket, objects>>
  /\ \/ ParseAt(p, "done") /\ NoParseFault
     \/ Refusable(parse[p].kind) /\ ParseAt(p, "failed") /\ ParseFault(p, "content")

\* The storage refuses: the step fails for the file; for a frame all frames are
\* given up.
Refuses(p) ==
  IF parse[p].frame = 0 THEN [parse[p] EXCEPT !.at = "failed"]
  ELSE [parse[p] EXCEPT !.at = "clean", !.assets = {0}]
StorageFails(p) ==
  /\ parse[p].at \in {"head", "create", "put"} /\ Parse(p, Refuses(p))
  /\ ParseFault(p, "storage") /\ UNCHANGED <<bucket, objects>>
\* ensureBucket: no answer at all is taken for a bucket that is not there.
HeadBucket(p) ==
  /\ ParseIs(p, "head") /\ UNCHANGED objects
  /\ \/ /\ bucket.seen \/ bucket.there
        /\ bucket' = [bucket EXCEPT !.seen = TRUE] /\ ParseAt(p, "put") /\ NoParseFault
     \/ /\ ~bucket.seen /\ ~bucket.there
        /\ ParseAt(p, "create") /\ UNCHANGED bucket /\ NoParseFault
     \/ /\ ~bucket.seen /\ ParseAt(p, "create") /\ UNCHANGED bucket /\ ParseFault(p, "storage")
CreateBucket(p) ==
  /\ ParseIs(p, "create") /\ UNCHANGED objects
  /\ IF bucket.there
     THEN /\ Parse(p, Refuses(p)) /\ UNCHANGED <<bucket, faultsLeft>>
          /\ mediaFaults' = [mediaFaults EXCEPT ![p] = @ \cup {"collision"}]
     ELSE bucket' = [there |-> TRUE, seen |-> TRUE] /\ ParseAt(p, "put") /\ NoParseFault
AfterPut(x) == IF x.kind = "image" \/ x.frame > 0 THEN "describe" ELSE "asr"
PutObject(p) ==
  /\ ParseIs(p, "put") /\ objects' = objects \cup {<<p, parse[p].frame>>}
  /\ Parse(p, [parse[p] EXCEPT !.at = AfterPut(parse[p]),
                              !.assets = IF parse[p].frame = 0 THEN {0} ELSE @])
  /\ UNCHANGED bucket /\ NoParseFault

\* The words of a file: a service that fails leaves a remark in their place.
AfterAsr(x) == IF x.kind = "audio" THEN "done" ELSE "ffmpeg"
AsrFailed(x) == AfterAsr(x)
Transcribe(p) ==
  /\ ParseIs(p, "asr") /\ UNCHANGED <<bucket, objects>>
  /\ \/ ParseAt(p, AfterAsr(parse[p])) /\ NoParseFault
     \/ ParseAt(p, AsrFailed(parse[p])) /\ ParseFault(p, "asr")
ImageRead(x) == [x EXCEPT !.at = "done"]
AfterDescribe(x) ==
  CASE x.kind = "image" -> ImageRead(x)
    [] x.kind = "video" /\ x.frame < x.cut ->
         [x EXCEPT !.at = "head", !.frame = @ + 1, !.assets = @ \cup {x.frame}]
    [] OTHER -> [x EXCEPT !.at = "clean", !.assets = @ \cup {x.frame}]
Describe(p) ==
  /\ ParseIs(p, "describe") /\ Parse(p, AfterDescribe(parse[p]))
  /\ UNCHANGED <<bucket, objects>> /\ (NoParseFault \/ ParseFault(p, "model"))

\* No ffmpeg: no frames, and no directory was made.
CheckFfmpeg(p) ==
  /\ ParseIs(p, "ffmpeg") /\ UNCHANGED <<bucket, objects>>
  /\ \/ Parse(p, [parse[p] EXCEPT !.at = "extract", !.dir = TRUE]) /\ NoParseFault
     \/ ParseAt(p, "done") /\ ParseFault(p, "ffmpeg")
ExtractFrames(p) ==
  /\ ParseIs(p, "extract") /\ UNCHANGED <<bucket, objects>>
  /\ \/ \E n \in 1..MaxCuts :
          Parse(p, [parse[p] EXCEPT !.at = "head", !.frame = 1, !.cut = n]) /\ NoParseFault
     \/ ParseAt(p, "clean") /\ NoParseFault  \* no frame was cut
     \/ ParseAt(p, "clean") /\ ParseFault(p, "ffmpeg")
\* The directory is removed on every way out; if that fails, so does the step.
RemoveDirectory(p) ==
  /\ ParseIs(p, "clean") /\ UNCHANGED <<bucket, objects>>
  /\ \/ Parse(p, [parse[p] EXCEPT !.at = "done", !.dir = FALSE]) /\ NoParseFault
     \/ ParseAt(p, "failed") /\ ParseFault(p, "cleanup")

MediaParseNext ==
  \E p \in Parses :
    \/ \E kind \in MediaKinds \cup TextKinds : ParseBegins(p, kind)
    \/ ReadText(p)
    \/ HeadBucket(p) \/ CreateBucket(p) \/ PutObject(p) \/ StorageFails(p)
    \/ Transcribe(p) \/ Describe(p)
    \/ CheckFfmpeg(p) \/ ExtractFrames(p) \/ RemoveDirectory(p)
MediaParseSpec == MediaParseInit /\ [][MediaParseNext]_mediaParseVars

-----------------------------------------------------------------------------
\* DocumentParserService asks the parsers in this order, each by the ending of
\* the name or by the type the browser gave.
NameEndings == {"txt", "pdf", "docx", "png", "mp3", "mp4", "html", "bin"}
Supports(parser, e, m) ==
  CASE parser = "text" -> m \in {"text/plain", "text/html"} \/ e = "txt"
    [] parser = "pdf" -> e = "pdf" \/ m = "pdf"
    [] parser = "office" -> e = "docx"
    [] parser = "image" -> m = "image" \/ e = "png"
    [] parser = "audio" -> m = "audio" \/ e = "mp3"
    [] parser = "video" -> m = "video" \/ e = "mp4"
    [] parser = "web" -> m = "text/html" \/ e = "html"
ParserOrder == <<"text", "pdf", "office", "image", "audio", "video", "web">>
ParserFor(e, m) ==
  LET able == {i \in DOMAIN ParserOrder : Supports(ParserOrder[i], e, m)}
  IN  IF able = {} THEN "none" ELSE ParserOrder[CHOOSE i \in able : \A j \in able : i <= j]
ParserByName == [txt |-> "text", pdf |-> "pdf", docx |-> "office", png |-> "image",
                 mp3 |-> "audio", mp4 |-> "video", html |-> "web", bin |-> "none"]

(* A step fails only through the storage, through a bucket that two made   *)
(* at once, through a directory that stays or a text that cannot be read;  *)
(* whatever models and ffmpeg do, it answers, with assets that are stored, *)
(* with all the frames or with none, and leaves no directory and, unless   *)
(* the storage failed, no object that nothing names.  A file without a     *)
(* known type is read by the parser its name calls for; a page sent as     *)
(* text/html never reaches the parser of pages.                            *)
MediaParsed ==
  /\ \A p \in Parses : LET x == parse[p] IN
       /\ x.at = "failed" =>
            mediaFaults[p] \cap {"storage", "collision", "cleanup", "content"} # {}
       /\ x.at \in {"done", "failed"} => (x.dir <=> "cleanup" \in mediaFaults[p])
       /\ x.at = "done" /\ x.kind \in TextKinds => x.assets = {} /\ Stored(p) = {}
       /\ x.at = "done" /\ x.kind \in MediaKinds =>
            /\ 0 \in x.assets /\ x.assets \subseteq Stored(p)
            /\ x.assets \in {{0}, 0..x.cut}
            /\ mediaFaults[p] \cap {"storage", "collision"} = {} => Stored(p) = x.assets
  /\ \A e \in NameEndings : ParserFor(e, "octet") = ParserByName[e]
  /\ \A e \in NameEndings : ParserFor(e, "text/html") # "web"
=============================================================================
