---------------------------- MODULE MediaMessage ----------------------------
(***************************************************************************)
(* The segments of one message and what a room shows of each (pkg/onebot/  *)
(* protocol.go and api.go, pkg/msgconv/from_onebot.go, segrender.go and    *)
(* from_onebot_forward_msg.go, pkg/util/util.go).                          *)
(*                                                                         *)
(* The agent's list of segments is decoded and the segments are rendered   *)
(* one after the other.  For a picture, video, file or voice, DownloadMedia*)
(* asks a host for a direct link, or the agent for the bytes, in an order  *)
(* that depends on the segment and on whether the message is an item of a  *)
(* forward; what was obtained is uploaded to Matrix.  In the end a plain   *)
(* message (OnebotToMatrix) or an item of a forward (convertMessageItem)   *)
(* is put together out of the text and the media.                          *)
(*                                                                         *)
(* Hosts, agent and Matrix (external) may answer anything at any time.  A  *)
(* host's error page counts as the bytes asked for, since util.Download    *)
(* does not look at the status of a response.                              *)
(*                                                                         *)
(* Names that ForwardMessage has too have a prefix of their own, since     *)
(* ConversionProofs speaks of both.                                        *)
(***************************************************************************)
EXTENDS Naturals, FiniteSets, SequencesExt

CONSTANTS
  MediaSegments, \* the segments that may occur
  MaxSegments    \* bound: the length of a message

Pictures == {"image", "sticker", "mface"}
Media == Pictures \cup {"video", "file", "record"}
Types == Media \cup {"text", "at", "share", "reply"}

(* url and file are "http" if the field starts so; "broken" segments do    *)
(* not decode, "lacking" ones do and miss a field that a getter asserts.   *)
SegmentType == [type: Types, url: {"http", "none"}, file: {"http", "id"},
                is: {"sound", "broken", "lacking"}]

ASSUME SegmentsAssumption == MediaSegments \subseteq SegmentType /\ MaxSegments \in Nat

VARIABLES
  raw,        \* the segments as the agent sent them
  forwarded,  \* the message is an item of a forward (contextKeyPreferHTTP)
  encrypted,  \* the room is encrypted: UploadMedia returns no plain URL
  segments,   \* the decoded segments
  pieces,     \* what the first of them were rendered to
  step,       \* where the conversion, or DownloadMedia in it, is
  tried       \* the sources asked for the media at hand

mediaVars == <<raw, forwarded, encrypted, segments, pieces, step, tried>>
inputs == <<raw, forwarded, encrypted, segments>>

-----------------------------------------------------------------------------
(* Decoding *)

(* Mutant: a segment that does not decode is kept with its zero value. *)
GenerateSegmentsAll(list) == list

(* generateSegments: what is no segment, has no known type or does not     *)
(* decode is left out.                                                     *)
GenerateSegments(list) ==
  FlattenSeq([i \in DOMAIN list |-> IF list[i].is = "broken" THEN <<>> ELSE <<list[i]>>])

(* unmarshalMessage.                                                       *)
MediaInit ==
  /\ raw \in UNION {[1..n -> MediaSegments] : n \in 1..MaxSegments}
  /\ forwarded \in BOOLEAN /\ encrypted \in BOOLEAN
  /\ segments = GenerateSegments(raw)
  /\ pieces = <<>> /\ step = "walk" /\ tried = {}

(* The segment the walk is at.                                             *)
Rendering == Len(pieces) < Len(segments)
current == segments[Len(pieces) + 1]

Piece(as) == pieces' = Append(pieces, [as |-> as, tried |-> tried'])

-----------------------------------------------------------------------------
(* Rendering: renderSegment and the switches of its two callers *)

(* A getter asserts the type of a missing field; nothing is asked of a     *)
(* reply inside a forward.  The whole conversion panics.                   *)
GetterPanics ==
  /\ step = "walk" /\ Rendering
  /\ current.is # "sound" /\ ~ (forwarded /\ current.type = "reply")
  /\ step' = "panicked"
  /\ UNCHANGED <<inputs, pieces, tried>>

RenderSegment ==
  /\ step = "walk" /\ Rendering
  /\ current.is = "sound" \/ (forwarded /\ current.type = "reply")
  /\ current.type \notin Media
  /\ UNCHANGED <<inputs, step, tried>>
  /\ Piece("content")

ConvertMediaMessage ==
  /\ step = "walk" /\ Rendering /\ current.is = "sound" /\ current.type \in Media
  /\ step' = "prefer" /\ tried' = {}
  /\ UNCHANGED <<inputs, pieces>>

-----------------------------------------------------------------------------
(* Client.DownloadMedia *)

(* Only pictures and videos have a url getter.                             *)
URL(s) == IF s.type \in Pictures \cup {"video"} THEN s.url ELSE "none"

(* A source is asked and has no bytes: on with another step ...            *)
TryNext(source, next) ==
  /\ tried' = tried \cup {source}
  /\ step' = next
  /\ UNCHANGED <<inputs, pieces>>

(* ... or DownloadMedia returns the error, ...                             *)
GiveUp(sources) ==
  /\ tried' = tried \cup sources
  /\ step' = "walk"
  /\ Piece("missing")
  /\ UNCHANGED inputs

(* ... or it has: util.Download and the agent give bytes.                  *)
Obtain(source) == TryNext(source, "upload")

Skip(next) == step' = next /\ UNCHANGED <<inputs, pieces, tried>>

PreferredLink == IF URL(current) = "http" THEN "url" ELSE "file"
HasPreferredLink == forwarded /\ (URL(current) = "http" \/ current.file = "http")

(* Mutant: the error of the preferred link is returned. *)
PreferHTTPOnly ==
  /\ step = "prefer"
  /\ IF HasPreferredLink THEN Obtain(PreferredLink) \/ GiveUp({PreferredLink})
                         ELSE Skip("direct")

(* preferHTTP: the url, or else the file, if it is a link; when it fails   *)
(* the usual way follows.                                                  *)
PreferHTTP ==
  /\ step = "prefer"
  /\ IF HasPreferredLink THEN Obtain(PreferredLink) \/ TryNext(PreferredLink, "direct")
                         ELSE Skip("direct")

(* A market face, video or sticker with a link: the link, and nothing      *)
(* else.  One without it is waited for (3 s); all others go to the agent.  *)
LinkOnly(s) == s.type \in {"mface", "video", "sticker"} /\ URL(s) = "http"

DownloadDirect ==
  /\ step = "direct"
  /\ IF LinkOnly(current) THEN Obtain("url") \/ GiveUp({"url"}) ELSE Skip("api")

(* get_image, get_file or get_record: bytes, an answer that cannot be      *)
(* decoded ("garbled"), or an error or an answer without usable bytes.     *)
RequestFile ==
  /\ step = "api"
  /\ Obtain("api") \/ GiveUp({"api", "garbled"}) \/ TryNext("api", "link")

DownloadLink ==
  /\ step = "link"
  /\ IF URL(current) = "http" THEN Obtain("url") \/ GiveUp({"url"}) ELSE GiveUp({})

(* reploadAttachment: the upload succeeds, or the part is a notice of the  *)
(* failure like after a failed download (makeMediaFailure).                *)
UploadMedia ==
  /\ step = "upload" /\ step' = "walk"
  /\ UNCHANGED <<inputs, tried>>
  /\ Piece("media") \/ Piece("unsent")

(* All segments are rendered, and the message is put together (Shown).     *)
Assemble ==
  /\ step = "walk" /\ ~ Rendering
  /\ step' = "done"
  /\ UNCHANGED <<inputs, pieces, tried>>

MediaNext ==
  \/ GetterPanics \/ RenderSegment \/ ConvertMediaMessage
  \/ PreferHTTP \/ DownloadDirect \/ RequestFile \/ DownloadLink \/ UploadMedia
  \/ Assemble

MediaSpec == MediaInit /\ [][MediaNext]_mediaVars

-----------------------------------------------------------------------------
(* The converted message: for each segment "itself" (its text, its share,  *)
(* its picture or its file), a "notice" of the failure, a "mark" such as   *)
(* [Image], or "nothing".                                                  *)

Positions == DOMAIN segments
MediaParts == {i \in Positions : segments[i].type \in Media}
Shares == {i \in Positions : segments[i].type = "share"}

CameThrough(i) == pieces[i].as = "media"
Native(i) == IF CameThrough(i) THEN "itself" ELSE "notice"

(* The last share replaces all text and media; a reply is a relation of    *)
(* the message and stays.                                                  *)
ShownByShare(i) ==
  IF \/ i \in Shares /\ \A j \in Shares : j <= i
     \/ segments[i].type = "reply" /\ ~ forwarded
  THEN "itself" ELSE "nothing"

(* Mutant: a message with media is the first of them. *)
ShownPlainFirst(i) ==
  IF MediaParts = {} THEN "itself"
  ELSE IF i \in MediaParts /\ \A j \in MediaParts : i <= j THEN Native(i) ELSE "nothing"

(* Media beside anything else become images of one HTML text, with their   *)
(* marks; the URL of the image is empty if there is no plain one.          *)
ShownPlain(i) ==
  IF i \notin MediaParts THEN "itself"
  ELSE IF Len(segments) = 1 THEN Native(i)
  ELSE IF CameThrough(i) /\ ~ encrypted THEN "itself" ELSE "mark"

(* A single media other than an image comes after a header, without the    *)
(* text; otherwise pictures are in the text and other media are marks.     *)
ShownForwarded(i) ==
  IF segments[i].type = "reply" THEN "nothing"
  ELSE IF Cardinality(MediaParts) = 1
            /\ \A j \in MediaParts : segments[j].type \notin {"image", "sticker"}
    THEN IF i \in MediaParts THEN Native(i) ELSE "nothing"
  ELSE IF i \notin MediaParts THEN "itself"
  ELSE IF CameThrough(i) /\ ~ encrypted /\ segments[i].type \in Pictures
    THEN "itself" ELSE "mark"

Shown(i) ==
  IF Shares # {} THEN ShownByShare(i)
  ELSE IF forwarded THEN ShownForwarded(i) ELSE ShownPlain(i)

-----------------------------------------------------------------------------
(* Properties *)

PieceType == [as: {"content", "media", "missing", "unsent"},
              tried: SUBSET {"url", "file", "api", "garbled"}]

(* The variables have their types, the pieces are those of the segments    *)
(* rendered so far, and sources are asked for media only.                  *)
MediaTypeOK ==
  /\ raw \in Seq(MediaSegments) /\ segments \in Seq(MediaSegments)
  /\ forwarded \in BOOLEAN /\ encrypted \in BOOLEAN
  /\ pieces \in Seq(PieceType) /\ Len(pieces) <= Len(segments)
  /\ step \in {"walk", "prefer", "direct", "api", "link", "upload", "done", "panicked"}
  /\ tried \subseteq {"url", "file", "api", "garbled"}
  /\ step \notin {"walk", "done"} => Rendering
  /\ step \notin {"walk", "done", "panicked"} => current.type \in Media

(* Bad data costs itself only.  A segment that does not decode cannot make *)
(* the conversion panic and take the others with it: only one that decodes *)
(* and lacks a field can (protocol.go:851-889).                            *)
UndecodableIsHarmless ==
  step = "panicked" => \E i \in DOMAIN raw : raw[i].is = "lacking"

(* No segment of a message vanishes without a trace: it is shown, or its   *)
(* failure is, or a mark stands for it, and media that came through are    *)
(* shown themselves in a room that is not encrypted.  What the code does   *)
(* drop is all of it: everything beside a share, and inside a forward      *)
(* replies, the text beside a single media that is no image, and media     *)
(* that are no pictures beside others (from_onebot.go:132-160,             *)
(* from_onebot_forward_msg.go:140-256).                                    *)
NothingVanishes ==
  step = "done" /\ Shares = {} =>
    \A i \in Positions :
      /\ Shown(i) = "nothing" =>
           /\ forwarded /\ segments[i].type \notin Media
           /\ segments[i].type = "reply" \/ Cardinality(MediaParts) = 1
      /\ CameThrough(i) /\ ~ encrypted =>
           Shown(i) = "itself" \/ (forwarded /\ segments[i].type \notin Pictures)
      /\ pieces[i].as \in {"missing", "unsent"} => Shown(i) \in {"notice", "mark"}

(* Media are given up only when no source is left: the agent was asked,    *)
(* and the link if there is one, unless the agent's answer was garbled.    *)
(* Market faces, videos and stickers with a link hang on it alone, inside  *)
(* forwards too, though the comment promises them the agent as fallback    *)
(* (api.go:183-264).                                                       *)
FallbacksAreTried ==
  \A i \in DOMAIN pieces : pieces[i].as = "missing" =>
    /\ URL(segments[i]) = "http" => pieces[i].tried \cap {"url", "garbled"} # {}
    /\ "api" \in pieces[i].tried \/ LinkOnly(segments[i])
=============================================================================
