--------------------------- MODULE MCMediaMessage ---------------------------
(* MediaMessage for TLC: the media with and without links, text, a share,  *)
(* a reply, and bad data.                                                  *)
EXTENDS MediaMessage

Segment(type, url, file, is) == [type |-> type, url |-> url, file |-> file, is |-> is]

MCSegments ==
  {Segment(t, u, "id", "sound") : t \in {"image", "video", "mface"}, u \in {"http", "none"}}
  \cup {Segment("sticker", "http", "id", "sound"), Segment("record", "none", "id", "sound")}
  \cup {Segment("file", "none", f, "sound") : f \in {"http", "id"}}
  \cup {Segment(t, "none", "id", "sound") : t \in {"text", "share", "reply"}}
  \cup {Segment("image", "none", "id", "broken"), Segment("text", "none", "id", "lacking"),
        Segment("reply", "none", "id", "lacking")}
=============================================================================
