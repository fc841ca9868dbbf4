-------------------------- MODULE MCForwardMessage --------------------------
EXTENDS ForwardMessage

(* A text, a file, a share, a forward of a text and a file, a forward      *)
(* without content, one whose inner messages are too deep to be looked into *)
(* and unreadable, an unreadable one and a malformed one.                  *)
MCKind == [placeholder |-> "text", text |-> "text", file |-> "file", share |-> "share",
           nested |-> "forward", empty |-> "forward", outer |-> "forward", deep |-> "forward",
           unreadable |-> "unreadable", malformed |-> "malformed"]
MCNodes == DOMAIN MCKind
MCInline == [n \in MCNodes |->
  CASE n = "nested" -> <<"text", "file">>
    [] n = "outer"  -> <<"deep">>
    [] n = "deep"   -> <<"unreadable", "unreadable">>
    [] OTHER        -> <<>>]
MCContents ==
  {<<"nested", "share">>, <<"empty">>, <<"text", "outer">>, <<"file", "text", "nested">>,
   <<"unreadable">>, <<"text", "malformed">>, <<"deep", "text">>}
MCInputs ==
  [readable: {TRUE}, hasID: BOOLEAN,
   segments: {<<"other">>, <<"other", "forward">>, <<"forward", "forward">>}]
  \cup [readable: {FALSE}, hasID: {TRUE}, segments: {<<>>}]
=============================================================================
