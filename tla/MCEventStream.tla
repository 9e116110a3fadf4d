--------------------------- MODULE MCEventStream ---------------------------
(* Four byte values: 3 and 2 are the magic, 0 and 1 play ASCII.            *)
EXTENDS EventStream

(* A piece that is one byte, and one that is the magic itself (0xAA 0x99   *)
(* is the tail of a UTF-8 character).                                      *)
MCPieces == {<<0>>, <<3, 2>>}
MCFallback == <<1>>
MCLine == <<1>>

(* A magic with an absurd length, whose last byte is half a magic just     *)
(* before the first frame.                                                 *)
MCBanners == {<<3, 2, 1, 3>>}

=============================================================================
