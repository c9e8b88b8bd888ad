--------------------------- MODULE MCArtworkRole ---------------------------
(* ArtworkRole with a gated channel for the cover and an open one for the  *)
(* artist.                                                                 *)
EXTENDS ArtworkRole

CONSTANTS cover, artist

Image(s) == [slot |-> s, clear |-> FALSE]
Clear(s) == [slot |-> s, clear |-> TRUE]

(* Three images of the cover, as the decode thread of a double buffer can  *)
(* fall behind, with a clear or an image of the artist among them.         *)
CoverAndArtist ==
    <<{Image(cover), Image(artist)}, {Image(cover), Clear(cover), Image(artist)}, {Image(cover), Clear(artist)}>>

(* A stream of three payloads, and a short one behind it.                  *)
TwoStreams ==
    <<<<{Image(cover)}, {Image(cover)}, {Image(cover), Clear(cover)}>>,
      <<{Image(cover), Image(artist)}, {Clear(cover)}, {}>>>>

OneStream == <<CoverAndArtist>>
============================================================================
