--------------------------- MODULE MCAntTpmsSens ---------------------------
(* A short cycle, so that every order of requests and slots can be explored. *)
EXTENDS AntTpmsSens

\* One page of the rotation, the page sent on request only, an unknown page.
MCRequestedPages == {16, 82, 99}
=============================================================================
