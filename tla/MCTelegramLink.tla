--------------------------- MODULE MCTelegramLink ---------------------------
(***************************************************************************)
(* An instance of TelegramLink for TLC: two customers, one of them linked, *)
(* a code-confirmed unlink of the first, and two chats.                    *)
(***************************************************************************)
EXTENDS TelegramLink, TLC

CONSTANTS ann, bob, h1, h2, c1

OfAnn == (c1 :> ann)
AnnLinked == (ann :> h1) @@ (bob :> NoChat)
=============================================================================
