--------------------------- MODULE MCRoomRegistry ---------------------------
(***************************************************************************)
(* RoomRegistry with one inbound call and one dialled one, and as many     *)
(* KoyalRooms as it takes for a webhook and dial to answer the same room.  *)
(***************************************************************************)
EXTENDS RoomRegistry
=============================================================================
