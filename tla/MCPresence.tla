------------------------------ MODULE MCPresence ------------------------------
(* Small instances of Presence for TLC. *)
EXTENDS Presence

CONSTANTS s1, s2

\* Room for both sockets, of /mm; or room for one of them, the other of /chat.
RoomForBoth == [cap |-> 2, chat |-> {}]
RoomForOne  == [cap |-> 1, chat |-> {s2}]

BothRooms == {RoomForBoth, RoomForOne}
WideRoom  == {RoomForBoth}
=============================================================================
