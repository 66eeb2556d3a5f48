----------------------------- MODULE RoomsGuests -----------------------------
(***************************************************************************)
(* Rooms with a history: who was invited where since the client that holds *)
(* the slot connected.  The code keeps invitations by slot alone.          *)
(***************************************************************************)
EXTENDS Rooms

VARIABLE asked

GuestInit == Init /\ asked = [r \in Rooms |-> {}]

Gone(c) == client[c] # "out" /\ client'[c] = "out"

GuestNext ==
    /\ Next
    /\ asked' = [r \in Rooms |->
                   {c \in invited'[r] : ~Gone(c) /\ (c \in invited[r] => c \in asked[r])}]

GuestSpec == GuestInit /\ [][GuestNext]_<<vars, asked>>

\* A client that comes into a locked room was invited by one of its members:
\* "Only members of the room can invite you or unlock it using /lock", says the
\* refusal of /join.
GuestsWereInvited ==
    [][\A r \in Rooms : \A c \in Clients :
          (r \in locked /\ c \in Members(r)' \ Members(r)) => c \in asked[r]]_<<vars, asked>>
=============================================================================
