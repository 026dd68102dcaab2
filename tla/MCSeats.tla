------------------------------ MODULE MCSeats ------------------------------
(* The owner of a friends' table and a guest of the same name, at two       *)
(* chairs; the guest may be invited.  Two connections and one host, or one   *)
(* connection and two hosts.  Connections are alike, and so are hosts.       *)
EXTENDS Seats

CONSTANTS ann, bob

TwoPeople == {ann, bob}
SameName  == ann :> "name" @@ bob :> "name"
TwoChairs == {South, West}
JustBob   == {bob}
JustSouth == {South}
ActorsAlike == Permutations(Conn) \cup Permutations(Host)
=============================================================================
