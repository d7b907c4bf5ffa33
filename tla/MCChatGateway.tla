--------------------------- MODULE MCChatGateway ---------------------------
(* Instances of ChatGateway for TLC: an administrator with two sockets and *)
(* an outsider with one, around another client's chat; a client alone with  *)
(* his chat.                                                                *)
EXTENDS ChatGateway, TLC

CONSTANTS u1, u2, a1, s1, s2, s3, c1, t1, t2

RoomsOwner == s1 :> a1 @@ s2 :> a1 @@ s3 :> u1
RoomsClient == c1 :> u2
RecentOwner == s1 :> u1
RecentClient == c1 :> u1

\* The handlers are interchangeable, and so are the administrator's sockets.
Symmetry == Permutations(Tasks)
            \cup {[x \in {s1, s2} |-> IF x = s1 THEN s2 ELSE s1]}
=============================================================================
