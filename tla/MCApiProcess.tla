----------------------------- MODULE MCApiProcess -----------------------------
(* What an API process keeps in memory: the throttle and the chat share no
   variable, so that each is explored with the other where it starts. *)
EXTENDS RequestThrottle, ChatGateway, TLC

CONSTANTS q1, q2, q3, q4, u1, u2, s1, s2, s3

MCUserOf == (s1 :> u1) @@ (s2 :> u1) @@ (s3 :> u2)

ThrottleAtRest == now = 0 /\ redis = "absent" /\ \A r \in Requests : request[r] = NotMade
ChatAtRest == clock = 0 /\ sent = 0 /\ \A u \in Users : presence[u] = "unknown"

MCInit == ThrottleInit /\ ChatInit

MCNext ==
    \/ ChatAtRest /\ ThrottleNext /\ UNCHANGED chat
    \/ ThrottleAtRest /\ ChatNext /\ UNCHANGED throttle

MCSpec == MCInit /\ [][MCNext]_<<throttle, chat>>

MCSymmetry == Permutations(Requests) \cup Permutations({s1, s2})
=============================================================================
