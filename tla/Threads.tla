-------------------------------- MODULE Threads --------------------------------
(***************************************************************************)
(* What the discourse layer promises (RRP-0018): an annotation is posted   *)
(* once and stays as it is; a reply hangs on one that was there before it, *)
(* on the same claim when both are about claims.  Annotations implements   *)
(* this for careful clients (ImplementsThreads there).                     *)
(***************************************************************************)
CONSTANTS Ids, Targets, None

VARIABLE posts  \* what each annotation is about, and the one it replies to

Post == [target : Targets, in_reply_to : Ids \cup {None}]
Posted == {i \in Ids : posts[i] # None}

TypeOK == posts \in [Ids -> Post \cup {None}]

Init == posts = [i \in Ids |-> None]

OneClaim(t, u) == t.type = "claim" /\ u.type = "claim" => t.id = u.id

\* One annotation more; it may reply to one that is there.
Attach(i) ==
  /\ i \notin Posted /\ posts'[i] \in Post
  /\ posts' = [posts EXCEPT ![i] = posts'[i]]
  /\ LET parent == posts'[i].in_reply_to IN
       parent # None => parent \in Posted /\ OneClaim(posts'[i].target, posts[parent].target)

Next == \E i \in Ids : Attach(i)

vars == <<posts>>

Spec == Init /\ [][Next]_vars
=============================================================================
